---------------------------- MODULE BedrockCreds ----------------------------
(***************************************************************************)
(* The short-lived Bedrock credentials (bedrockCreds.mjs) as the host      *)
(* re-delivers them: one blob per connection to the primary, which keeps   *)
(* the last one for workers spawned later and broadcasts each to the       *)
(* workers that exist; every worker applies it for itself, an enveloped    *)
(* one after a KMS decrypt of its own.                                     *)
(***************************************************************************)
EXTENDS WorkerClock

CONSTANTS
    Workers,
    MaxBlobs,       \* bound: blobs the host delivers
    MaxRespawns,    \* bound: workers that die and are replaced
    CredsMargin     \* the safety margin of get, in ticks

ASSUME BedrockAssumption ==
    MaxBlobs \in Nat /\ MaxRespawns \in Nat /\ CredsMargin \in Nat

VARIABLES
    blobs,          \* what the host delivered, oldest first: [kind, expiration]
    lastBlob,       \* lastBedrockBlob of the primary, 0 when none
    inbox,          \* inbox[w]: broadcasts not yet handled
    decrypting,     \* decrypting[w]: kmstool runs open
    creds,          \* creds[w]: the blob whose credentials are installed, 0 when none
    overlapped,     \* workers that had two decrypts open at once, or one beside a plain blob
    deaf,           \* new workers that have read their state and not yet attached their listener
    signed,         \* [worker, expiration]: what a request was last signed with
    respawns

bedrock == <<blobs, lastBlob, inbox, decrypting, creds, overlapped, deaf, signed, respawns>>

BedrockInit ==
    /\ blobs = <<>> /\ lastBlob = 0
    /\ inbox = [w \in Workers |-> <<>>]
    /\ decrypting = [w \in Workers |-> {}]
    /\ creds = [w \in Workers |-> 0]
    /\ overlapped = {} /\ deaf = {} /\ respawns = 0
    /\ signed = [worker |-> "none", expiration |-> 0]

\* listen: one connection, one blob.  An oversized, stalled or unparsable one is
\* dropped there; what parses is kept and broadcast, whatever it holds.
Deliver ==
    /\ Len(blobs) < MaxBlobs
    /\ \E kind \in {"kms", "plain", "malformed"}, expiration \in 0..MaxTime :
          blobs' = Append(blobs, [kind |-> kind, expiration |-> expiration])
    /\ lastBlob' = Len(blobs')
    /\ inbox' = [w \in Workers |-> IF w \in deaf THEN inbox[w] ELSE Append(inbox[w], Len(blobs'))]
    /\ UNCHANGED <<decrypting, creds, overlapped, deaf, signed, respawns, clock>>

\* applyBlob: an enveloped blob goes to KMS; a plain one replaces the credentials at
\* once, whatever its expiration says, if it has all its fields.
applyBlob(w, b) ==
    /\ \/ blobs[b].kind = "kms"
          /\ decrypting' = [decrypting EXCEPT ![w] = @ \cup {b}]
          /\ UNCHANGED creds
       \/ blobs[b].kind = "plain"
          /\ creds' = [creds EXCEPT ![w] = b]
          /\ UNCHANGED decrypting
       \/ blobs[b].kind = "malformed"
          /\ UNCHANGED <<creds, decrypting>>
    /\ overlapped' = IF decrypting[w] # {} /\ blobs[b].kind # "malformed"
                     THEN overlapped \cup {w} ELSE overlapped

Apply(w) ==
    /\ inbox[w] # <<>> /\ w \notin deaf
    /\ applyBlob(w, Head(inbox[w]))
    /\ inbox' = [inbox EXCEPT ![w] = Tail(@)]
    /\ UNCHANGED <<blobs, lastBlob, deaf, signed, respawns, clock>>

\* Mutant of Decrypted: a decrypt that fails clears what was there.
DecryptedClears(w, b) ==
    /\ b \in decrypting[w]
    /\ decrypting' = [decrypting EXCEPT ![w] = @ \ {b}]
    /\ creds' \in {[creds EXCEPT ![w] = b], [creds EXCEPT ![w] = 0]}
    /\ UNCHANGED <<blobs, lastBlob, inbox, overlapped, deaf, signed, respawns, clock>>

\* kmstool answers: installed, or refused or malformed, and the old value stays.
Decrypted(w, b) ==
    /\ b \in decrypting[w]
    /\ decrypting' = [decrypting EXCEPT ![w] = @ \ {b}]
    /\ creds' \in {[creds EXCEPT ![w] = b], creds}
    /\ UNCHANGED <<blobs, lastBlob, inbox, overlapped, deaf, signed, respawns, clock>>

\* get: null within the safety margin of the expiration.
usable(w) == creds[w] # 0 /\ blobs[creds[w]].expiration >= now + CredsMargin

\* A bedrock candidate is signed, or skipped for want of credentials.
Sign(w) ==
    /\ usable(w)
    /\ signed' = [worker |-> w, expiration |-> blobs[creds[w]].expiration]
    /\ UNCHANGED <<blobs, lastBlob, inbox, decrypting, creds, overlapped, deaf, respawns, clock>>

\* A worker is replaced: the primary's state hands the new one the last blob.
Respawn(w) ==
    /\ respawns < MaxRespawns
    /\ respawns' = respawns + 1
    /\ creds' = [creds EXCEPT ![w] = 0]
    /\ decrypting' = [decrypting EXCEPT ![w] = {}]
    /\ overlapped' = overlapped \ {w}
    /\ deaf' = deaf \cup {w}
    /\ inbox' = [inbox EXCEPT ![w] = IF lastBlob = 0 THEN <<>> ELSE <<lastBlob>>]
    /\ UNCHANGED <<blobs, lastBlob, signed, clock>>

\* It attaches its listener; what was broadcast before that is lost to it.
Hears(w) ==
    /\ w \in deaf
    /\ deaf' = deaf \ {w}
    /\ UNCHANGED <<blobs, lastBlob, inbox, decrypting, creds, overlapped, signed, respawns, clock>>

BedrockNext ==
    \/ Deliver
    \/ \E w \in Workers :
          \/ Apply(w) \/ Sign(w) \/ Respawn(w) \/ Hears(w)
          \/ \E b \in decrypting[w] : Decrypted(w, b)

-----------------------------------------------------------------------------
\* What a request is signed with has its margin left when it is signed.
SignedAlive == signed' # signed => signed'.expiration >= now + CredsMargin

\* Credentials never go back to an older blob, and never go away, except in a worker
\* where a decrypt was overtaken by another blob: kmstool runs end in any order.
NeverBackUnlessOverlapped ==
    \A w \in Workers : creds'[w] < creds[w] => w \in overlapped \/ respawns' > respawns
=============================================================================
