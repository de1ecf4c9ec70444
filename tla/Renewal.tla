------------------------------ MODULE Renewal ------------------------------
(***************************************************************************)
(* The sealed store that carries the certificate and the EHBP identity     *)
(* across restarts: the boot of a box (start, enclave/src/server.mjs, with *)
(* loadCachedCertificate and resolveHpkeIdentity), the two ways a          *)
(* certificate arrives (an in-enclave order; a CSR and an install driven   *)
(* by CI, enclave/src/acmeRunner.mjs) and the seal and save that follow    *)
(* (persistIssued, enclave/src/acmeStore.mjs).                             *)
(*                                                                         *)
(* Every box reads the store at boot; one of them, the renewal authority,  *)
(* writes it.  Only the primary process of a box appears here.  A          *)
(* certificate is named by its key, and keys and identities are numbered   *)
(* in the order they are generated; 0 is none.                             *)
(***************************************************************************)
EXTENDS Naturals, FiniteSets

CONSTANTS
    Boxes,      \* the fleet
    Authority,  \* the box with ACME_RENEWAL_AUTHORITY
    Faults,     \* which faults of FaultKinds are explored
    MaxKeys,    \* bound: certificate keys generated
    MaxBoots    \* bound: boots, over all boxes

\* "unkeyed": no pinned CMK or no credentials; "unopened": the blob is rubbish or
\* KMS does not open it; "mismatch": other names or another directory are asked
\* for; "import": fromJSON rejects the stored identity; "swallow": the host closes
\* the save connection normally and keeps nothing.
FaultKinds == {"unkeyed", "unopened", "mismatch", "import", "swallow"}

ASSUME RenewalAssumption ==
    /\ Authority \in Boxes
    /\ Faults \subseteq FaultKinds
    /\ MaxKeys \in Nat \ {0}
    /\ MaxBoots \in Nat

VARIABLES
    store,          \* what the host hands to a box at boot: [cert, id], cert 0: no blob
    age,            \* of each certificate: "current", "due" or "expired"
    mode,           \* ACME_RENEWAL_MODE of the authority: "alpn" or "dns01-ci"
    phase,          \* of a box: "down", "persisting" (start awaits persistIdentity), "up"
    keyed,          \* storeKms is there
    unsealed,       \* cached.unsealed
    ident, source,  \* the EHBP identity in memory and where it is from
    persisted,      \* hpkeIdentityPersisted: "unset", "yes", "no"
    served,         \* the certificate the box serves
    order,          \* the authority's in-enclave order: "none", "pending", "over"
    pendingRenewal, \* [key, old]: the key of the open CSR, past its TTL or not
    lastInstall,    \* the certificate of the last install
    lastCsr,        \* the key whose CSR was handed out last by this process
    writers,        \* seals and saves under way: [box, kind, cert, id, at]
    obtained,       \* certificates CI has got from the CA
    told,           \* answers to /acme/install: [cert, persisted, repeated]
    blind,          \* the box found a blob at boot and did not open it
    swallowed,      \* the host confirmed a save it did not keep
    keys, ids, boots

box   == <<phase, keyed, unsealed, ident, source, blind>>
ci    == <<order, pendingRenewal, lastInstall, lastCsr>>
world == <<mode, age, obtained>>
vars  == <<store, world, box, persisted, served, ci, writers, told, swallowed,
           keys, ids, boots>>

NoStore   == [cert |-> 0, id |-> 0]
NoRenewal == [key |-> 0, old |-> FALSE]

Init ==
    /\ \/ store = NoStore /\ keys = 0
       \/ store = [cert |-> 1, id |-> 0] /\ keys = 1    \* sealed before identities were
    /\ age = [c \in 1..MaxKeys |-> "current"]
    /\ mode \in {"alpn", "dns01-ci"}
    /\ phase = [b \in Boxes |-> "down"]
    /\ keyed = [b \in Boxes |-> FALSE]
    /\ unsealed = [b \in Boxes |-> NoStore]
    /\ ident = [b \in Boxes |-> 0]
    /\ source = [b \in Boxes |-> "none"]
    /\ persisted = [b \in Boxes |-> "unset"]
    /\ served = [b \in Boxes |-> 0]
    /\ order = "none"
    /\ pendingRenewal = NoRenewal
    /\ lastInstall = 0
    /\ lastCsr = 0
    /\ writers = {}
    /\ obtained = {}
    /\ told = {}
    /\ blind = [b \in Boxes |-> FALSE]
    /\ swallowed = FALSE
    /\ ids = 0
    /\ boots = 0

-----------------------------------------------------------------------------
(* Boot.                                                                   *)

\* A fault may happen or not, a fault that is not explored does not.
May(fault) == IF fault \in Faults THEN BOOLEAN ELSE {FALSE}

\* loadCachedCertificate: what was unsealed, and what of it is servable or due.
loadCachedCertificate(hasKms, fails) ==
    IF store.cert = 0 \/ ~hasKms \/ fails THEN NoStore ELSE store

isServable(payload, mismatch) ==
    payload.cert # 0 /\ ~mismatch /\ age[payload.cert] # "expired"

needsRenewal(payload) == age[payload.cert] # "current"

\* resolveHpkeIdentity
resolveHpkeIdentity(stored, fails) ==
    IF stored = 0 THEN "generated" ELSE IF fails THEN "rejected" ELSE "store"

\* Mutant of MayPersistIdentity: any box re-seals what it booted with.
MayPersistIdentityAny(b, servable, ordering, hasKms) ==
    servable /\ ~ordering /\ hasKms

\* persistIdentity is set: nothing else will write the store this boot.
MayPersistIdentity(b, servable, ordering, hasKms) ==
    servable /\ ~ordering /\ hasKms /\ b = Authority

Writer(b, kind, cert, id) ==
    [box |-> b, kind |-> kind, cert |-> cert, id |-> id, at |-> "sealing"]

\* Mutant of AtBoot: an identity that is about to be written counts as written.
AtBootEarly(from, ordering, hasKms) == IF from = "rejected" THEN "no" ELSE "yes"

\* hpkeIdentityPersisted when start does not await the write itself.
AtBoot(from, ordering, hasKms) ==
    IF from = "store" THEN "yes"
    ELSE IF from = "generated" /\ ordering /\ hasKms THEN "unset" ELSE "no"

\* What start makes of the payload: the certificate is installed if servable, the
\* identity resolved and, if it is new and nothing else will write it, persisted
\* before the box listens.
Booted(b, hasKms, payload, servable, ordering, from) ==
    LET id     == IF from = "store" THEN payload.id ELSE ids + 1
        writes == from = "generated" /\ MayPersistIdentity(b, servable, ordering, hasKms)
    IN  /\ keyed' = [keyed EXCEPT ![b] = hasKms]
        /\ unsealed' = [unsealed EXCEPT ![b] = payload]
        /\ blind' = [blind EXCEPT ![b] = (store.cert # 0 /\ payload.cert = 0)]
        /\ served' = [served EXCEPT ![b] = IF servable THEN payload.cert ELSE 0]
        /\ order' = IF b # Authority THEN order ELSE IF ordering THEN "pending" ELSE "none"
        /\ source' = [source EXCEPT ![b] = from]
        /\ ident' = [ident EXCEPT ![b] = id]
        /\ ids' = IF from = "store" THEN ids ELSE ids + 1
        /\ \/ /\ writes
              /\ phase' = [phase EXCEPT ![b] = "persisting"]
              /\ writers' = writers \cup {Writer(b, "identity", payload.cert, id)}
              /\ UNCHANGED persisted
           \/ /\ ~writes
              /\ phase' = [phase EXCEPT ![b] = "up"]
              /\ persisted' = [persisted EXCEPT ![b] = AtBoot(from, ordering, hasKms)]
              /\ UNCHANGED writers

\* start: the store is opened once, and an order is decided on.
Boot(b) ==
    /\ phase[b] = "down" /\ boots < MaxBoots
    /\ boots' = boots + 1
    /\ \E unkeyed \in May("unkeyed"), unopened \in May("unopened"),
          mismatch \in May("mismatch"), import \in May("import") :
          LET payload  == loadCachedCertificate(~unkeyed, unopened)
              servable == isServable(payload, mismatch)
              ordering == /\ ~servable \/ needsRenewal(payload)
                          /\ b = Authority /\ mode = "alpn"
          IN  Booted(b, ~unkeyed, payload, servable, ordering,
                     resolveHpkeIdentity(payload.id, import))
    /\ UNCHANGED <<store, world, pendingRenewal, lastInstall, lastCsr, told, swallowed, keys>>

\* The enclave stops: it has no disk.
Crash(b) ==
    /\ phase[b] # "down"
    /\ phase' = [phase EXCEPT ![b] = "down"]
    /\ keyed' = [keyed EXCEPT ![b] = FALSE]
    /\ unsealed' = [unsealed EXCEPT ![b] = NoStore]
    /\ ident' = [ident EXCEPT ![b] = 0]
    /\ source' = [source EXCEPT ![b] = "none"]
    /\ persisted' = [persisted EXCEPT ![b] = "unset"]
    /\ served' = [served EXCEPT ![b] = 0]
    /\ blind' = [blind EXCEPT ![b] = FALSE]
    /\ writers' = {w \in writers : w.box # b}
    /\ \/ /\ b = Authority
          /\ order' = "none" /\ pendingRenewal' = NoRenewal
          /\ lastInstall' = 0 /\ lastCsr' = 0
       \/ b # Authority /\ UNCHANGED ci
    /\ UNCHANGED <<store, world, told, swallowed, keys, ids, boots>>

-----------------------------------------------------------------------------
(* A certificate arrives, at the authority.                                *)

\* Mutant of SealedIdentity: a rejected identity is replaced by the fresh one.
SealedIdentityFresh == ident[Authority]

\* The identity sealed with a certificate: a rejected one is carried on verbatim.
SealedIdentity ==
    IF source[Authority] = "rejected" THEN unsealed[Authority].id ELSE ident[Authority]

\* persistIssued, up to its first await: the certificate is served at once, here and
\* by the workers; without a store that is all.
persistIssued(kind, c) ==
    /\ served' = [served EXCEPT ![Authority] = c]
    /\ \/ /\ keyed[Authority]
          /\ writers' = writers \cup {Writer(Authority, kind, c, SealedIdentity)}
          /\ UNCHANGED told
       \/ /\ ~keyed[Authority]
          /\ told' = IF kind # "install" THEN told
                     ELSE told \cup {[cert |-> c, persisted |-> FALSE, repeated |-> FALSE]}
          /\ UNCHANGED writers

\* The in-enclave order of this boot comes to an end; the Fleet module has its steps.
OrderEnds ==
    /\ phase[Authority] = "up" /\ order = "pending"
    /\ order' = "over"
    /\ \/ keys < MaxKeys /\ keys' = keys + 1 /\ persistIssued("order", keys + 1)
       \/ UNCHANGED <<keys, served, writers, told>>
    /\ UNCHANGED <<store, world, box, persisted, pendingRenewal, lastInstall, lastCsr,
                   swallowed, ids, boots>>

CiServed == phase[Authority] = "up" /\ mode = "dns01-ci"

NewCsr(k) ==
    /\ lastCsr' = k
    /\ pendingRenewal' = [key |-> k, old |-> FALSE]

\* POST /acme/csr, beginRenewalCsr: an open CSR within its TTL is handed out again.
beginRenewalCsr ==
    /\ CiServed
    /\ \/ /\ pendingRenewal.key # 0 /\ ~pendingRenewal.old
          /\ lastCsr' = pendingRenewal.key
          /\ UNCHANGED <<pendingRenewal, keys>>
       \/ /\ pendingRenewal.key = 0 \/ pendingRenewal.old
          /\ keys < MaxKeys
          /\ keys' = keys + 1
          /\ NewCsr(keys + 1)
    /\ UNCHANGED <<store, world, box, persisted, served, order, lastInstall, writers,
                   told, swallowed, ids, boots>>

\* PENDING_RENEWAL_TTL_MS have passed.
PendingAges ==
    /\ pendingRenewal.key # 0 /\ ~pendingRenewal.old
    /\ pendingRenewal' = [pendingRenewal EXCEPT !.old = TRUE]
    /\ UNCHANGED <<store, world, box, persisted, served, order, lastInstall, lastCsr,
                   writers, told, swallowed, keys, ids, boots>>

\* External: CI gets the certificate of a CSR it was handed, whatever has become of
\* the process that made it.  The DNS records alone settle for 45 s, longer than the
\* 20 s of a seal and the 10 s of a save: none that was under way still is.
CiObtains ==
    /\ lastCsr \notin obtained \cup {0}
    /\ writers = {}
    /\ obtained' = obtained \cup {lastCsr}
    /\ UNCHANGED <<store, mode, age, box, persisted, served, ci, writers, told,
                   swallowed, keys, ids, boots>>

Consumed == NoRenewal

\* Mutant of Remember: the install is not remembered.
RememberNot(c) == UNCHANGED lastInstall

Remember(c) == lastInstall' = c

\* POST /acme/install, completeRenewal and primaryRpc: the certificate installed
\* last is answered from memory, one for the pending key is installed, any other
\* is refused and the pending key stays.
completeRenewal(c) ==
    /\ CiServed /\ c \in obtained
    /\ \/ /\ c = lastInstall
          /\ told' = told \cup {[cert |-> c, persisted |-> TRUE, repeated |-> TRUE]}
          /\ UNCHANGED <<pendingRenewal, lastInstall, served, writers>>
       \/ /\ c # lastInstall /\ c = pendingRenewal.key /\ age[c] # "expired"
          /\ pendingRenewal' = Consumed
          /\ Remember(c)
          /\ persistIssued("install", c)
    /\ UNCHANGED <<store, world, box, persisted, order, lastCsr, swallowed, keys, ids, boots>>

-----------------------------------------------------------------------------
(* Seal and save.                                                          *)

\* What follows a write that is over, saved as far as it knows: the flag on /health,
\* the answer to CI, and the boot that waited for it.
WriteOver(w, ok) ==
    /\ persisted' = [persisted EXCEPT ![w.box] =
                        IF w.kind = "identity" \/ source[w.box] = "generated"
                        THEN IF ok THEN "yes" ELSE "no"
                        ELSE @]
    /\ told' = IF w.kind # "install" THEN told
               ELSE told \cup {[cert |-> w.cert, persisted |-> ok, repeated |-> FALSE]}
    /\ phase' = [phase EXCEPT ![w.box] = "up"]

\* sealStore: a data key from KMS.
Sealed(w) ==
    /\ w \in writers /\ w.at = "sealing"
    /\ writers' = (writers \ {w}) \cup {[w EXCEPT !.at = "saving"]}
    /\ UNCHANGED <<store, world, box, persisted, served, ci, told, swallowed, keys, ids, boots>>

\* KMS refuses or times out: the boot goes on with an identity that will not last,
\* an order or an install ends in an error, the certificate being served already.
SealFails(w) ==
    /\ w \in writers /\ w.at = "sealing"
    /\ writers' = writers \ {w}
    /\ \/ /\ w.kind = "identity"
          /\ WriteOver(w, FALSE)
       \/ w.kind # "identity" /\ UNCHANGED <<persisted, told, phase>>
    /\ UNCHANGED <<store, world, keyed, unsealed, ident, source, blind, served, ci,
                   swallowed, keys, ids, boots>>

\* Mutant of Confirmed: the save is believed before the socket closes.
ConfirmedAlways(kept, swallow) == {TRUE}

\* What saveSealedBlob may resolve to: a timeout may hide a blob that was kept, a
\* host that swallows one closes the socket as if it had kept it.
Confirmed(kept, swallow) == IF kept THEN BOOLEAN ELSE {swallow}

\* saveSealedBlob: the host renames the whole blob into place, or keeps nothing.
Save(w) ==
    /\ w \in writers /\ w.at = "saving"
    /\ writers' = writers \ {w}
    /\ \E kept \in BOOLEAN, swallow \in May("swallow") : \E ok \in Confirmed(kept, swallow) :
          /\ store' = IF kept THEN [cert |-> w.cert, id |-> w.id] ELSE store
          /\ swallowed' = (swallowed \/ (swallow /\ ~kept))
          /\ WriteOver(w, ok)
    /\ UNCHANGED <<world, keyed, unsealed, ident, source, blind, served, ci, keys, ids, boots>>

\* Time: a certificate that exists enters its renewal window, then expires, after
\* the ones that were issued before it.
Ages(c) ==
    /\ c <= keys
    /\ age[c] # "expired"
    /\ \A d \in 1..(c - 1) : age[d] # age[c]
    /\ age' = [age EXCEPT ![c] = IF @ = "current" THEN "due" ELSE "expired"]
    /\ UNCHANGED <<store, mode, obtained, box, persisted, served, ci, writers, told,
                   swallowed, keys, ids, boots>>

-----------------------------------------------------------------------------
Write(w) == Sealed(w) \/ SealFails(w) \/ Save(w)

Next ==
    \/ OrderEnds \/ beginRenewalCsr \/ PendingAges \/ CiObtains
    \/ \E b \in Boxes : Boot(b) \/ Crash(b)
    \/ \E c \in 1..MaxKeys : completeRenewal(c) \/ Ages(c)
    \/ \E w \in writers : Write(w)

Spec == Init /\ [][Next]_vars

-----------------------------------------------------------------------------
(* Properties.                                                             *)

Cert     == 0..MaxKeys
Id       == 0..MaxBoots
Renewals == {NoRenewal} \cup [key : Cert \ {0}, old : BOOLEAN]
Writers  == [box : Boxes, kind : {"identity", "order", "install"}, cert : Cert, id : Id,
             at : {"sealing", "saving"}]

TypeOK ==
    /\ store \in [cert : Cert, id : Id]
    /\ age \in [1..MaxKeys -> {"current", "due", "expired"}]
    /\ mode \in {"alpn", "dns01-ci"}
    /\ phase \in [Boxes -> {"down", "persisting", "up"}]
    /\ keyed \in [Boxes -> BOOLEAN] /\ blind \in [Boxes -> BOOLEAN]
    /\ unsealed \in [Boxes -> [cert : Cert, id : Id]]
    /\ ident \in [Boxes -> Id]
    /\ source \in [Boxes -> {"none", "store", "generated", "rejected"}]
    /\ persisted \in [Boxes -> {"unset", "yes", "no"}]
    /\ served \in [Boxes -> Cert]
    /\ order \in {"none", "pending", "over"}
    /\ pendingRenewal \in Renewals
    /\ lastInstall \in Cert /\ lastCsr \in Cert
    /\ writers \subseteq Writers
    /\ obtained \subseteq Cert
    /\ told \subseteq [cert : Cert, persisted : BOOLEAN, repeated : BOOLEAN]
    /\ swallowed \in BOOLEAN
    /\ keys \in Cert /\ ids \in Id /\ boots \in 0..MaxBoots

\* hpkeIdentity.mjs: writing a fresh key over a stored one would be "a silent
\* fleet-wide key rotation".  No renewal, order, restart or rejected import replaces
\* the identity in the store, except from a boot that did not open the blob it had.
IdentityKept ==
    [][store.id # 0 /\ store'.id # store.id => blind[Authority]]_vars

\* The store never goes back to an older certificate, by whichever box or write
\* comes last ("a fleet box re-sealing an older payload would publish it to S3 over
\* the authority's newer one", server.mjs), and no running box to an older one than
\* it serves.
NeverOlder ==
    [][/\ store'.cert >= store.cert
       /\ \A b \in Boxes : phase[b] # "down" /\ phase'[b] # "down" => served'[b] >= served[b]]_vars

\* hpke_identity_persisted on the authority's /health is believed by the drift check:
\* when it says so, the next boot will find this identity in the store, unless the
\* host swallowed a save.
PersistedMeansStored ==
    persisted[Authority] = "yes" => store.id = ident[Authority] \/ swallowed

\* The first answer to an install says persisted only if every later boot finds that
\* certificate, or a newer one, in the store.
FirstAnswerHonest ==
    \A t \in told : t.persisted /\ ~t.repeated => store.cert >= t.cert \/ swallowed

\* acmeRunner.mjs: a second CSR request must not replace the key "underneath a CI job",
\* and a job "that lost the reply can retry safely".  The key of the CSR handed out
\* last is pending or installed last, whatever CI jobs do in between.
LastCsrInstallable == lastCsr # 0 => lastCsr \in {pendingRenewal.key, lastInstall}
=============================================================================
