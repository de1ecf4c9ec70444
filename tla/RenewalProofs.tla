--------------------------- MODULE RenewalProofs ---------------------------
(***************************************************************************)
(* What the Renewal module promises, for any fleet, any number of boots    *)
(* and certificates, and every fault.  The properties rest on three facts  *)
(* that none of them states: there is never more than one write under way, *)
(* it carries the identity the store already has, and the key of an open   *)
(* CSR is newer than everything stored, served or being written.           *)
(***************************************************************************)
EXTENDS Renewal, TLAPS

\* Keys are numbered in the order they are made, and an open CSR has the newest.
KeysInv ==
    /\ store.cert <= keys
    /\ store.cert = 0 => store.id = 0
    /\ \A b \in Boxes : served[b] <= keys
    /\ obtained \subseteq 1..keys
    /\ lastCsr <= keys /\ ids <= boots
    /\ lastCsr # 0 =>
          lastCsr = IF pendingRenewal.key # 0 THEN pendingRenewal.key ELSE lastInstall
    /\ pendingRenewal.key # 0 =>
          /\ mode = "dns01-ci"
          /\ pendingRenewal.key <= keys
          /\ pendingRenewal.key > store.cert
          /\ pendingRenewal.key > served[Authority]
          /\ \A w \in writers : pendingRenewal.key > w.cert

\* One write at a time, the authority's, of a certificate no older than the store's.
WritersInv ==
    /\ \A w, x \in writers : w = x
    /\ \A w \in writers :
          /\ w.box = Authority
          /\ w.id = SealedIdentity
          /\ w.cert # 0 /\ w.cert <= keys /\ w.cert >= store.cert
          /\ w.kind = "identity" => source[Authority] = "generated"
    /\ writers # {} => pendingRenewal.key \notin obtained
    /\ order = "pending" => writers = {} /\ mode = "alpn"

\* A process that is down holds nothing.
DownInv ==
    phase[Authority] = "down" =>
        /\ pendingRenewal = NoRenewal /\ lastInstall = 0 /\ lastCsr = 0
        /\ order = "none" /\ writers = {}
        /\ persisted[Authority] = "unset"

\* The identity in the store is the one this process would seal.
IdentityInv ==
    /\ phase[Authority] # "down" /\ ~blind[Authority] /\ store.id # 0 =>
          store.id = SealedIdentity
    /\ persisted[Authority] = "yes" => source[Authority] \in {"store", "generated"}
    /\ PersistedMeansStored

IInv == TypeOK /\ KeysInv /\ WritersInv /\ DownInv /\ IdentityInv /\ FirstAnswerHonest

-----------------------------------------------------------------------------
\* The numbers the invariant compares are numbers.
LEMMA Numbers ==
    ASSUME TypeOK
    PROVE  /\ store.cert \in Nat /\ store.id \in Nat /\ keys \in Nat
           /\ keys <= MaxKeys /\ ids \in Nat /\ boots \in Nat /\ boots <= MaxBoots
           /\ pendingRenewal.key \in 0..MaxKeys
           /\ lastCsr \in 0..MaxKeys /\ lastInstall \in 0..MaxKeys
           /\ \A b \in Boxes : served[b] \in Nat /\ ident[b] \in Nat
           /\ \A w \in writers : w.cert \in Nat /\ w.id \in Nat /\ w.box \in Boxes
BY RenewalAssumption DEF TypeOK, Cert, Id, Writers, Renewals, NoRenewal

\* The records the actions build have their types.
LEMMA Records ==
    /\ \A k \in Cert \ {0} : [key |-> k, old |-> FALSE] \in Renewals
    /\ \A c \in Cert, p, r \in BOOLEAN :
          [cert |-> c, persisted |-> p, repeated |-> r] \in
              [cert : Cert, persisted : BOOLEAN, repeated : BOOLEAN]
BY Zenon DEF Renewals

LEMMA InitIInv == Init => IInv
<1> SUFFICES ASSUME Init PROVE IInv
    OBVIOUS
<1> USE RenewalAssumption
<1>1. store \in [cert : Cert, id : Id] /\ keys \in Cert /\ store.cert <= keys /\ store.id = 0
    BY DEF Init, NoStore, Cert, Id
<1>2. TypeOK
    <2>1. pendingRenewal \in Renewals
        BY DEF Init, Renewals
    <2>2. 0 \in Cert /\ 0 \in Id /\ 0 \in 0..MaxBoots
        BY DEF Cert, Id
    <2>3. unsealed \in [Boxes -> [cert : Cert, id : Id]]
        BY <2>2 DEF Init, NoStore
    <2> QED
        BY <1>1, <2>1, <2>2, <2>3 DEF Init, TypeOK
<1>3. KeysInv
    BY <1>1, <1>2, Numbers DEF Init, KeysInv, NoRenewal
<1>4. WritersInv /\ DownInv /\ IdentityInv /\ FirstAnswerHonest
    BY DEF Init, WritersInv, DownInv, IdentityInv, FirstAnswerHonest, PersistedMeansStored
<1> QED
    BY <1>2, <1>3, <1>4 DEF IInv

\* A CSR is handed out, again or over a fresh key.
LEMMA CsrIInv == IInv /\ beginRenewalCsr => IInv'
<1> SUFFICES ASSUME IInv, beginRenewalCsr PROVE IInv'
    OBVIOUS
<1> USE RenewalAssumption, Numbers DEF IInv
<1>u. UNCHANGED <<store, mode, age, obtained, phase, keyed, unsealed, ident, source, blind,
                  persisted, served, order, lastInstall, writers, told, swallowed, ids, boots>>
    BY DEF beginRenewalCsr, world, box
<1>k. \/ pendingRenewal.key # 0 /\ lastCsr' = pendingRenewal.key /\ UNCHANGED <<pendingRenewal, keys>>
      \/ /\ keys < MaxKeys /\ keys' = keys + 1 /\ lastCsr' = keys + 1
         /\ pendingRenewal' = [key |-> keys + 1, old |-> FALSE]
    BY DEF beginRenewalCsr, NewCsr
<1>m. phase[Authority] = "up" /\ mode = "dns01-ci"
    BY DEF beginRenewalCsr, CiServed
<1>1. TypeOK'
    <2>1. pendingRenewal' \in Renewals
        <3>1. keys < MaxKeys => keys + 1 \in Cert \ {0}
            BY DEF Cert
        <3>2. pendingRenewal \in Renewals
            BY DEF TypeOK
        <3> QED
            BY <1>k, <3>1, <3>2, Records
    <2>2. keys' \in Cert /\ lastCsr' \in Cert
        BY <1>k DEF TypeOK, Cert
    <2> QED
        BY <1>u, <2>1, <2>2 DEF TypeOK
<1>2. KeysInv'
    <2>1. CASE UNCHANGED <<pendingRenewal, keys>> /\ lastCsr' = pendingRenewal.key /\ pendingRenewal.key # 0
        BY <1>u, <1>m, <2>1 DEF KeysInv
    <2>2. CASE keys' = keys + 1 /\ lastCsr' = keys + 1 /\ pendingRenewal' = [key |-> keys + 1, old |-> FALSE]
        BY <1>u, <1>m, <2>2 DEF KeysInv, WritersInv
    <2> QED
        BY <1>k, <2>1, <2>2
<1>3. WritersInv'
    <2>1. obtained \subseteq 1..keys
        BY DEF KeysInv
    <2>2. writers # {} => pendingRenewal'.key \notin obtained
        BY <1>k, <2>1 DEF WritersInv
    <2>3. SealedIdentity' = SealedIdentity
        BY <1>u DEF SealedIdentity
    <2> QED
        BY <1>u, <1>k, <2>2, <2>3 DEF WritersInv
<1>4. DownInv' /\ IdentityInv' /\ FirstAnswerHonest'
    BY <1>u, <1>m DEF DownInv, IdentityInv, FirstAnswerHonest, PersistedMeansStored, SealedIdentity
<1> QED
    BY <1>1, <1>2, <1>3, <1>4

\* Time passes, CI gets its certificate.
LEMMA WaitingIInv ==
    ASSUME IInv, PendingAges \/ CiObtains \/ \E c \in 1..MaxKeys : Ages(c)
    PROVE  IInv'
<1> USE RenewalAssumption, Numbers DEF IInv
<1>1. CASE PendingAges
    <2>1. pendingRenewal.key # 0 /\ pendingRenewal \in [key : Cert \ {0}, old : BOOLEAN]
        BY <1>1 DEF PendingAges, TypeOK, Renewals, NoRenewal
    <2>2. pendingRenewal' = [key |-> pendingRenewal.key, old |-> TRUE]
        BY <1>1, <2>1 DEF PendingAges
    <2>3. pendingRenewal' \in Renewals /\ pendingRenewal'.key = pendingRenewal.key
        BY <2>1, <2>2 DEF Renewals
    <2>4. phase[Authority] # "down"
        BY <2>1 DEF DownInv, NoRenewal
    <2> QED
        BY <1>1, <2>3, <2>4 DEF PendingAges, world, box, TypeOK, KeysInv, WritersInv, DownInv, IdentityInv,
            FirstAnswerHonest, PersistedMeansStored, SealedIdentity, Cert
<1>2. CASE CiObtains
    BY <1>2 DEF CiObtains, ci, box, TypeOK, KeysInv, WritersInv, DownInv, IdentityInv,
        FirstAnswerHonest, PersistedMeansStored, SealedIdentity, Cert
<1>3. ASSUME NEW c \in 1..MaxKeys, Ages(c) PROVE IInv'
    BY <1>3 DEF Ages, ci, box, TypeOK, KeysInv, WritersInv, DownInv, IdentityInv,
        FirstAnswerHonest, PersistedMeansStored, SealedIdentity, Cert
<1> QED
    BY <1>1, <1>2, <1>3

\* A certificate is installed: the one write there is begins here.
LEMMA IssuedIInv ==
    ASSUME IInv, NEW c \in 1..MaxKeys, NEW kind \in {"order", "install"},
           persistIssued(kind, c), writers = {}, phase[Authority] = "up",
           c > store.cert, c > served[Authority], c <= keys',
           keys' \in Cert, keys' >= keys, order' \in {"none", "over"},
           lastCsr' = lastCsr, lastInstall' \in Cert,
           pendingRenewal' = NoRenewal,
           lastCsr # 0 => lastCsr = lastInstall',
           UNCHANGED <<store, mode, age, obtained, phase, keyed, unsealed, ident, source, blind,
                       persisted, swallowed, ids, boots>>
    PROVE  IInv'
<1> USE RenewalAssumption, Numbers DEF IInv
<1> DEFINE wr == Writer(Authority, kind, c, SealedIdentity)
<1>0. served' = [served EXCEPT ![Authority] = c] /\ c \in Cert
    BY DEF persistIssued, Cert
<1>1. \/ writers' = {wr} /\ told' = told
      \/ /\ writers' = {}
         /\ \A t \in told' : t \in told \/ ~t.persisted
    BY DEF persistIssued
<1>2. SealedIdentity \in Id
    BY DEF TypeOK, SealedIdentity
<1>3. wr \in Writers /\ wr.box = Authority /\ wr.id = SealedIdentity /\ wr.cert = c /\ wr.kind = kind
    BY <1>0, <1>2 DEF Writer, Writers
<1>4. told' \subseteq [cert : Cert, persisted : BOOLEAN, repeated : BOOLEAN]
    <2>1. [cert |-> c, persisted |-> FALSE, repeated |-> FALSE] \in
              [cert : Cert, persisted : BOOLEAN, repeated : BOOLEAN]
        BY <1>0, Records
    <2>2. \/ told' = told
          \/ told' = told \cup {[cert |-> c, persisted |-> FALSE, repeated |-> FALSE]}
        BY DEF persistIssued
    <2>3. told \subseteq [cert : Cert, persisted : BOOLEAN, repeated : BOOLEAN]
        BY DEF TypeOK
    <2> QED
        BY <2>1, <2>2, <2>3, Zenon
<1>5. TypeOK'
    <2>1. served' \in [Boxes -> Cert]
        BY <1>0 DEF TypeOK
    <2>2. writers' \subseteq Writers
        BY <1>1, <1>3
    <2>3. pendingRenewal' \in Renewals
        BY DEF Renewals
    <2> QED
        BY <1>4, <2>1, <2>2, <2>3 DEF TypeOK
<1>6. SealedIdentity' = SealedIdentity
    BY DEF SealedIdentity
<1>7. KeysInv'
    <2>1. \A b \in Boxes : served'[b] <= keys'
        BY <1>0 DEF TypeOK, KeysInv, Cert
    <2>2. obtained \subseteq 1..keys'
        BY DEF KeysInv, Cert
    <2> QED
        BY <2>1, <2>2 DEF KeysInv, NoRenewal, Cert
<1>8. WritersInv'
    <2>1. 0 \notin obtained
        BY DEF KeysInv
    <2> QED
        BY <1>1, <1>3, <1>6, <2>1 DEF WritersInv, NoRenewal
<1>9. DownInv' /\ IdentityInv' /\ FirstAnswerHonest'
    BY <1>1, <1>6 DEF DownInv, IdentityInv, FirstAnswerHonest, PersistedMeansStored
<1> QED
    BY <1>5, <1>7, <1>8, <1>9

LEMMA OrderIInv == IInv /\ OrderEnds => IInv'
<1> SUFFICES ASSUME IInv, OrderEnds PROVE IInv'
    OBVIOUS
<1> USE RenewalAssumption, Numbers DEF IInv
<1>1. writers = {} /\ mode = "alpn" /\ phase[Authority] = "up" /\ order' = "over"
    BY DEF OrderEnds, WritersInv
<1>2. pendingRenewal.key = 0
    BY <1>1 DEF KeysInv
<1>3. pendingRenewal = NoRenewal
    BY <1>2 DEF TypeOK, Renewals
<1>4. UNCHANGED <<store, mode, age, obtained, phase, keyed, unsealed, ident, source, blind,
                  persisted, pendingRenewal, lastInstall, lastCsr, swallowed, ids, boots>>
    BY DEF OrderEnds, world, box
<1>5. CASE keys < MaxKeys /\ keys' = keys + 1 /\ persistIssued("order", keys + 1)
    <2>1. keys + 1 \in 1..MaxKeys /\ keys + 1 > store.cert /\ keys + 1 > served[Authority]
        BY <1>5 DEF KeysInv
    <2>2. keys' \in Cert /\ keys' >= keys
        BY <1>5 DEF Cert
    <2>3. lastCsr # 0 => lastCsr = lastInstall'
        BY <1>2, <1>4 DEF KeysInv
    <2>4. lastInstall' \in Cert
        BY <1>4 DEF TypeOK
    <2> QED
        BY <1>1, <1>3, <1>4, <1>5, <2>1, <2>2, <2>3, <2>4, IssuedIInv
<1>6. CASE UNCHANGED <<keys, served, writers, told>>
    BY <1>1, <1>4, <1>6 DEF TypeOK, KeysInv, WritersInv, DownInv, IdentityInv,
        FirstAnswerHonest, PersistedMeansStored, SealedIdentity
<1> QED
    BY <1>5, <1>6 DEF OrderEnds

LEMMA InstallIInv == ASSUME IInv, NEW c \in 1..MaxKeys, completeRenewal(c) PROVE IInv'
<1> USE RenewalAssumption, Numbers DEF IInv
<1>1. /\ phase[Authority] = "up" /\ mode = "dns01-ci" /\ c \in obtained
      /\ UNCHANGED <<store, mode, age, obtained, phase, keyed, unsealed, ident, source, blind,
                     persisted, order, lastCsr, swallowed, keys, ids, boots>>
    BY DEF completeRenewal, CiServed, world, box
<1>2. CASE /\ told' = told \cup {[cert |-> c, persisted |-> TRUE, repeated |-> TRUE]}
           /\ UNCHANGED <<pendingRenewal, lastInstall, served, writers>>
    <2>1. told' \subseteq [cert : Cert, persisted : BOOLEAN, repeated : BOOLEAN]
        <3>1. [cert |-> c, persisted |-> TRUE, repeated |-> TRUE] \in
                  [cert : Cert, persisted : BOOLEAN, repeated : BOOLEAN]
            BY Records DEF Cert
        <3> QED
            BY <1>2, <3>1 DEF TypeOK
    <2>2. TypeOK'
        BY <1>1, <1>2, <2>1 DEF TypeOK
    <2>3. KeysInv' /\ WritersInv' /\ DownInv' /\ IdentityInv'
        BY <1>1, <1>2 DEF KeysInv, WritersInv, DownInv, IdentityInv, PersistedMeansStored, SealedIdentity
    <2>4. FirstAnswerHonest'
        BY <1>1, <1>2 DEF FirstAnswerHonest
    <2> QED
        BY <2>2, <2>3, <2>4
<1>3. CASE /\ c = pendingRenewal.key /\ pendingRenewal' = Consumed /\ Remember(c)
           /\ persistIssued("install", c)
    <2>1. c # 0 /\ c > store.cert /\ c > served[Authority] /\ c <= keys' /\ keys' \in Cert
        BY <1>1, <1>3 DEF KeysInv, TypeOK
    <2>2. writers = {}
        BY <1>1, <1>3 DEF WritersInv
    <2>3. lastInstall' = c /\ c \in Cert /\ pendingRenewal' = NoRenewal
        BY <1>3 DEF Remember, Consumed, Cert
    <2>4. lastCsr # 0 => lastCsr = lastInstall'
        BY <1>3, <2>1, <2>3 DEF KeysInv
    <2>5. order' \in {"none", "over"} /\ keys' >= keys
        BY <1>1 DEF WritersInv, TypeOK
    <2> QED
        BY <1>1, <1>3, <2>1, <2>2, <2>3, <2>4, <2>5, IssuedIInv
<1> QED
    BY <1>2, <1>3 DEF completeRenewal

-----------------------------------------------------------------------------
(* Seal and save.                                                          *)

LEMMA SealedIInv == ASSUME IInv, NEW w \in writers, Sealed(w) PROVE IInv'
<1> USE RenewalAssumption, Numbers DEF IInv
<1> DEFINE x == [w EXCEPT !.at = "saving"]
<1>1. writers = {w}
    BY DEF WritersInv
<1>2. writers' = {x}
    BY <1>1 DEF Sealed
<1>3. x \in Writers /\ x.box = w.box /\ x.kind = w.kind /\ x.cert = w.cert /\ x.id = w.id
    <2>1. w \in Writers
        BY DEF TypeOK
    <2> QED
        BY <2>1 DEF Writers
<1>4. UNCHANGED <<store, mode, age, obtained, phase, keyed, unsealed, ident, source, blind,
                  persisted, served, order, pendingRenewal, lastInstall, lastCsr, told,
                  swallowed, keys, ids, boots>>
    BY DEF Sealed, world, box, ci
<1>5. TypeOK'
    BY <1>2, <1>3, <1>4 DEF TypeOK
<1>6. KeysInv'
    BY <1>1, <1>2, <1>3, <1>4 DEF KeysInv
<1>7. SealedIdentity' = SealedIdentity
    BY <1>4 DEF SealedIdentity
<1>8. WritersInv'
    BY <1>1, <1>2, <1>3, <1>4, <1>7 DEF WritersInv
<1>9. DownInv' /\ IdentityInv' /\ FirstAnswerHonest'
    BY <1>1, <1>4, <1>7 DEF DownInv, IdentityInv, FirstAnswerHonest, PersistedMeansStored
<1> QED
    BY <1>5, <1>6, <1>8, <1>9

\* The end of a write, kept by the host or not, believed or not: what is believed was
\* kept, or the host swallowed it.
LEMMA OverIInv ==
    ASSUME IInv, NEW w \in writers, NEW ok \in BOOLEAN, WriteOver(w, ok),
           writers' = writers \ {w},
           store' \in {store, [cert |-> w.cert, id |-> w.id]},
           ok => store' = [cert |-> w.cert, id |-> w.id] \/ swallowed',
           swallowed' \in BOOLEAN, swallowed => swallowed',
           UNCHANGED <<mode, age, obtained, keyed, unsealed, ident, source, blind, served,
                       order, pendingRenewal, lastInstall, lastCsr, keys, ids, boots>>
    PROVE  IInv'
<1> USE RenewalAssumption, Numbers DEF IInv
<1>1. writers = {w} /\ writers' = {}
    BY DEF WritersInv
<1>2. /\ w \in Writers /\ w.box = Authority /\ w.id = SealedIdentity
      /\ w.cert # 0 /\ w.cert <= keys /\ w.cert >= store.cert
      /\ w.kind = "identity" => source[Authority] = "generated"
      /\ phase[Authority] # "down"
      /\ order # "pending"
    BY <1>1 DEF WritersInv, TypeOK, DownInv
<1>3. w.cert \in Cert /\ w.id \in Id
    BY <1>2 DEF Writers
<1>4. store' \in [cert : Cert, id : Id] /\ store'.cert >= store.cert /\ store'.cert <= keys
    BY <1>2, <1>3 DEF TypeOK, KeysInv
<1>5. /\ phase' = [phase EXCEPT ![Authority] = "up"]
      /\ persisted' = [persisted EXCEPT ![Authority] =
                          IF w.kind = "identity" \/ source[Authority] = "generated"
                          THEN IF ok THEN "yes" ELSE "no"
                          ELSE @]
    BY <1>2 DEF WriteOver
<1>6. phase'[Authority] = "up"
    BY <1>5 DEF TypeOK
<1>7. \/ told' = told
      \/ told' = told \cup {[cert |-> w.cert, persisted |-> ok, repeated |-> FALSE]}
    BY DEF WriteOver
<1>8. TypeOK'
    <2>1. told' \subseteq [cert : Cert, persisted : BOOLEAN, repeated : BOOLEAN]
        <3>1. [cert |-> w.cert, persisted |-> ok, repeated |-> FALSE] \in
                  [cert : Cert, persisted : BOOLEAN, repeated : BOOLEAN]
            BY <1>3, Records
        <3>2. told \subseteq [cert : Cert, persisted : BOOLEAN, repeated : BOOLEAN]
            BY DEF TypeOK
        <3> QED
            BY <1>7, <3>1, <3>2, Zenon
    <2>2. phase' \in [Boxes -> {"down", "persisting", "up"}]
        BY <1>5 DEF TypeOK
    <2>3. persisted' \in [Boxes -> {"unset", "yes", "no"}]
        BY <1>5 DEF TypeOK
    <2> QED
        BY <1>1, <1>4, <2>1, <2>2, <2>3 DEF TypeOK
<1>9. SealedIdentity' = SealedIdentity
    BY DEF SealedIdentity
<1>10. KeysInv'
    <2>1. pendingRenewal.key # 0 => pendingRenewal.key > w.cert
        BY DEF KeysInv
    <2>2. store'.cert = 0 => store'.id = 0
        BY <1>2 DEF KeysInv
    <2>3. store'.cert \in {store.cert, w.cert}
        OBVIOUS
    <2> QED
        BY <1>1, <1>4, <2>1, <2>2, <2>3 DEF KeysInv
<1>11. WritersInv' /\ DownInv'
    BY <1>1, <1>2, <1>6 DEF WritersInv, DownInv
<1>12. IdentityInv'
    <2>1. store'.id \in {store.id, SealedIdentity}
        BY <1>2
    <2>2. ~blind[Authority] /\ store'.id # 0 => store'.id = SealedIdentity
        BY <1>2, <2>1 DEF IdentityInv
    <2>3. CASE source[Authority] = "generated"
        <3>1. SealedIdentity = ident[Authority]
            BY <2>3 DEF SealedIdentity
        <3>2. persisted'[Authority] = "yes" => ok
            BY <1>5, <2>3 DEF TypeOK
        <3> QED
            BY <1>2, <1>9, <2>2, <2>3, <3>1, <3>2 DEF IdentityInv, PersistedMeansStored
    <2>4. CASE source[Authority] # "generated"
        <3>1. persisted'[Authority] = persisted[Authority]
            BY <1>2, <1>5, <2>4 DEF TypeOK
        <3>2. persisted[Authority] = "yes" => SealedIdentity = ident[Authority]
            BY <2>4 DEF IdentityInv, SealedIdentity
        <3> QED
            BY <1>9, <2>1, <2>2, <2>4, <3>1, <3>2 DEF IdentityInv, PersistedMeansStored
    <2> QED
        BY <2>3, <2>4
<1>13. FirstAnswerHonest'
    <2> SUFFICES ASSUME NEW t \in told', t.persisted, ~t.repeated
                 PROVE  store'.cert >= t.cert \/ swallowed'
        BY DEF FirstAnswerHonest
    <2>1. CASE t \in told
        <3>1. t.cert \in Nat
            BY <2>1 DEF TypeOK, Cert
        <3> QED
            BY <1>4, <2>1, <3>1 DEF FirstAnswerHonest
    <2>2. CASE t = [cert |-> w.cert, persisted |-> ok, repeated |-> FALSE]
        BY <2>2, <1>3 DEF Cert
    <2> QED
        BY <1>7, <2>1, <2>2
<1> QED
    BY <1>8, <1>10, <1>11, <1>12, <1>13

LEMMA WriteIInv == ASSUME IInv, NEW w \in writers, Write(w) PROVE IInv'
<1> USE RenewalAssumption, Numbers DEF IInv
<1>1. CASE Sealed(w)
    BY <1>1, SealedIInv
<1>2. CASE SealFails(w)
    <2>0. /\ writers' = writers \ {w}
          /\ UNCHANGED <<store, mode, age, obtained, keyed, unsealed, ident, source, blind, served,
                         order, pendingRenewal, lastInstall, lastCsr, swallowed, keys, ids, boots>>
        BY <1>2 DEF SealFails, world, ci
    <2>1. CASE WriteOver(w, FALSE)
        <3>1. swallowed' \in BOOLEAN
            BY <2>0 DEF TypeOK
        <3> QED
            BY <2>0, <2>1, <3>1, OverIInv
    <2>2. CASE UNCHANGED <<persisted, told, phase>>
        <3>1. writers' = {}
            BY <2>0 DEF WritersInv
        <3>2. TypeOK' /\ KeysInv'
            BY <2>0, <2>2, <3>1 DEF TypeOK, KeysInv
        <3>3. WritersInv' /\ DownInv' /\ IdentityInv' /\ FirstAnswerHonest'
            BY <2>0, <2>2, <3>1 DEF WritersInv, DownInv, IdentityInv, FirstAnswerHonest,
                PersistedMeansStored, SealedIdentity
        <3> QED
            BY <3>2, <3>3
    <2> QED
        BY <1>2, <2>1, <2>2 DEF SealFails
<1>3. CASE Save(w)
    <2>0. /\ writers' = writers \ {w}
          /\ UNCHANGED <<mode, age, obtained, keyed, unsealed, ident, source, blind, served,
                         order, pendingRenewal, lastInstall, lastCsr, keys, ids, boots>>
        BY <1>3 DEF Save, world, ci
    <2>1. PICK kept \in BOOLEAN, swallow \in May("swallow") : \E ok \in Confirmed(kept, swallow) :
              /\ store' = IF kept THEN [cert |-> w.cert, id |-> w.id] ELSE store
              /\ swallowed' = (swallowed \/ (swallow /\ ~kept))
              /\ WriteOver(w, ok)
        BY <1>3 DEF Save
    <2>2. PICK ok \in Confirmed(kept, swallow) :
              /\ store' = IF kept THEN [cert |-> w.cert, id |-> w.id] ELSE store
              /\ swallowed' = (swallowed \/ (swallow /\ ~kept))
              /\ WriteOver(w, ok)
        BY <2>1
    <2>3. swallow \in BOOLEAN
        BY DEF May
    <2>4. ok \in BOOLEAN /\ (ok => kept \/ swallow)
        BY <2>3, Zenon DEF Confirmed
    <2>5. swallowed \in BOOLEAN
        BY DEF TypeOK
    <2>6. swallowed' \in BOOLEAN /\ (swallowed => swallowed') /\ (ok => kept \/ swallowed')
        BY <2>2, <2>3, <2>4, <2>5, Zenon
    <2>7. store' \in {store, [cert |-> w.cert, id |-> w.id]}
        BY <2>2
    <2>8. kept => store' = [cert |-> w.cert, id |-> w.id]
        BY <2>2
    <2> QED
        BY <2>0, <2>2, <2>4, <2>6, <2>7, <2>8, OverIInv
<1> QED
    BY <1>1, <1>2, <1>3 DEF Write

-----------------------------------------------------------------------------
(* Restarts.                                                               *)

LEMMA CrashIInv == ASSUME IInv, NEW b \in Boxes, Crash(b) PROVE IInv'
<1> USE RenewalAssumption, Numbers DEF IInv
<1>u. UNCHANGED <<store, mode, age, obtained, told, swallowed, keys, ids, boots>>
    BY DEF Crash, world
<1>1. CASE b = Authority
    <2>1. writers' = {}
        BY <1>1 DEF Crash, WritersInv
    <2>2. /\ phase' = [phase EXCEPT ![b] = "down"]
          /\ served' = [served EXCEPT ![b] = 0]
          /\ persisted' = [persisted EXCEPT ![b] = "unset"]
          /\ order' = "none" /\ pendingRenewal' = NoRenewal /\ lastInstall' = 0 /\ lastCsr' = 0
        BY <1>1 DEF Crash
    <2>3. 0 \in Cert /\ 0 \in Id /\ NoRenewal \in Renewals /\ NoStore \in [cert : Cert, id : Id]
        BY DEF Cert, Id, Renewals, NoStore
    <2>4. TypeOK'
        BY <1>u, <2>1, <2>2, <2>3 DEF Crash, TypeOK
    <2>5. KeysInv'
        BY <1>u, <2>1, <2>2 DEF KeysInv, TypeOK, NoRenewal
    <2>6. phase'[Authority] = "down" /\ persisted'[Authority] = "unset"
        BY <1>1, <2>2 DEF TypeOK
    <2>7. WritersInv' /\ DownInv' /\ IdentityInv' /\ FirstAnswerHonest'
        BY <1>u, <2>1, <2>2, <2>6 DEF WritersInv, DownInv, IdentityInv, FirstAnswerHonest,
            PersistedMeansStored
    <2> QED
        BY <2>4, <2>5, <2>7
<1>2. CASE b # Authority
    <2>1. writers' = writers
        BY <1>2 DEF Crash, WritersInv
    <2>2. /\ phase' = [phase EXCEPT ![b] = "down"]
          /\ served' = [served EXCEPT ![b] = 0]
          /\ UNCHANGED <<order, pendingRenewal, lastInstall, lastCsr>>
        BY <1>2 DEF Crash, ci
    <2>3. 0 \in Cert /\ 0 \in Id /\ NoStore \in [cert : Cert, id : Id]
        BY DEF Cert, Id, NoStore
    <2>4. TypeOK'
        BY <1>u, <2>1, <2>2, <2>3 DEF Crash, TypeOK
    <2>5. /\ phase'[Authority] = phase[Authority] /\ persisted'[Authority] = persisted[Authority]
          /\ blind'[Authority] = blind[Authority] /\ source'[Authority] = source[Authority]
          /\ ident'[Authority] = ident[Authority] /\ unsealed'[Authority] = unsealed[Authority]
          /\ served'[Authority] = served[Authority]
        BY <1>2 DEF Crash, TypeOK
    <2>6. SealedIdentity' = SealedIdentity
        BY <2>5 DEF SealedIdentity
    <2>7. \A a \in Boxes : served'[a] <= keys
        BY <2>2 DEF KeysInv, TypeOK
    <2>8. KeysInv'
        BY <1>u, <2>1, <2>2, <2>5, <2>7 DEF KeysInv
    <2>9. WritersInv' /\ DownInv' /\ IdentityInv' /\ FirstAnswerHonest'
        BY <1>u, <2>1, <2>2, <2>5, <2>6 DEF WritersInv, DownInv, IdentityInv, FirstAnswerHonest,
            PersistedMeansStored
    <2> QED
        BY <2>4, <2>8, <2>9
<1> QED
    BY <1>1, <1>2

\* What a boot starts from: the store or nothing, a certificate only if it is there,
\* an order only at an authority that makes its own.
LEMMA BootFrom ==
    ASSUME NEW b \in Boxes, Boot(b)
    PROVE  \E hasKms \in BOOLEAN, payload \in {NoStore, store}, servable \in BOOLEAN,
              ordering \in BOOLEAN, from \in {"generated", "rejected", "store"} :
              /\ Booted(b, hasKms, payload, servable, ordering, from)
              /\ servable => payload.cert # 0
              /\ ordering => mode = "alpn"
              /\ from = "generated" <=> payload.id = 0
<1>1. PICK unkeyed \in May("unkeyed"), unopened \in May("unopened"),
           mismatch \in May("mismatch"), import \in May("import") :
           LET payload  == loadCachedCertificate(~unkeyed, unopened)
               servable == isServable(payload, mismatch)
               ordering == /\ ~servable \/ needsRenewal(payload)
                           /\ b = Authority /\ mode = "alpn"
           IN  Booted(b, ~unkeyed, payload, servable, ordering,
                      resolveHpkeIdentity(payload.id, import))
    BY Zenon DEF Boot
<1> DEFINE payload  == loadCachedCertificate(~unkeyed, unopened)
           servable == isServable(payload, mismatch)
           ordering == /\ ~servable \/ needsRenewal(payload)
                       /\ b = Authority /\ mode = "alpn"
           from     == resolveHpkeIdentity(payload.id, import)
<1>2. Booted(b, ~unkeyed, payload, servable, ordering, from)
    BY <1>1
<1>3. payload \in {NoStore, store}
    BY DEF loadCachedCertificate
<1>4. servable \in BOOLEAN /\ (servable => payload.cert # 0)
    BY Zenon DEF isServable
<1>5. ordering \in BOOLEAN /\ (ordering => mode = "alpn")
    BY <1>4
<1>6. /\ from \in {"generated", "rejected", "store"}
      /\ from = "generated" <=> payload.id = 0
    BY DEF resolveHpkeIdentity
<1>7. (~unkeyed) \in BOOLEAN
    BY Zenon
<1> HIDE DEF payload, servable, ordering, from
<1> QED
    BY <1>2, <1>3, <1>4, <1>5, <1>6, <1>7, Zenon

LEMMA BootIInv == ASSUME IInv, NEW b \in Boxes, Boot(b) PROVE IInv'
<1> USE RenewalAssumption, Numbers DEF IInv
<1>u. /\ UNCHANGED <<store, mode, age, obtained, pendingRenewal, lastInstall, lastCsr, told,
                     swallowed, keys>>
      /\ boots' = boots + 1 /\ boots < MaxBoots /\ phase[b] = "down"
    BY DEF Boot, world
<1>p. PICK hasKms \in BOOLEAN, payload \in {NoStore, store}, servable \in BOOLEAN,
           ordering \in BOOLEAN, from \in {"generated", "rejected", "store"} :
              /\ Booted(b, hasKms, payload, servable, ordering, from)
              /\ servable => payload.cert # 0
              /\ ordering => mode = "alpn"
              /\ from = "generated" <=> payload.id = 0
    BY BootFrom
<1> DEFINE id     == IF from = "store" THEN payload.id ELSE ids + 1
           writes == from = "generated" /\ MayPersistIdentity(b, servable, ordering, hasKms)
           cert   == IF servable THEN payload.cert ELSE 0
           wr     == Writer(b, "identity", payload.cert, id)
<1>1. /\ payload \in [cert : Cert, id : Id] /\ payload.cert <= store.cert
      /\ payload.id # 0 => payload = store
      /\ payload.cert # 0 => payload = store
    <2>1. NoStore \in [cert : Cert, id : Id] /\ NoStore.cert = 0 /\ NoStore.id = 0
        BY DEF NoStore, Cert, Id
    <2>2. store \in [cert : Cert, id : Id]
        BY DEF TypeOK
    <2> QED
        BY <2>1, <2>2
<1>2. id \in Id /\ cert \in Cert /\ ids' \in Id /\ ids' <= boots'
    BY <1>u, <1>p, <1>1 DEF Booted, KeysInv, Id, Cert
<1>3. /\ keyed' = [keyed EXCEPT ![b] = hasKms]
      /\ unsealed' = [unsealed EXCEPT ![b] = payload]
      /\ blind' = [blind EXCEPT ![b] = (store.cert # 0 /\ payload.cert = 0)]
      /\ served' = [served EXCEPT ![b] = cert]
      /\ order' = IF b # Authority THEN order ELSE IF ordering THEN "pending" ELSE "none"
      /\ source' = [source EXCEPT ![b] = from]
      /\ ident' = [ident EXCEPT ![b] = id]
    BY <1>p DEF Booted
<1>4. \/ /\ writes /\ phase' = [phase EXCEPT ![b] = "persisting"]
         /\ writers' = writers \cup {wr} /\ persisted' = persisted
      \/ /\ ~writes /\ phase' = [phase EXCEPT ![b] = "up"] /\ writers' = writers
         /\ persisted' = [persisted EXCEPT ![b] = AtBoot(from, ordering, hasKms)]
    BY <1>p DEF Booted
<1>5. wr \in Writers /\ wr.box = b /\ wr.id = id /\ wr.cert = payload.cert /\ wr.kind = "identity"
    BY <1>1, <1>2 DEF Writer, Writers
<1>6. AtBoot(from, ordering, hasKms) \in {"unset", "yes", "no"}
    BY DEF AtBoot
<1> HIDE DEF id, writes, cert, wr
<1>7. TypeOK'
    <2>1. boots' \in 0..MaxBoots
        BY <1>u
    <2>2. blind' \in [Boxes -> BOOLEAN] /\ keyed' \in [Boxes -> BOOLEAN]
        BY <1>3 DEF TypeOK
    <2>3. /\ unsealed' \in [Boxes -> [cert : Cert, id : Id]] /\ served' \in [Boxes -> Cert]
          /\ ident' \in [Boxes -> Id]
          /\ source' \in [Boxes -> {"none", "store", "generated", "rejected"}]
          /\ order' \in {"none", "pending", "over"}
        BY <1>1, <1>2, <1>3 DEF TypeOK
    <2>4. /\ phase' \in [Boxes -> {"down", "persisting", "up"}]
          /\ persisted' \in [Boxes -> {"unset", "yes", "no"}]
          /\ writers' \subseteq Writers
        <3>1. /\ writers \subseteq Writers
              /\ phase \in [Boxes -> {"down", "persisting", "up"}]
              /\ persisted \in [Boxes -> {"unset", "yes", "no"}]
            BY DEF TypeOK
        <3>2. writers' \subseteq Writers
            BY <1>4, <1>5, <3>1
        <3>3. phase' \in [Boxes -> {"down", "persisting", "up"}]
            BY <1>4, <3>1
        <3>4. persisted' \in [Boxes -> {"unset", "yes", "no"}]
            BY <1>4, <1>6, <3>1
        <3> QED
            BY <3>2, <3>3, <3>4
    <2> QED
        BY <1>u, <1>2, <2>1, <2>2, <2>3, <2>4 DEF TypeOK
<1>8. CASE b # Authority
    <2>1. writers' = writers
        BY <1>4, <1>8 DEF writes, MayPersistIdentity
    <2>2. /\ phase'[Authority] = phase[Authority] /\ persisted'[Authority] = persisted[Authority]
          /\ blind'[Authority] = blind[Authority] /\ source'[Authority] = source[Authority]
          /\ ident'[Authority] = ident[Authority] /\ unsealed'[Authority] = unsealed[Authority]
          /\ served'[Authority] = served[Authority] /\ order' = order
        BY <1>3, <1>4, <1>8 DEF TypeOK
    <2>3. SealedIdentity' = SealedIdentity
        BY <2>2 DEF SealedIdentity
    <2>4. cert <= keys
        BY <1>1, <1>2 DEF KeysInv, cert, TypeOK, Cert
    <2>5. \A a \in Boxes : served'[a] <= keys
        BY <1>3, <2>4 DEF KeysInv, TypeOK
    <2>6. KeysInv'
        BY <1>u, <1>2, <2>1, <2>2, <2>5 DEF KeysInv
    <2>7. WritersInv' /\ DownInv' /\ IdentityInv' /\ FirstAnswerHonest'
        BY <1>u, <2>1, <2>2, <2>3 DEF WritersInv, DownInv, IdentityInv, FirstAnswerHonest,
            PersistedMeansStored
    <2> QED
        BY <1>7, <2>6, <2>7
<1>9. CASE b = Authority
    <2>1. /\ writers = {} /\ pendingRenewal = NoRenewal /\ lastInstall = 0 /\ lastCsr = 0
          /\ persisted[Authority] = "unset"
        BY <1>u, <1>9 DEF DownInv
    <2>2. /\ source'[Authority] = from /\ ident'[Authority] = id
          /\ unsealed'[Authority] = payload /\ served'[Authority] = cert
          /\ blind'[Authority] = (store.cert # 0 /\ payload.cert = 0)
          /\ phase'[Authority] # "down"
          /\ order' = IF ordering THEN "pending" ELSE "none"
        BY <1>3, <1>4, <1>9 DEF TypeOK
    <2>3. SealedIdentity' = IF from = "rejected" THEN payload.id ELSE id
        BY <2>2 DEF SealedIdentity
    <2>4. cert <= keys
        BY <1>1, <1>2 DEF KeysInv, cert, TypeOK, Cert
    <2>5. \A a \in Boxes : served'[a] <= keys
        BY <1>3, <2>4 DEF KeysInv, TypeOK
    <2>6. KeysInv'
        BY <1>u, <1>2, <2>1, <2>5 DEF KeysInv, NoRenewal
    <2>7. WritersInv'
        <3>1. CASE writes
            <4>1. ~ordering /\ payload = store /\ payload.cert # 0 /\ from = "generated"
                BY <1>p, <1>1, <3>1 DEF writes, MayPersistIdentity
            <4>2. writers' = {wr} /\ order' = "none"
                BY <1>4, <2>1, <2>2, <3>1, <4>1
            <4>3. 0 \notin obtained
                BY DEF KeysInv
            <4> QED
                BY <1>u, <1>5, <1>9, <2>1, <2>2, <2>3, <4>1, <4>2, <4>3
                DEF WritersInv, NoRenewal, KeysInv
        <3>2. CASE ~writes
            BY <1>u, <1>p, <1>4, <2>1, <2>2, <3>2 DEF WritersInv
        <3> QED
            BY <3>1, <3>2
    <2>8. DownInv' /\ FirstAnswerHonest'
        BY <1>u, <2>2 DEF DownInv, FirstAnswerHonest
    <2>9. IdentityInv'
        <3>1. ASSUME ~blind'[Authority], store.id # 0 PROVE store.id = SealedIdentity'
            <4>1. payload = store
                BY <1>1, <2>2, <3>1 DEF KeysInv
            <4> QED
                BY <1>p, <2>3, <3>1, <4>1 DEF id
        <3>2. persisted'[Authority] = "yes" => from = "store"
            BY <1>4, <1>9, <2>1 DEF AtBoot, TypeOK
        <3>3. from = "store" => store.id = id
            BY <1>p, <1>1 DEF id
        <3> QED
            BY <1>u, <2>2, <3>1, <3>2, <3>3 DEF IdentityInv, PersistedMeansStored
    <2> QED
        BY <1>7, <2>6, <2>7, <2>8, <2>9
<1> QED
    BY <1>8, <1>9

-----------------------------------------------------------------------------
(* The theorems.                                                           *)

LEMMA NextIInv == IInv /\ [Next]_vars => IInv'
<1> SUFFICES ASSUME IInv, [Next]_vars PROVE IInv'
    OBVIOUS
<1>1. CASE UNCHANGED vars
    BY <1>1 DEF vars, world, box, ci, IInv, TypeOK, KeysInv, WritersInv, DownInv, IdentityInv,
        FirstAnswerHonest, PersistedMeansStored, SealedIdentity
<1>2. CASE Next
    BY <1>2, CsrIInv, WaitingIInv, OrderIInv, InstallIInv, WriteIInv, CrashIInv, BootIInv DEF Next
<1> QED
    BY <1>1, <1>2

\* The inductive invariant of the store and its one writer.
THEOREM Inductive == Spec => []IInv
BY InitIInv, NextIInv, PTL DEF Spec

\* Every variable keeps its type.
THEOREM TypeCorrect == Spec => []TypeOK
<1>1. IInv => TypeOK
    BY DEF IInv
<1> QED
    BY <1>1, Inductive, PTL

\* What /health says of the identity is what the next boot finds.
THEOREM PersistedIsStored == Spec => []PersistedMeansStored
<1>1. IInv => PersistedMeansStored
    BY DEF IInv, IdentityInv
<1> QED
    BY <1>1, Inductive, PTL

\* The first answer to an install is honest.
THEOREM AnsweredHonestly == Spec => []FirstAnswerHonest
<1>1. IInv => FirstAnswerHonest
    BY DEF IInv
<1> QED
    BY <1>1, Inductive, PTL

\* The CSR handed out last can be installed, or was.
THEOREM CsrStaysInstallable == Spec => []LastCsrInstallable
<1>1. IInv => LastCsrInstallable
    BY DEF IInv, KeysInv, LastCsrInstallable
<1> QED
    BY <1>1, Inductive, PTL

\* Only a save changes the store, and it writes no other identity than the one there.
LEMMA StoreStep ==
    ASSUME IInv, [Next]_vars
    PROVE  \/ store' = store
           \/ \E w \in writers : Save(w) /\ store' = [cert |-> w.cert, id |-> w.id]
BY DEF vars, Next, OrderEnds, beginRenewalCsr, PendingAges, CiObtains, Boot, Crash,
    completeRenewal, Ages, Write, Sealed, SealFails, Save

\* The identity in the store survives everything but a boot that could not open it.
THEOREM StoredIdentitySurvives == Spec => IdentityKept
<1>1. IInv /\ [Next]_vars => [store.id # 0 /\ store'.id # store.id => blind[Authority]]_vars
    <2> SUFFICES ASSUME IInv, [Next]_vars, store.id # 0, store'.id # store.id
                 PROVE  blind[Authority]
        OBVIOUS
    <2>1. PICK w \in writers : store' = [cert |-> w.cert, id |-> w.id]
        BY StoreStep
    <2>2. w.id = SealedIdentity /\ phase[Authority] # "down"
        BY DEF IInv, WritersInv, DownInv
    <2> QED
        BY <2>1, <2>2 DEF IInv, IdentityInv
<1> QED
    BY <1>1, Inductive, PTL DEF Spec, IdentityKept

\* A step that changes what a box serves installs a newer certificate, or the box
\* starts or stops.
LEMMA ServedStep ==
    ASSUME IInv, [Next]_vars, NEW b \in Boxes, phase[b] # "down", phase'[b] # "down"
    PROVE  served'[b] >= served[b]
<1> USE RenewalAssumption, Numbers DEF IInv
<1>1. CASE served' = served
    BY <1>1
<1>2. ASSUME NEW a \in Boxes, Boot(a) PROVE served'[b] >= served[b]
    <2>1. a # b /\ \E c \in Nat : served' = [served EXCEPT ![a] = c]
        <3>1. a # b
            BY <1>2 DEF Boot
        <3>2. PICK hasKms \in BOOLEAN, payload \in {NoStore, store}, servable \in BOOLEAN,
                   ordering \in BOOLEAN, from \in {"generated", "rejected", "store"} :
                      Booted(a, hasKms, payload, servable, ordering, from)
            BY <1>2, BootFrom
        <3>3. payload.cert \in Nat
            BY DEF NoStore
        <3>4. PICK c \in Nat : served' = [served EXCEPT ![a] = c]
            <4>1. CASE servable
                <5>1. served' = [served EXCEPT ![a] = payload.cert]
                    BY <3>2, <4>1 DEF Booted
                <5> QED
                    BY <3>3, <5>1
            <4>2. CASE ~servable
                <5>1. served' = [served EXCEPT ![a] = 0]
                    BY <3>2, <4>2 DEF Booted
                <5> QED
                    BY <5>1
            <4> QED
                BY <4>1, <4>2
        <3> QED
            BY <3>1, <3>4
    <2> QED
        BY <2>1 DEF TypeOK
<1>3. ASSUME NEW a \in Boxes, Crash(a) PROVE served'[b] >= served[b]
    <2>1. a # b
        BY <1>3 DEF Crash, TypeOK
    <2> QED
        BY <1>3, <2>1 DEF Crash, TypeOK
<1>4. ASSUME NEW c \in Nat, served' = [served EXCEPT ![Authority] = c], c > served[Authority]
      PROVE  served'[b] >= served[b]
    BY <1>4 DEF TypeOK
<1>5. CASE OrderEnds
    <2>1. served' = served \/ served' = [served EXCEPT ![Authority] = keys + 1]
        BY <1>5 DEF OrderEnds, persistIssued
    <2>2. keys + 1 > served[Authority] /\ keys + 1 \in Nat
        BY DEF KeysInv
    <2> QED
        BY <1>1, <1>4, <2>1, <2>2
<1>6. ASSUME NEW c \in 1..MaxKeys, completeRenewal(c) PROVE served'[b] >= served[b]
    <2>1. \/ served' = served
          \/ c = pendingRenewal.key /\ served' = [served EXCEPT ![Authority] = c]
        BY <1>6 DEF completeRenewal, persistIssued
    <2>2. c = pendingRenewal.key => c > served[Authority]
        BY DEF KeysInv
    <2> QED
        BY <1>1, <1>4, <2>1, <2>2
<1>7. CASE UNCHANGED vars
    BY <1>1, <1>7 DEF vars
<1>8. CASE beginRenewalCsr \/ PendingAges \/ CiObtains \/ \E c \in 1..MaxKeys : Ages(c)
    BY <1>1, <1>8 DEF beginRenewalCsr, PendingAges, CiObtains, Ages
<1>9. ASSUME NEW w \in writers, Write(w) PROVE served'[b] >= served[b]
    BY <1>1, <1>9 DEF Write, Sealed, SealFails, Save
<1> QED
    BY <1>2, <1>3, <1>5, <1>6, <1>7, <1>8, <1>9 DEF Next

\* Neither the store nor a running box goes back to an older certificate.
THEOREM NothingGetsOlder == Spec => NeverOlder
<1>1. IInv /\ [Next]_vars =>
        [/\ store'.cert >= store.cert
         /\ \A b \in Boxes : phase[b] # "down" /\ phase'[b] # "down" => served'[b] >= served[b]]_vars
    <2> SUFFICES ASSUME IInv, [Next]_vars
                 PROVE  /\ store'.cert >= store.cert
                        /\ \A b \in Boxes : phase[b] # "down" /\ phase'[b] # "down" =>
                                                served'[b] >= served[b]
        OBVIOUS
    <2>1. store'.cert >= store.cert
        <3>1. CASE store' = store
            BY <3>1, Numbers DEF IInv
        <3>2. ASSUME NEW w \in writers, store' = [cert |-> w.cert, id |-> w.id]
              PROVE  store'.cert >= store.cert
            BY <3>2 DEF IInv, WritersInv
        <3> QED
            BY <3>1, <3>2, StoreStep
    <2> QED
        BY <2>1, ServedStep
<1> QED
    BY <1>1, Inductive, PTL DEF Spec, NeverOlder
=============================================================================
