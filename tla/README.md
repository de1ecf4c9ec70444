# A TLA+ verification of ppq-enclave-proxy

The repository is a confidential inference proxy. It runs inside a Nitro
enclave, terminates TLS there, asks **horse-power** (the billing backend) whether
a request may be served, sends the prompt to one of several upstream providers,
streams the answer back and settles the cost with horse-power. The enclave's
host only forwards bytes.

This directory holds TLA+ modules that model the parts of it that are concurrent
or that may fail halfway, TLC configurations that check them on small instances,
and proofs that TLAPS checks for every value of the constants. Paths below are
relative to the repository; `server.mjs` and the other bare names are in
`enclave/src/`.

## 1. Inventory

### Processes and how they talk

    client --TLS--> worker 1..n  --POST /authorize, /settle, /error--> horse-power
                      |  ^   \---HTTPS---> upstream providers
                 IPC  |  |
                      v  |
                    primary  --NSM, KMS, sealed store--> host
                      |
                      +--ACME--> CA

The primary generates or restores the identity, orders or installs certificates
and forks one worker per CPU. Each worker serves requests alone: its settle queue,
its counters and its backoff map are memory of that worker. Between primary and
workers there is one ordered IPC pipe per worker (`clusterProto.mjs`).

JavaScript runs to completion: within one process the only interleaving points
are awaits and events. That is what every module below takes as its grain of
atomicity.

### Components

| Component | Source | State | Operations | What is hard |
|---|---|---|---|---|
| settlement queue | `settleQueue.mjs`, `settlePostOnce` in `server.mjs` | array of items (attempts, nextAt, inFlight) | submit, drainTick, the two continuations | timer against open POST, drop at the cap of an item in flight, lost answers |
| chat completion request | `handleChatCompletion`, `chatCompletion`, `attemptUpstream`, `authorizeWithHorsepower` in `server.mjs`; `routing.mjs`, `directOnly.mjs`, `counters.mjs` | about two dozen locals of the closure | authorize, redact, candidate loop, retry, re-attest, stream, settle | the client's close at every await; end, error and close racing for the settle; early returns that must release the hold |
| worker fleet | `createFleet`, `workerMain` in `server.mjs`, `clusterProto.mjs` | listening set, ack map, challenges, per-worker copies | fork, online, broadcast, ack, exit, respawn | replacement of a worker in the middle of an acknowledged broadcast |
| in-enclave order | `obtainCertificate` in `acmeRunner.mjs`, `acme.mjs` | the order's step | arm, validate, clear, finalize | depends on all workers at once |
| certificate store, CI renewal, identity | `acmeStore.mjs`, `acmeRunner.mjs`, `hpkeIdentity.mjs`, `start` and `persistIssued` in `server.mjs` | sealed blob, pendingRenewal, lastInstall | boot, CSR, install, seal, save | crash between install and save; repeated install; identity must survive or be refused |
| served identity | `servedIdentity.mjs` | active and next context | swap, serve | rotation under open connections |
| balance backoff | `balanceBackoff.mjs` | bounded map credential -> until | remember, lookup, sweep | eviction at the limit, expiry boundary |
| Bedrock credentials | `bedrockCreds.mjs` | current credentials, expiry | apply, get | concurrent applies finishing out of order |
| Vertex tokens | `vertexAuth.mjs` | token, expiry, inflight promise | get | one refresh for many callers, failed refresh |
| tinfoil | `tinfoil.mjs` | attested key cache | attest, build, open | stale attested key, re-attestation |
| PII redaction | `pii/` | detector session, token map | redact, restore | placeholders split over chunks |
| passthrough and upgrades | `passthrough.mjs` | open connections | forward, upgrade | connection cap, half-closed sockets |
| PROXY listener | `proxyListener.mjs`, `proxyProtocol.mjs` | bytes before TLS | parse, hand over | partial header, timeout |
| dialect relays | `messages.mjs`, `responses.mjs`, `responsesMessages.mjs` | stream translators | translate both ways | frame order, terminal event exactly once |
| speech | `speech.mjs`, `speechRequest` in `server.mjs` | one request | authorize, forward, settle | the same hold contract on another path |
| private relay | `privateRelay` in `server.mjs` | one request | authorize, relay sealed bytes, settle | the same contract, with a body the enclave does not read |
| translators | `anthropic.mjs`, `bedrock.mjs`, `reasoningMirror.mjs`, `webSearchTransforms.mjs`, ... | per stream | convert | mostly data |
| routing and eligibility | `eligibility.mjs`, `routing.mjs`, `smartRouting.mjs`, `upstreams.mjs`, `upstreamBinding.mjs`, `directOnly.mjs` | none (pure) | decide a provider list | precedence of rules |
| receipts, decisions | `receipt.mjs`, `decisions.mjs` | none or per request | record, sign | which decision a receipt names |
| metering | `inputEstimate.mjs`, `outputCount.mjs`, `cost.mjs`, `firstToken.mjs` | per stream | count | data |
| reports and traces | `errorReport.mjs`, `trace.mjs`, `counters.mjs` | per request | report, finalize | first writer wins |
| EHBP sealing, keys, hosts | `ehbp-server.mjs`, `keySources.mjs`, `hpHosts.mjs`, `trustRoots.mjs`, `sigv4.mjs` | keys | seal, open, sign | cryptography and configuration |

What makes each of the modelled ones correct, in a sentence:

* **Settlement queue**: a settle is never lost without a word, never has two open
  POSTs, is never posted again once decided, and is eventually decided.
* **Chat request**: a granted request says exactly one final word to horse-power
  (settle or terminal report), spends nothing for a client known to be gone,
  cancels the upstream of a client that left, and never sends a prompt to a
  provider that may not have it.
* **The other handlers** (decisions, speech, `/v1/messages` and `/v1/responses`,
  the private relay, token counting): the same contract with horse-power on paths
  that share little code with the chat one; speech bills what was heard.
* **Fleet**: whoever accepts connections can answer the CA while it validates, a
  worker that has read its pipe agrees with the primary, and an order that was
  placed is decided whatever workers die.
* **Renewal**: the identity in the sealed store survives renewals, restarts and
  faults; neither the store nor a box goes back to an older certificate; what
  /health and the answers to CI say of a write is true; a CSR that CI holds stays
  installable.
* **A worker's memories** (backoff, Bedrock credentials, Vertex token, Tinfoil
  keys, served identity): what is taken from one is alive when it is used; a key
  the router refused is not sealed to again; a receipt is signed with the key of
  the certificate its connection was served; a refusal from memory lasts as long
  as horse-power said.
* **The edge** (PROXY listener, route decision, passthrough, upgrades): what goes
  to horse-power bears the address of its own connection and is not one of the
  enclave's routes in disguise; a slot of the cap is taken and given back once; a
  request horse-power may have run is not run again unless it is safe to.
* **Streams** (translators and metering): an answer that reads as complete is
  complete, an answer that is over says so, and what is settled is what the
  provider reported or, without a report, what was delivered.
* **Redaction**: nothing the detector marked is sent, and however the answer is cut
  into deltas the client reads what it would read of the whole.

The hazards, each at the line where it bites and with the properties that would
catch it going wrong, are listed in `PROJECT.json`.

## 2. Plan

Done, in this order because money and certificates go wrong most quietly:

1. `SettleQueue`; `WorkerProofs`
2. `ChatRequest`, `ChatRequestProofs`
3. `Fleet`, `FleetProofs`
4. `Renewal`, `RenewalProofs`
5. `Hold`: the contract of a `settle_id` as an abstract specification, with
   `ChatRequest` and `Handlers` shown to implement it (checked and proved)
6. `Request` and the five handlers that extend it, composed in `Handlers`;
   `HandlersProofs`
7. `BalanceBackoff`, `BedrockCreds`, `VertexAuth`, `TinfoilKeys` and
   `ServedIdentity` over `WorkerClock`, composed in `WorkerMemory`;
   `WorkerProofs`
8. `ProxyListener`, `Routes`, `Passthrough`, composed in `Edge`; `EdgeProofs`
9. `Translators` and `Metering`, between the provider of `StreamUpstream` and the
   reader of `StreamClient`, composed in `Streams`
10. `Redaction`, `RedactedRequest`; `RedactionProofs`

Next:

11. `Billing`: many requests over one `SettleQueue`.
12. Routing and eligibility as pure operators against reference definitions.
13. The receipt's gate; the `HEALTH` broadcast and the RPC of the worker fleet.

Theorems worth proving next: the types of `ChatRequest`; of `Streams`, that a stream is
settled once and ends at most once, which needs the latches and not the folds.

## 3. The modules

An `MC` module extends its component and defines the values of constants that a
`.cfg` cannot write; nothing is redefined there. Operators named "Mutant of ..." in a comment are
wrong on purpose: they stand for a plausible bug in the definition they precede,
are used by no specification, and serve to show that a property notices it.

`Lists` has what several modules need of sequences: `Kept`, the subsequence of what is
kept, with the lemmas about it (it stands where `SelectSeq` would, an operator the
provers know nothing of); induction over the natural numbers; and `Loop`, that a loop of
n rounds makes a value for each, which is what a recursive function must have before
anything can be said of it.

### SettleQueue

The queue of one worker. `queue` is the array; `attempts`, `wait` and `inFlight`
are the fields of its items, kept per settle because a JavaScript item outlives
its place in the array while a POST still refers to it. `first` holds the settles
whose immediate POST by `submit` is open.

| Action | Code |
|---|---|
| `Submit`, `FirstDone` | `submit` up to and after its await |
| `DrainTick` | one firing of the timer: it posts every due item that is not in flight |
| `RetryDone` | the continuation of one such POST: done, given up, or put off by `backoffMs` |
| `CutAnswer` | the response of a POST is cut off between headers and end |
| `Tick` | a unit of time (the backoff base) passes |
| `HpDebit` | horse-power debits; external |
| `Crash` | the worker's process ends, and the array with it |

Fields that only grow (`tries`, `reports`, `acked`, `gone`, `stuck`) are history
for the properties.

### ChatRequest

One `POST /v1/chat/completions`. `pc` is where the handler is; at a value of
`Running` it computes and no event is delivered, at a value of `Awaiting` it
waits, and the client's close, horse-power's decision or the upstream's end may
come. The payload is abstracted to what decides the path: the credential, whether
the model is private or direct-only, the candidate list, the status of each
answer. Redaction, translation and the response cryptography appear as awaits and
outcomes. `settles` and `terminals` count what the request says to horse-power;
handing a settle to the queue of `SettleQueue` is one step here.

The candidate loop is in `TryDirect`, `Skip`, `NotBuilt`, `Built`, `Answered`,
`Reattested`, `Paused`, `AnsweredAgain`, `Exhausted`, `TryOpenRouter` and
`RefuseDirectOnly`; the stream in `AcceptHeaders` to `Wire`, `OnData`, `OnEnd`,
`OnError`, `onClientGone`, `SettleNow` and `SendSettle`.

Assumed: one request; the settle host is configured; an exception that nobody
catches surfaces only at `ThrowPoints`, the places where the code calls something
that may throw outside a `try`.

### Fleet

The primary (`listening`, `chal`, `cert`, the open acknowledged broadcast) and its
workers (`phase`, `wcert`, `wchal`), with two ordered pipes per worker, and the
in-enclave order that needs all of them. A slot of `Workers` stands for the id of
the worker in it: nothing of an exited worker outlives its exit. What a dead
worker sent before it died is read before its exit is seen. A certificate brought
by CI arrives (`CiInstall`) only where no in-enclave order runs, since the mode is
one or the other. The `HEALTH` and `BEDROCK` broadcasts and the RPC are not
modelled here; the Bedrock one is in `BedrockCreds`.

### Renewal

The sealed store, the boxes that read it at boot and the one, the renewal
authority, that writes it. Only the primary process of a box appears. A
certificate is named by its key, keys and identities are numbered in the order
they are generated.

| Action | Code |
|---|---|
| `Boot` (`Booted`, `AtBoot`, `resolveHpkeIdentity`, ...) | `start` up to its serving; if it must write a fresh identity it waits in phase `"persisting"` |
| `OrderEnds` | the `.then` and `.catch` of the order placed by `start` |
| `beginRenewalCsr`, `completeRenewal` | `POST /acme/csr`, `POST /acme/install` in the primary |
| `persistIssued`, `Sealed`, `SealFails`, `Save` | the same function, cut at its two awaits |
| `PendingAges`, `Ages` | the hour of a pending CSR, the renewal window and the expiry of a certificate |
| `CiObtains` | the CI job of `scripts/renew-cert-dns01.mjs` gets its certificate; external |
| `Crash` | the enclave stops; it has no disk |

Assumed: `ACME_DOMAIN` is set; host file and S3 object are one store; certificates
live equally long, so an older one ages first; an install that is refused changes
nothing and is not a step; a CI job takes longer to get a certificate (45 s for
DNS alone) than a write takes to end (20 s for KMS, 10 s for the save); the host
does not hand back an old blob (the header of `acmeStore.mjs` discusses that
replay and accepts it).

### Hold

What the enclave owes horse-power about one id: `Ask` (the id goes out with
authorize, once, before any word about it), `Decide` (horse-power's, whether or not
the enclave still waits) and `Say` (the one settle or terminal report).
`ChatRequest` maps `hold` to `hp` and `said` to the settles and terminal reports it
counted. `Handlers` does the same, but for one path on which the dialect relay
reports twice (`SaidTwice`, see section 4), which it maps to one word.

### Request and Handlers

`Request` holds what the handlers beside the chat one share: the response and its
client, authorize, the one upstream answer, and what the request says of itself. A
handler is a module of actions of its own, from one await to the next:

| Module | Code in `server.mjs` | Besides the shared state |
|---|---|---|
| `DecisionsRequest` | `decisionsRequest` | nothing |
| `SpeechRequest` | `speechRequest` | the chunk loop, the re-attestation of a chunk, what was dispatched and what of it was heard |
| `DialectRelay` | `relayDialectRequest` | the walk over direct candidates, the direct-only rule, the stream and its settle |
| `PrivateRelay` | `privateRelay` | nothing |
| `CountTokens` | `handleCountTokens` | nothing; it announces no id |

`Handlers` composes them behind the choice of `requestRouter` and states the
properties for all five. `AuthorizeCut` is horse-power's answer cut off after its
headers: `authorizeWithHorsepower` resolves nothing then, and the handler stays where
it is (`"stuck"`). Validation of a body appears as its outcomes, a
candidate's eligibility as a choice.

### WorkerMemory

Five memories of a worker over one clock. They share nothing but time, so a
behaviour exercises one of them (`part`), which keeps the state space a sum and not
a product.

| Module | Code | Actions |
|---|---|---|
| `BalanceBackoff` | `balanceBackoff.mjs`, its use in `authorizeWithHorsepower` | `Present` (answered from memory or asked), `AuthorizeAnswered` (402 with a wait, `remember` with sweep and eviction) |
| `BedrockCreds` | `bedrockCreds.mjs`, the primary's delivery | `Deliver`, `Apply`, `Decrypted` (KMS, so two may overlap), `Sign`, `Respawn`, `Hears` |
| `VertexAuth` | `vertexAuth.mjs` | `getToken`, `Issue` (Google's), `Minted`, `MintFails` |
| `TinfoilKeys` | `tinfoil.mjs` | `Get`, `Fetched`, `Installed`, `FetchFails`, `RouterAnswers` (200 or the 422 of a rotated key), `Rotate` (the router's) |
| `ServedIdentity` | `servedIdentity.mjs`, `installIssued`, `SNICallback` | `Listen`, `installIssued` with the failure points of `adopt`, `Handshake`, `Close` |

### Edge

`ProxyListener` reads a header as the parser asks for bytes; a header is what the
parser can tell of it (grammar, length, address, the bytes that prove it wrong) and
may arrive cut anywhere. `Routes` decides which targets are the enclave's; a path is
a sequence of tokens, each plain, upper-case, escaped, escaped twice or, a name only, with
a malformed escape in it (`bad`: `%zz`, a lone `%`), and the loop over its segments is one
walk over the tokens (`Walk`, `Resolve`). `DecodedPath` has the `catch` of
`decodeURIComponent` (`passthrough.mjs:174`): one malformed escape, and the whole path is
compared as it was typed, its other escapes too. What horse-power's router takes for one
route (`Respelled`, `Spellings`) is external, read off the comment of `canonicalPath`;
see `ReadAsOne` below. `RoutesAssumption` says
that a key of `ENCLAVE_ROUTES` is a slash before each of its lower-case names and that no
path has two keys. `Passthrough` is `handle` and `upgrade` under the cap, with the one
retry over a socket the pool had kept; an `'error'` may come before the answer and after
it (`responded`), and what was on its way when a request was destroyed may still be run. `Edge` puts requests on connections, decides them,
and closes connections under them.

`ReadAsOne` is an assumption about a program that is not in this repository. The comment
at the `catch` says of a malformed escape that "it cannot have spelled one of our routes"
(`passthrough.mjs:171`). For a path whose only escapes are malformed the model checks and
proves that: `/x%zz/../v1/messages` is refused. For a path that has a well-formed escape
as well, the code compares the escape undecoded and hands the target to the proxy; it is
right if horse-power's router does not decode such a path either, and would not be if
that router decoded segment by segment. `Spellings` leaves those paths out by name, and
nothing here says anything of them.

### Streams

`StreamUpstream` is a provider: items (text, thought, refusal, call) with deltas in
the events of one of three grammars, a usage report, and an end that is complete,
failed or cut; a chunk boundary may fall inside a line, and some lines are over the
relay's cap. `Translators` has one dispatch function for each translator, from its
state and one event to its next state and the frames written. `Metering` has the
usage extractors, the output counters, the first-token mark and the reasoning
mirror. `Streams` is the relay between them, with `StreamClient`, a reader that
assembles the answer and notices frames that break the grammar.

A route of `AllRoutes` names provider and endpoint: four translated ones, the chat
pass-through and its Fireworks variant, the two native dialects, and the JSON
answers. Prices are numbers, texts are counted in characters. A JSON answer that is passed
on is settled from what the relay kept of it, at `'end'`, at `'error'` and when the client
leaves alike (`SettleKept`): its usage if it came whole, its size (`Tallies`) if it was too
large to keep, and nothing of a part that does not parse; a part of a large body may or may
not have passed the limit. A translated JSON answer is looked at when it ends, so one that
was cut settles the measured prompt only.

### Redaction

`Redaction` has the functions of `pii/`: offsets in characters to offsets in UTF-16
units, trimming, merging, placeholders that avoid what the texts already hold, and
the restorer, which holds back what may begin a placeholder. `RedactedRequest` is
one request through them: `Redact` (nothing is sent on an unusable answer of the
detector), `Send`, then `Says` and `Delta` in two fields, one of them JSON text,
each with a restorer of its own, and the dialect's ways to close a field. The
provider repeats what it was sent or, on the probe input, says anything over a
small alphabet.

### What the runtime does

The models use these rules of Node, which the code relies on:

* an HTTP response cut off after its headers emits `'aborted'`/`'error'` on the
  response and neither `'end'` there nor `'error'` on the request; with no
  `'error'` listener on the response nobody hears of it;
* the request's `'close'` comes nevertheless;
* between two awaits no event is delivered;
* in a worker, an IPC message that finds no listener is dropped (the comment at
  `server.mjs:6834` says so; cluster keeps an internal listener on the channel, so
  messages are not held back).

## 4. The runs

| Run | Checks | Bounds, and why they are enough |
|---|---|---|
| `settle_queue` | `NoSilentLoss`, `AtMostOnePost`, `ReportsExplained`, `DecidedUnlessCut`, `DecidedNeverReposted` | three settles and a cap of two: the oldest item is dropped, in flight or not; two retries reach the limit; one cut answer and one crash at any moment |
| `chat_request` | `GrantedSaysFinalWord`, `NoSubstitution`, `CleanIsClean`, `FinalWordUnlessCut`, `NoSpendForNobody`, `ImplementsHold` | every list of up to two candidates plus the OpenRouter terminal: a fallback, a skip, a repeated provider; every status; the client closes at any await; both cuts |
| `handlers` | `ImplementsHold`, `CleanIsClean`, `NoSpendForNobody`, `NoSubstitution`, `SpeechBillsWhatWasHeard`, `FinalWordUnlessCut` | two chunks: one fails or loses its client after another was heard; two direct candidates: one fails or is skipped before another is tried |
| `fleet` | `ValidatedEverywhere`, `Converged`, `OrderDecided` | two workers, two names, two exits: a worker is replaced while a challenge is armed, validated or cleared, and the second name starts from what that left |
| `renewal` | `PersistedMeansStored`, `FirstAnswerHonest`, `LastCsrInstallable`, `IdentityKept`, `NeverOlder` | an authority and a fleet box, four boots between them, two keys: two renewals in a row with restarts before and after, every fault at every boot and save |
| `worker_memory` | `BackoffAsTold`, `CredentialsGood`, `ResealedFresh`, `SignsAsServed` | three credentials and room for two: eviction with and without an expired entry; two workers, two blobs, one respawn: decrypts overlap; two callers share an exchange; two sealers, a client and two rotations: a refused key is refused again; three certificates, one of them broken, two connections that outlive an install; four ticks pass every window and margin |
| `edge` | `LeavesAsItShould`, `SlotsExact`, `RunAgainOnlyIfSafe`, `UnansweredEnds` | two connections that may share a peer tuple, one header of each kind cut in every way; two requests and room for one; two changes of spelling combine, an escape or a malformed one that is taken back with a slash, an upper case or a dot segment |
| `streams` | `CompleteMeansWhole`, `EndIsTold`, `MeteredAsDelivered`, `BilledAsReported` | ten routes; two items of two characters: a call follows a text or a call, a delta is lost first or last, the counter passes its cap of three; every chunk boundary, cut and over-long line |
| `redaction` | `NothingDetectedIsSent`, `CutsDoNotShow`, `EchoIsOriginal` | four inputs (a surface with a quote, a character of two units, placeholders the user wrote, a blank text); two spans overlap, nest, touch or cross the join; answers of four units over both fields and of six in the arguments, where an escaped placeholder takes six, cut in every way |
| `chat_request_unwired` | `StreamFailureSettles` fails | one candidate, one kind of cut |
| `streams_once` | `BilledOnce` fails | one route, a prompt that is all cached |
| `streams_refusal` | `RefusalReaches` fails | one route, one item |

The largest are `streams` (two million states), `worker_memory` and `redaction`
(about one and a half million each), `edge`, `fleet` and `renewal` (under one
million each); each ends in one to two and a half minutes with two workers.

Deadlock is not checked: a request, an order and a set of settles come to an end,
and the bounds on crashes, boots, keys and time stop the rest.

### What they show

The queue keeps what it is for: no settle is lost without a word, posted twice at
once or posted again after it was decided. Every handler, whatever the order of the
client's close, horse-power's decision and the upstream's end, announces its id
once and says one final word about it, and says it unless an answer is cut off
where nobody listens or the direct-only rule refuses; no prompt reaches a provider
that may not have it. Whoever listens can answer the CA while it validates. The
identity in the store survives every boot that opened the store, nothing goes back
to an older certificate, and the first answer to an install is true. Credentials,
tokens and keys are alive when used, and go back to an older delivery only where
two decrypts overlapped. Nothing leaves for horse-power without its own
connection's address or in the disguise of a respelled path (with the assumption
`ReadAsOne`), and the cap counts exactly; a request is sent again only where that is
harmless, before an answer and for a client that is there. A stream that reads as complete is complete, and is settled as reported.
What the detector marked stays in the enclave, and a delta boundary never shows.

### Where the code and what is said of it part

1. `chat_request_unwired`: an upstream cut off while the handler awaits its
   encryptor or opener is heard by nobody; the request never settles
   (`server.mjs:2064`). The dialect relay waits for its encryptor in the same way
   (`server.mjs:5116`), and its `FinalWordUnlessCut` excepts that.
2. `streams_once`: a prompt served wholly from a Responses provider's cache becomes
   an input of zero on the Messages endpoint, and the settle takes zero for missing
   and adds the measured prompt (`server.mjs:5024`, against
   `responsesMessages.mjs:350`).
3. `streams_refusal`: a refusal streamed by a Responses provider reaches a Messages
   client as an empty `end_turn` (`responsesMessages.mjs:588`, against `:633`).

The other exceptions are written into the properties that pass, or into the model's
actions, and are kept here for whoever changes the code:

* *Cut answers.* A settle whose answer is cut off after the headers stays in flight
  for ever (`server.mjs:859`, excepted by `DecidedUnlessCut`); an authorize answer
  cut off there leaves its request waiting, in every handler (`server.mjs:827`, excepted
  by `FinalWordUnlessCut` of both modules). The private relay
  attaches its close listener only after the headers (`server.mjs:5889`).
* *Final words.* The 400 of the direct-only rule releases its hold by neither a
  settle nor a terminal report (`server.mjs:1670`, and the same rule in the dialect
  relay). Where the sanitizer of an upstream's error body throws
  (`upstreamErrorBody.mjs:138` acknowledges the overflow), the dialect relay has
  already reported and the catch of the router reports again (`server.mjs:4803`);
  `count_tokens` has not finalized yet (`server.mjs:5485`).
* *Outcomes.* The decisions handler finalizes `clean` before it seals
  (`server.mjs:3242`). A speech client that leaves while a chunk is being sent is
  billed for that chunk, and a chunk being sealed for tinfoil when the client leaves
  is still posted.
* *Queue.* A settle is posted up to `MaxAttempts + 1` times (`settleQueue.mjs:43`
  reads as if it were `MaxAttempts`); an item that the cap drops in flight may be
  reported lost and then acknowledged (`settleQueue.mjs:48`).
* *Fleet and store.* A certificate broadcast while a worker imports its identity is
  dropped (`server.mjs:6855`, against the comment at `:6865`). A store that could not
  be opened counts as one with no identity, and the next order or install seals a
  fresh one over it (`server.mjs:6408`). A repeated install is answered
  `persisted: true` while the first one's save is under way or has failed
  (`server.mjs:6594`).
* *Memories.* Two KMS decrypts may finish out of order, and an expired blob that
  parses replaces a valid one. `invalidate()` of the tinfoil attestor does not cancel
  a refresh in flight. A backoff window starts when the answer is received.
* *Edge.* On the plain port the client's address is the one last noted for the peer
  tuple (`proxyListener.mjs:94`, against `passthrough.mjs:477`); such connections
  are not proxied. `handle` reports a client's abort as `passthrough_unreachable`.
  An upgrade goes to horse-power whatever its path.
* *Streams.* The error frame of a failed dialect answer may be written inside an
  open frame (`server.mjs:5291` and `:5343`), and after a terminal event an
  `'error'` adds one. A streamed chat answer cut by a filter ends with `stop`, its
  JSON twin with `content_filter`. A JSON answer with no usage is settled with an
  output of zero, unless it was passed on and too large to keep. On a cut the chat mirror may count one line that
  was not delivered. A cost of zero under BYOK is read differently by `cost.mjs`
  and by the two dialects.

## 5. Fairness

Each conjunct stands for something the code or the runtime brings about, or is
named as an assumption here.

* `SettleQueue`: the drain timer fires and time passes; a POST that is not cut off
  ends, because `settlePostOnce` sets a timeout. Nothing is assumed of horse-power:
  it may answer 500 for ever.
* `ChatRequest`: the handler goes on. Authorize has a deadline, which an answer cut off
  after its headers clears (an action of its own, after which nothing is assumed); builds, pauses and
  cryptography end by themselves. That an upstream answers an attempt and that its
  stream ends or is lost is an assumption: `attemptUpstream` sets no timeout. The
  client is never assumed to do anything, nor horse-power to decide.
* `Handlers`: the same. Speech and decisions set deadlines on their upstreams; of the
  dialect and private relays it is assumed as above.
* `Fleet`: the order's own steps (the CA's polling is bounded), the ten-second
  timer of an acknowledged broadcast, the replacement and initialisation of a
  worker, and delivery on both pipes. A worker's exit is never assumed.
* `Edge`: an unanswered attempt of the transparent proxy errs in the end, because its
  connect timer is armed for every attempt and `destroy` ends in `'error'`. Of an
  answered one nothing is assumed: the timer is disarmed. Neither client nor
  horse-power is assumed to act.

`Renewal`, `WorkerMemory`, `Streams` and `RedactedRequest` are checked for safety
only and state no fairness.

## 6. The proofs

Everything below holds for every value of the constants that satisfies the named
assumptions of the modules (`SettleQueueAssumption`, `FleetAssumption`,
`HeaderAssumption` and so on). They say that bounds are natural numbers, that a cap,
a time to live or a number of attempts is not zero where the code's is not, that
markers such as `"none"` are not members of the sets they are added to, and what a
constant's records look like.

The provers see a module's steps one at a time, so each proof is the search for a
predicate that every single step keeps. Those are described here.

**WorkerProofs, the settlement queue.** `WorkerProofs` extends `SettleQueue` and
`WorkerMemory`, which share no variable; their specifications (`QueueSpec` and `Spec`)
are proved about separately.

What the code promises of the queue is not inductive: that a settle has
one open POST depends on the flag, the array and `submit` agreeing. `IInv` adds
that agreement: the array holds an item once and none that `submit` still works
on; a POST is open exactly for a settle of `submit` or an item in flight; what can
still be posted is undecided; an item in flight is in the array or was reported
dropped; the number of POSTs follows `attempts`. From it: `TypeCorrect`,
`NothingLostSilently`, `OnePostAtATime`, `QueueStaysBounded`, `TriesStayBounded`,
`NeverReposted`; and `LossesExplained`, which needs `ReportsInv` besides, what a
report list may look like while a POST is still open.

**ChatRequestProofs.** `RInv` says what was said by where the handler is:
`WordsInv` (a terminal report ends the handler; the latch is set only while
streaming and precedes the one settle), `HoldInv` (no hold before authorize; a
handler that ended after it has said so), `OutcomeInv` and `CleanInv` (when an
outcome is recorded, and that whatever speaks against a clean one is recorded
first). Lemmas on the moves all actions share (go on, refuse, abandon) carry it
through the actions. From it: `OneFinalWord`, `GrantedIsReleased`,
`AbortCancels`, `CleanOnly`, `OutcomeRecorded`, `NothingSpentForNobody`, and
`KeepsHoldContract`, that the request implements `Hold`: the initial states map to
its initial state, `HoldMoves` shows that a step either leaves the id alone and
takes back no word, or announces it where no word was said, or decides it, and
`WordsInv` that words never exceed one.

`PromptStaysOnRoute` (`NoSubstitution`) has an invariant of its own, `RouteInv`: from
the moment the list of candidates is fixed it is all tinfoil for a private model and
without tinfoil for another (`ListSound`, from what `normalizeCandidates` and
`privateCandidates` keep of a list), and where the handler is at a candidate, that is
the direct-only one if there is one. All of it is for candidate lists of any length.

**HandlersProofs.** `HandlersInv` has a conjunct for each of the five handlers, which
says at each of its awaits what it has said, recorded and bought, and `SharedInv`, in
particular that the words said are at most one (`SaidOnce`, but for the sanitizer that
throws) and what a clean outcome never goes with (`CleanState`). The conjuncts of the
handlers that were not chosen are vacuous, and stay so because no step changes
`route`; that is why a step of one handler need not be looked at for the others. From
it, for any number of chunks and of direct candidates: `RelayStaysOnRoute`
(`NoSubstitution`), `SpeechBilledAsHeard` (a chunk counted and not heard is the last,
and only of a client that left), `CleanStaysClean`, `NothingSpentForNobody`, and
`HandlersKeepHold`, that all five implement `Hold`.

**FleetProofs.** For any number of workers, names, exits and certificates.
`WorkersConverge` (`Converged`) cannot follow messages one by one, because a worker
that lags has many to read. What it will agree on is decided by the *last* message in
its pipe that speaks of it: `CatchesUp` says that the last word about the certificate,
and about each name, is right (`LastWord`), and that where the pipe is silent about
it (`Silent`) the worker has it right already, unless it missed a message while it
imported its identity. Three lemmas on pipes (a message that speaks of it is sent, one
that does not, one is taken) carry this through every action.

`ValidatesEverywhere` (`ValidatedEverywhere`) needs `HoldInv`: while an order arms its
challenge, every worker it no longer waits for holds the challenge or will when it is
initialised (`Holds`), which the order's own acknowledgement (`ReplySound`), a worker's
exit and a worker's fork each have to preserve; and no clear that is still in a
pipe is about a name the order has yet to do (`MessageSound`). It is the one place
where acknowledgements, exits and the snapshot of a new worker meet.

**RenewalProofs.** The properties rest on three facts that none of them states:
there is at most one write under way, it carries the identity the store already
has, and the key of an open CSR is newer than everything stored, served or being
written. `IInv` is `TypeOK` with `KeysInv` (the third fact), `WritersInv` (the
first two), `DownInv` (a process that is down holds nothing), `IdentityInv` and
`FirstAnswerHonest`. From it: `TypeCorrect`, `PersistedIsStored`,
`AnsweredHonestly`, `CsrStaysInstallable`, `StoredIdentitySurvives`,
`NothingGetsOlder`. The first fact uses the timing assumption of `CiObtains`.

**WorkerProofs, the memories.** An invariant for each memory; they meet only in the clock.

* `ResealsFresh`: between a 422 and the seal that follows it, whatever the request
  could still be given (what is cached, what a refresh has read) is no older than the
  key the 422 was about, unless the request joined a refresh that was open then
  (`RetryFresh`).
* `SignsWithServedKey`: the private key of every certificate that a connection was
  served *or can still be served* is held (`IdentityInv`); the second half is what an
  install that fails halfway would break.
* `CredentialsStayGood`: for Bedrock, what a worker holds is no newer than what it is
  decrypting, nor that than what it has still to read, unless two decrypts overlapped
  (`BlobsInOrder`); for Vertex, the cache never believes more of a token than Google
  does, and there is an open exchange exactly where one is counted (`VertexInv`).
* `BackoffStaysAsTold`: every entry is the window that horse-power's last answer for
  its credential opened, and no window reaches further ahead than the longest wait
  (`BackoffInv`), through sweep and eviction.

**EdgeProofs.** For any connections, headers, requests and cap. `PassInv` ties the
count of slots to the requests that hold one, and a request's runs to its attempts;
from it `SlotsStayExact` and `RunsAgainSafely`, an action property: a step that sends a
request again finds it harmless, unanswered and its client there (`SentAgainSafely`).
`ListenerInv` says that a header that is
still being read has not been taken whole nor proved wrong by what was taken, and that
the address of a socket is its header's through the handover to TLS; with `HeldOnVia`
it gives `ProxiedWithOwnAddress`: the header is taken to the byte and whatever holds a
slot has the address of its own connection.

`LeavesProperly` (`LeavesAsItShould`) adds that no route of the enclave leaves in
disguise. That rests on `RouterKeepsItsOwn`, a fact about `Routes` for any routes, paths
of any length and any number `MaxRespell` of changes to the spelling. It is an induction
over data, three times. `ResolvedWalks`: the recursion of `Resolved` has a value at every
token of a path. `PutIn`: of two walks, one over a path and one over the path with
something put before a slash, the second is at the slash where the first is, because an
empty segment, a dot, and a name with the double dot that takes it back leave no trace
(`Traceless`), and from there they agree to the end. `CanonicalIsResolved`: folding the
case last, as the code does, is folding it first, so upper-case and escaped tokens can be
compared before the walk; a path with a malformed escape is not decoded, and as it has no
other escape (`ReadAsOne`) decoding it token by token would change nothing. Each change of the spelling therefore keeps the canonical path
(`RespelledKeeps`), and so does any number of them (`SpellingsKeep`); a target with the
canonical path of a route either is that route as typed, and is served, or is a near miss,
and is refused.

**RedactionProofs.** `CutsDoNotShowTheorem`: a field that is closed reads as if it had
been restored whole, however the answer was cut. It holds for texts over any characters,
whatever spans the detector finds in them, and for any alphabet and length of an answer;
the lemmas about the restorer are for *any* mapping and *any* text, and the proof uses
nothing of what `Continues` says about the upstream. The argument:

* `Scanned`: `replaceFrom` is a scan, one `Replace` for each position.
* `Split`: where a scan stands outside every token, the whole is what it has made so far
  and what a fresh scan from there gives. It is an induction over the rest of the text
  with both scans side by side.
* `Parting`, with `Differ` and `StaysOn`: of a text and a longer one that begins with it,
  the scan of the first ends at the first place where the scan of the second does something
  else, and the token there is one the shorter text does not have whole.
* `HeldToken`, `HeldSlash`, `Emitted`: what the shorter text has of such a token, if its
  placeholder was issued, is a proper prefix of one of its spellings, so `HeldBack` holds
  it; if it was not issued, the token would be left as it is in any case. So what a run emits
  stands at the front of what *any* longer text gives.
* `Slide`, `Remembered`: what a scan gives from a position on depends on at most two units
  before it (the word test, and in JSON the escape before a word), so a scan behind the
  restorer's two units of context gives what a scan of all of the text would.
* `PushKeeps`, `FlushEnds`: the restorer, and what it has emitted, satisfy `RestoresIn`:
  for every continuation `X`, restoring all of the text and `X` gives what was emitted and
  what the restorer would give for `X`.

`RedactionInv` says `RestoresIn` of each field that is open, with the delta that has not
gone through the restorer yet (`Reads`), and that each closed field is whole
(`ReadWhole`). It quantifies over all continuations and alphabets, so that TLC cannot
evaluate it; TLC checks what follows from it. `MappingTyped` is the rest of the work: the
placeholders and surfaces that sorting, merging and issuing lead to are sequences over one
alphabet. Two lines of the code are what the proof hangs on: the context of two units
(`Context`), and that a core without its delimiter is still held back (`HeldBack`); the
mutants of both break the property.

The library's induction theorems take an operator as a parameter, which the installed
provers cannot instantiate. `Lists` gets induction without one: that the natural numbers
are well-founded gives every set of them that is not empty a least member
(`LeastNumber`), so a set that has 0 and every successor has all (`Induction`), and the
statement to be proved is given as the set of numbers it holds for.

`TypeOK` of `SettleQueue` and `Renewal`, `TypeInv` of `Fleet`, `QueueBounded`,
`TriesBounded`, `AtMostOneFinalWord`, `OverHasOutcome` and `AbortCancelsUpstream` are
proved, and no run repeats them. `TypeOK` of
`ChatRequest` and `Handlers` documents the types; it holds on the instances of
section 4 (put `INVARIANT TypeOK` in the `.cfg` to see it) and is not proved as such:
the invariants above hold the types their proofs need.

**Only model-checked.**

* All liveness (`DecidedUnlessCut`, `FinalWordUnlessCut` of both handlers' modules,
  `OrderDecided`, `UnansweredEnds`): fairness and `ENABLED` are out of the prover's
  reach.
* `Streams` (`CompleteMeansWhole`, `EndIsTold`, `MeteredAsDelivered`, `BilledAsReported`):
  they compare what the client assembled with what the provider said, two folds over
  events and frames.
* `RedactedRequest` (`NothingDetectedIsSent`, `EchoIsOriginal`): the model numbers
  placeholders with the six digits of `Digits`, enough for the inputs of the run and not for
  texts with any number of surfaces, so neither is a theorem about every input.

For `Streams` the invariant itself must say what the folds give for any part of a stream,
as `RedactionInv` does for a text; those lemmas have not been attempted.

## 7. Not modelled

* Cryptography (EHBP and HPKE sealing, SigV4, receipts' signatures), attestation
  documents and chain checks: they succeed or fail.
* Validation of requests, the projection of a payload onto what a provider accepts,
  routing and eligibility: tables and conversions without state. Their outcome (a
  body refused, a candidate eligible or skipped) is a choice in the handlers.
* Receipts: when one is made and what it names.
* Of redaction: which strings of a body are texts (`extractTexts`), the split of SSE
  bytes into events, and the self-hosted detector's span format.
* Of the translators: requests, citations, web search, rebranding of models.
* Header rewriting of the proxy, configuration, logging, and /health except for the
  fields a property is about.
* The `HEALTH` broadcast and the RPC between worker and primary.
