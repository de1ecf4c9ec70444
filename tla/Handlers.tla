------------------------------ MODULE Handlers ------------------------------
(***************************************************************************)
(* requestRouter and the five handlers it chooses among beside the chat    *)
(* one: decisions, speech, the dialect relay, the private relay and token  *)
(* counting.  They share horse-power's contract (Hold) and the vocabulary  *)
(* of Request; this module states what each of them owes, whatever the     *)
(* order of client close, horse-power's decision and upstream events.      *)
(***************************************************************************)
EXTENDS DecisionsRequest, SpeechRequest, DialectRelay, PrivateRelay, CountTokens

vars == <<common, speech, dialect>>

Init == RequestInit /\ SpeechInit /\ DialectInit

\* The private relay's answer, like the dialect's, ends or is cut while it is read.
PrivateUpstream ==
    /\ At("private", "stream") /\ up = "open"
    /\ \/ up' = "ended" /\ UNCHANGED upError
       \/ up' = "cut" /\ upError' = TRUE
    /\ UNCHANGED <<fixed, pc, client, hp, posts, status, books, story, words, threw>>

\* requestRouter: the path chose the handler when the request arrived.
Handler ==
    \/ DecisionsHandler /\ UNCHANGED <<speech, dialect>>
    \/ SpeechHandler /\ UNCHANGED dialect
    \/ DialectHandler /\ UNCHANGED speech
    \/ PrivateHandler /\ UNCHANGED <<speech, dialect>>
    \/ CountHandler /\ UNCHANGED <<speech, dialect>>

Upstream ==
    \/ PrivateUpstream /\ UNCHANGED <<speech, dialect>>
    \/ DialectUpstream /\ UNCHANGED speech

Next ==
    \/ DecisionsNext /\ UNCHANGED <<speech, dialect>>
    \/ SpeechNext /\ UNCHANGED dialect
    \/ DialectNext /\ UNCHANGED speech
    \/ (PrivateNext \/ PrivateUpstream) /\ UNCHANGED <<speech, dialect>>
    \/ CountNext /\ UNCHANGED <<speech, dialect>>
    \/ (HpDecides \/ AuthorizeCut \/ Flush) /\ UNCHANGED <<speech, dialect>>

Spec == Init /\ [][Next]_vars

\* What a handler awaits comes: authorize (unless its answer is cut off), speech and
\* decisions have deadlines, the cryptography ends by itself; that the upstream of the
\* other two answers and ends or loses its stream is assumed, the code sets no timeout on
\* either.
FairSpec == Spec /\ WF_vars(Handler) /\ WF_vars(Upstream)

-----------------------------------------------------------------------------
(* Properties.                                                             *)

Over == pc = "done" /\ ~counting

\* An id announced to horse-power; count_tokens announces none.
Granted == hp = "granted"

TypeOK ==
    /\ route \in Routes
    /\ res \in {"open", "ended", "finished"}
    /\ connected \in BOOLEAN /\ clientGone \in BOOLEAN
    /\ hp \in {"idle", "asked", "granted", "refused"}
    /\ status \in {0, 200, 422, 500}
    /\ up \in {"none", "open", "ended", "cut"}
    /\ failureCode \in {"none", "stream_failed", "upstream_error_status", "response_seal_failed"}
    /\ streamEnd \in {"none", "clean", "cap_hit", "upstream_error", "client_abort"}
    /\ settles \in 0..1 /\ terminals \in 0..2
    /\ dispatched \in 0..chunks /\ chunk \in 0..chunks

\* The dialect relay's sanitizer threw on a body nested too deeply, after the terminal
\* report (server.mjs:4803): the catch reports a second time.
SaidTwice == threw /\ route = "dialect" /\ status = 500

\* The one refusal after authorize that is not reported: the direct-only 400.
RefusedUnreported == route = "dialect" /\ outcome = "model_rejected" /\ terminals = 0

\* The contract of Hold: no order of client close, upstream end and failure makes a
\* handler send two settles, two terminal reports or one of each, or ask under an id
\* it has spoken about, save for the second report of SaidTwice.
HoldOf == INSTANCE Hold WITH
              hold <- hp, said <- settles + terminals - (IF SaidTwice THEN 1 ELSE 0)

ImplementsHold == HoldOf!Spec

\* 'clean' and 'cap_hit' are recorded for an answer delivered whole, at a moment when
\* the client is not known to be gone, and nothing contradicts them later: no
\* terminal report, and no failure but a decisions answer that could not be sealed.
CleanIsClean ==
    [][/\ outcome' \in {"clean", "cap_hit"} =>
            /\ terminals' = 0 /\ status' = 200
            /\ failureCode' \in {"none"} \cup
                  (IF route = "decisions" THEN {"response_seal_failed"} ELSE {})
       /\ outcome' # outcome /\ outcome' \in {"clean", "cap_hit"} => ~clientGone]_vars

\* Nothing is bought for a client known to be gone, except that a speech chunk whose
\* request was being built and sealed for tinfoil when the client left is still sent.
NoSpendForNobody == [][posts' > posts => ~clientGone \/ (route = "speech" /\ tinfoil)]_vars

\* A direct-only model's prompt reaches its own provider only: neither another direct
\* candidate nor OpenRouter, however the walk falls on.
NoSubstitution == directOnly => sentTo \subseteq {"own"}

\* server.mjs, speechRequest: a client that hangs up mid-way is billed for the chunks
\* it heard the start of, and at most for the one that was on its way.
SpeechBillsWhatWasHeard == settles = 1 /\ route = "speech" => dispatched \in heard..(heard + 1)

\* A granted request says its final word eventually, unless horse-power's answer was cut
\* off after its headers, or the upstream's while nobody listened.
FinalWordUnlessCut ==
    Granted ~> \/ settles + terminals >= 1 \/ RefusedUnreported \/ pc = "stuck"
               \/ (up = "cut" /\ ~upError /\ pc \in {"stream", "drain"})
=============================================================================
