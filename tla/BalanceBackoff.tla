--------------------------- MODULE BalanceBackoff ---------------------------
(***************************************************************************)
(* The memory of horse-power's balance backoff (balanceBackoff.mjs), with  *)
(* the requests of authorizeWithHorsepower that consult and fill it.       *)
(* Credentials are hashed; a key here is the credential that wins.         *)
(***************************************************************************)
EXTENDS WorkerClock, Lists

CONSTANTS
    Keys,           \* presented credentials
    Asks,           \* authorize round trips that may be open at once
    PerSecond,      \* ticks in a second
    MaxRetryAfter,  \* MAX_RETRY_AFTER_SECONDS
    MaxTracked      \* MAX_TRACKED_CREDENTIALS

ASSUME BackoffAssumption ==
    /\ PerSecond \in Nat \ {0} /\ MaxRetryAfter \in Nat \ {0} /\ MaxTracked \in Nat \ {0}
    /\ "none" \notin Keys

VARIABLES
    held,       \* the Map, in insertion order: [key, until]
    ask,        \* ask[a]: the credential a round trip was opened for, or "none"
    answer,     \* what was last answered locally: [key, seconds]
    told        \* told[k]: the end of the window hp's last answer for k opened

backoff == <<held, ask, answer, told>>

BackoffInit ==
    /\ held = <<>>
    /\ ask = [a \in Asks |-> "none"]
    /\ answer = [key |-> "none", seconds |-> 0]
    /\ told = [k \in Keys |-> 0]

-----------------------------------------------------------------------------
HeldKeys == {held[i].key : i \in DOMAIN held}

Entry(k) == CHOOSE e \in {held[i] : i \in DOMAIN held} : e.key = k

Live(e) == now < e.until

\* The header wins, the body field is the fallback, a value below 1 is unusable (0
\* stands for all of them, and for null).
retryAfterSeconds(header, body) ==
    LET usable == IF header >= 1 THEN header ELSE body
    IN  IF usable >= 1 THEN IF usable > MaxRetryAfter THEN MaxRetryAfter ELSE usable ELSE 0

\* Mutant of MadeRoom: the oldest goes, expired or not.
MadeRoomBlindly == IF Len(held) < MaxTracked THEN held
                   ELSE SubSeq(held, Len(held) - MaxTracked + 2, Len(held))

\* At the cap: sweep, then evict from the oldest.
MadeRoom ==
    LET swept == Kept(held, {i \in DOMAIN held : Live(held[i])})
    IN  IF Len(held) < MaxTracked THEN held
        ELSE IF Len(swept) < MaxTracked THEN swept
        ELSE SubSeq(swept, Len(swept) - MaxTracked + 2, Len(swept))

\* Map.set keeps the place of a key that is there.
remember(k, seconds) ==
    LET entry == [key |-> k, until |-> now + seconds * PerSecond]
    IN  held' = IF k \in HeldKeys
                THEN [i \in DOMAIN held |-> IF held[i].key = k THEN entry ELSE held[i]]
                ELSE Append(MadeRoom, entry)

\* What is left, rounded up, never below 1.
SecondsLeft(e) ==
    LET whole == (e.until - now + PerSecond - 1) \div PerSecond
    IN  IF whole < 1 THEN 1 ELSE whole

-----------------------------------------------------------------------------
\* authorizeWithHorsepower starts: lookup answers locally, or hp is asked.  An
\* expired entry is deleted on the way.
Present(a, k) ==
    /\ ask[a] = "none"
    /\ \/ /\ k \in HeldKeys /\ Live(Entry(k))
          /\ answer' = [key |-> k, seconds |-> SecondsLeft(Entry(k))]
          /\ UNCHANGED <<held, ask>>
       \/ /\ ~(k \in HeldKeys /\ Live(Entry(k)))
          /\ held' = Kept(held, {i \in DOMAIN held : held[i].key # k})
          /\ ask' = [ask EXCEPT ![a] = k]
          /\ UNCHANGED answer
    /\ UNCHANGED <<told, clock>>

\* hp's answer comes: a balance backoff that names a usable wait is remembered;
\* anything else leaves what is held alone.
AuthorizeAnswered(a) ==
    /\ ask[a] # "none"
    /\ ask' = [ask EXCEPT ![a] = "none"]
    /\ \/ UNCHANGED <<held, told>>
       \/ \E header, body \in 0..(MaxRetryAfter + 1) :
             LET seconds == retryAfterSeconds(header, body)
             IN  /\ seconds # 0
                 /\ remember(ask[a], seconds)
                 /\ told' = [told EXCEPT ![ask[a]] = now + PerSecond *
                       LET named == IF header >= 1 THEN header ELSE body
                       IN  IF named <= MaxRetryAfter THEN named ELSE MaxRetryAfter]
    /\ UNCHANGED <<answer, clock>>

BackoffNext ==
    \/ \E a \in Asks, k \in Keys : Present(a, k)
    \/ \E a \in Asks : AuthorizeAnswered(a)

-----------------------------------------------------------------------------
\* hp's window and nothing else: a credential is answered locally only inside the
\* window its last backoff answer opened, at most MAX_RETRY_AFTER_SECONDS long, and
\* is never told a shorter wait than what is left of it, nor a second more; answers
\* of concurrent round trips and evictions at the cap do not change that.
LocalAnswersAsTold ==
    answer' # answer =>
        LET left == told[answer'.key] - now
        IN  /\ left > 0 /\ left <= MaxRetryAfter * PerSecond
            /\ answer'.seconds * PerSecond >= left
            /\ (answer'.seconds - 1) * PerSecond < left

\* The map is bounded, and a window that has not ended is forgotten only when the cap
\* is full of such windows.
LiveEvictedAtCapOnly ==
    /\ Len(held') <= MaxTracked
    /\ \A i \in DOMAIN held :
          Live(held[i]) /\ held[i].key \notin {held'[j].key : j \in DOMAIN held'} =>
              Len(held) = MaxTracked /\ \A j \in DOMAIN held : Live(held[j])
=============================================================================
