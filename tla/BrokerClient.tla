---------------------------- MODULE BrokerClient ----------------------------
(***************************************************************************)
(* GrowwClient between the trader and the broker's API: the rate limiter   *)
(* under its lock, the retries of _safe_call, the re-authentication, and   *)
(* what the caller is told in the end.  The threads that fetch the spot    *)
(* candles call it at the same time; a call that places or cancels an      *)
(* order comes from the main thread, while no other thread runs.           *)
(*                                                                         *)
(* A session with the broker is "good" until it expires; then the object   *)
(* of the SDK that holds it, and every method bound to that object, is     *)
(* "stale".  Time is counted in ticks of the limiter's window of a second. *)
(***************************************************************************)
EXTENDS Naturals, Sequences, SequencesExt

CONSTANTS
    Callers,     \* threads that may be in the client at the same time
    Free,        \* no thread: not one of them
    MaxRps,      \* max_rps: calls let through in a window
    MaxRetries,  \* max_retries of _safe_call
    Window       \* bound: ticks in a window

ASSUME BrokerClientAssumption ==
    /\ Free \notin Callers
    /\ {MaxRps, MaxRetries, Window} \subseteq Nat \ {0}

VARIABLES
    client,  \* self.client: "none", or whether its session is "good" or "stale"
    call,    \* the call of each thread, see Calls
    lock,    \* who holds _lock of the limiter
    stamps,  \* _timestamps, as ages in ticks, up to Window
    recent   \* history: ages of the calls let through within the last window

limiterVars == <<lock, stamps, recent>>
vars == <<client, call, limiterVars>>

Kinds == {"fetch", "place", "cancel"}
Calls == [at : {"idle", "gate", "throttled", "send", "auth", "retry", "raise", "ok"},
          kind : Kinds,
          bound : {"good", "stale"},  \* session of the method that is called
          sleep : 0..Window,          \* what is left of the limiter's sleep
          attempt : 0..MaxRetries,
          effects : Nat,     \* times the broker did what was asked
          lost : BOOLEAN,    \* an answer got lost after the broker had done it
          told : BOOLEAN]    \* the caller got an answer, and not None

NoCall == [at |-> "idle", kind |-> "fetch", bound |-> "good", sleep |-> 0,
           attempt |-> 0, effects |-> 0, lost |-> FALSE, told |-> FALSE]

Init ==
    /\ client \in {"none", "good"}
    /\ call = [c \in Callers |-> NoCall]
    /\ lock = Free /\ stamps = <<>> /\ recent = <<>>

At(c, place) == call[c].at = place
Goes(c, place) == call' = [call EXCEPT ![c].at = place]

-----------------------------------------------------------------------------
(* The wrappers: place_order, cancel_order, get_historical_candles, ...    *)

\* ThreadPoolExecutor runs the fetches; its with-statement waits for them.
MayCall(c, k) ==
    /\ At(c, "idle")
    /\ \A d \in Callers \ {c} :
           At(d, "idle") \/ (k = "fetch" /\ call[d].kind = "fetch")

Begin(c, k) ==
    /\ MayCall(c, k) /\ client # "none"
    /\ call' = [call EXCEPT ![c] = [NoCall EXCEPT !.at = "gate", !.kind = k, !.bound = client]]
    /\ UNCHANGED <<client, limiterVars>>

\* if not self.client: self._authenticate(); if that fails, so does the call.
BeginAuthenticates(c, k) ==
    /\ MayCall(c, k) /\ client = "none"
    /\ client' = "good"
    /\ call' = [call EXCEPT ![c] = [NoCall EXCEPT !.at = "gate", !.kind = k]]
    /\ UNCHANGED limiterVars

Returns(c, answer) ==
    call' = [call EXCEPT ![c] = [@ EXCEPT !.at = "idle", !.bound = "good",
                                          !.attempt = 0, !.told = answer]]
\* When _safe_call raises, the wrapper returns None, or what stands for it.
ToldAnyway(c) == Returns(c, TRUE) \* variant: success is taken for granted
ToldNothing(c) == Returns(c, FALSE)

-----------------------------------------------------------------------------
(* _RateLimiter.acquire                                                    *)

\* [t for t in s if now - t < 1.0]: the oldest call is the first of the list, so
\* it is a prefix that goes.
InWindow(s) ==
    LET first == CHOOSE k \in 1..(Len(s) + 1) :
                     /\ \A i \in 1..(k - 1) : s[i] >= Window
                     /\ k <= Len(s) => s[k] < Window
    IN  SubSeq(s, first, Len(s))

LetThrough(c) ==
    /\ stamps' = Append(InWindow(stamps), 0)
    /\ recent' = Append(recent, 0)
    /\ Goes(c, "send")

Unlocked(c) == TRUE \* variant: no lock
HasLock(c) == lock = Free

Acquire(c) ==
    /\ At(c, "gate") /\ HasLock(c)
    /\ Len(InWindow(stamps)) < MaxRps
    /\ LetThrough(c)
    /\ UNCHANGED <<client, lock>>

\* It sleeps with the lock, until the oldest call is out of the window.
Throttle(c) ==
    /\ At(c, "gate") /\ HasLock(c)
    /\ Len(InWindow(stamps)) >= MaxRps
    /\ lock' = c /\ stamps' = InWindow(stamps)
    /\ call' = [call EXCEPT ![c].at = "throttled", ![c].sleep = Window - stamps'[1]]
    /\ UNCHANGED <<client, recent>>
WakeUp(c) ==
    /\ At(c, "throttled") /\ call[c].sleep = 0
    /\ LetThrough(c) /\ lock' = Free
    /\ UNCHANGED client

-----------------------------------------------------------------------------
(* The broker, as the classes of answers that _safe_call tells apart.      *)

Answer(c, next, done, gone) ==
    /\ At(c, "send")
    /\ call' = [call EXCEPT ![c].at = next, ![c].effects = @ + done,
                            ![c].lost = @ \/ gone]
    /\ UNCHANGED <<client, limiterVars>>

Accepts(c) == call[c].bound = "good" /\ (call[c].kind = "cancel" => call[c].effects = 0)

Unauthorized(c) == call[c].bound = "stale" /\ Answer(c, "auth", 0, FALSE)
Accepted(c) == Accepts(c) /\ Answer(c, "ok", 1, FALSE)
AnswerLost(c) == Accepts(c) /\ Answer(c, "retry", 1, TRUE)
Outage(c) == Answer(c, "retry", 0, FALSE)
\* The text of a refusal is searched for "500", "token", ... like any other.
Refused(c) ==
    /\ call[c].bound = "good" /\ call[c].kind # "fetch"
    /\ \E class \in {"auth", "retry", "raise"} : Answer(c, class, 0, FALSE)

-----------------------------------------------------------------------------
(* _safe_call after the answer.                                            *)

Success(c) ==
    /\ At(c, "ok")
    /\ Returns(c, TRUE)
    /\ UNCHANGED <<client, limiterVars>>

CountsFromOne(c) == call[c].attempt = 1 \* variant: attempts counted from one
FirstAttempt(c) == call[c].attempt = 0

Again(c) == call' = [call EXCEPT ![c].at = "gate", ![c].attempt = @ + 1]

\* The new session is a new object; api_func stays bound to the old one.
Reauthenticate(c) ==
    /\ At(c, "auth") /\ FirstAttempt(c)
    /\ client' = "good"
    /\ Again(c)
    /\ UNCHANGED limiterVars
ReauthenticationFails(c) ==
    /\ At(c, "auth") /\ FirstAttempt(c)
    /\ ToldNothing(c)
    /\ UNCHANGED <<client, limiterVars>>
Raises(c) ==
    /\ At(c, "raise") \/ (At(c, "auth") /\ ~FirstAttempt(c))
    /\ ToldNothing(c)
    /\ UNCHANGED <<client, limiterVars>>

Retry(c) ==
    /\ At(c, "retry") /\ call[c].attempt < MaxRetries
    /\ Again(c)
    /\ UNCHANGED <<client, limiterVars>>
Exhausted(c) ==
    /\ At(c, "retry") /\ call[c].attempt = MaxRetries
    /\ ToldNothing(c)
    /\ UNCHANGED <<client, limiterVars>>

-----------------------------------------------------------------------------
(* Time, and the end of a session at the broker.                           *)

Older(s) == [i \in DOMAIN s |-> Min({s[i] + 1, Window})]
Tick ==
    /\ stamps' = Older(stamps)
    /\ recent' = InWindow(Older(recent))
    /\ call' = [c \in Callers |->
                   [call[c] EXCEPT !.sleep = IF @ > 0 THEN @ - 1 ELSE 0]]
    /\ UNCHANGED <<client, lock>>

Expire ==
    /\ client = "good" /\ client' = "stale"
    /\ call' = [c \in Callers |->
                   [call[c] EXCEPT !.bound = IF At(c, "idle") THEN @ ELSE "stale"]]
    /\ UNCHANGED limiterVars

-----------------------------------------------------------------------------
Limiter(c) == Acquire(c) \/ Throttle(c) \/ WakeUp(c)
Api(c) == Unauthorized(c) \/ Accepted(c) \/ AnswerLost(c) \/ Outage(c) \/ Refused(c)
SafeCall(c) ==
    \/ Success(c) \/ Reauthenticate(c) \/ ReauthenticationFails(c)
    \/ Raises(c) \/ Retry(c) \/ Exhausted(c)

Next ==
    \/ \E c \in Callers :
           \/ \E k \in Kinds : Begin(c, k) \/ BeginAuthenticates(c, k)
           \/ Limiter(c) \/ Api(c) \/ SafeCall(c)
    \/ Tick \/ Expire

Spec == Init /\ [][Next]_vars

\* A call that has begun goes on and the clock ticks; the trader polls; and
\* neither the authentication nor the first attempt of a call fails for ever.
FairSpec ==
    /\ Spec
    /\ WF_vars(Tick)
    /\ \A c \in Callers :
           /\ WF_vars(Limiter(c)) /\ WF_vars(Api(c)) /\ WF_vars(SafeCall(c))
           /\ WF_vars(\E k \in Kinds : Begin(c, k) \/ BeginAuthenticates(c, k))
           /\ SF_vars(FirstAttempt(c) /\ Unauthorized(c))
           /\ SF_vars(Reauthenticate(c))

-----------------------------------------------------------------------------
(* Properties.                                                             *)

\* Type invariant.
TypeOK ==
    /\ client \in {"none", "good", "stale"}
    /\ call \in [Callers -> Calls]
    /\ lock \in Callers \cup {Free}
    /\ {stamps, recent} \subseteq Seq(0..Window)

\* The threads that fetch at the same time, and their retries, stay within the
\* budget together: no window of a second, wherever it begins, has more calls
\* than max_rps, although the limiter forgets, sleeps and re-reads its list
\* (types included).
RateHolds == TypeOK /\ Len(recent) <= MaxRps

\* What the caller is told is what the broker did, through retries, refusals
\* and re-authentication: an order was placed, or cancelled, once if the call
\* returned an answer and not at all if it returned None.  An answer that got
\* lost is the exception (see OneOrderPerCall).
AnswerTells ==
    \A c \in Callers :
        At(c, "idle") /\ ~call[c].lost => call[c].effects = IF call[c].told THEN 1 ELSE 0

\* An expired session is replaced while the trader polls: no thread keeps the
\* lock, and no retry keeps a call from ending and the next from using the new
\* session.
SessionHeals == client # "good" ~> client = "good"

-----------------------------------------------------------------------------
(* Said of the program and not upheld by it.  No run checks these (README). *)

\* "Idempotent Retries": a call of place_order places one order at most.
OneOrderPerCall ==
    \A c \in Callers : call[c].kind = "place" => call[c].effects <= 1

\* "Retry once after re-authentication": the retry uses the new session.
RetriesWithNewSession ==
    [][\A c \in Callers :
           At(c, "auth") /\ call'[c].at = "gate" => call'[c].bound = "good"]_vars

=============================================================================
