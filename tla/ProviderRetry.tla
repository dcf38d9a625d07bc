---------------------------- MODULE ProviderRetry ----------------------------
(***************************************************************************)
(* The yfinance feed of one process: its semaphore, its downloads with     *)
(* their retries, and its metadata calls.                                  *)
(*                                                                         *)
(* YFinanceFeed builds one AsyncRetrying object, and every download        *)
(* iterates over that object.  Beginning an iteration replaces the state   *)
(* the object keeps, whoever else is in the middle of one; an attempt      *)
(* writes its result to the state that was current when it began, but what *)
(* a download does next is read from the state that is current then.       *)
(*                                                                         *)
(* Nothing in the retry loop suspends but a request and a back-off sleep,  *)
(* so a step runs from the end of one of these to the begin of the next.   *)
(***************************************************************************)
EXTENDS Integers, FiniteSets

CONSTANTS
    Downloads,      \* the calls of fetch_daily_bars, each made once
    Metas,          \* the calls of fetch_instrument_meta
    Concurrency,    \* slots of the feed's semaphore
    MaxAttempts     \* retry_max_attempts

ASSUME CallsAssumption == IsFiniteSet(Downloads) /\ IsFiniteSet(Metas)
ASSUME RetryAssumption ==
    Concurrency \in Nat \ {0} /\ MaxAttempts \in Nat \ {0}

VARIABLES
    calls,  \* how many downloads have begun; the last one's number
    retry,  \* AsyncRetrying._retry_state: whose it is, attempt_number, outcome
    dl,     \* the downloads
    meta    \* the metadata calls

vars == <<calls, retry, dl, meta>>

Outcomes == {"none", "ok", "retriable", "permanent"}
Active   == {"request", "asleep"}

Download ==
    [st : {"waiting", "done", "failed"} \cup Active,
     own : Nat,         \* its number, once it has begun
     held : Nat,        \* whose state its attempt reports to
     tries : Nat,       \* history: requests it has made
     err : Outcomes,    \* history: how its last request ended
     alone : BOOLEAN]   \* history: no other download was active beside it

-----------------------------------------------------------------------------
(* The provider.                                                           *)

(* What yf.download raises, by what its message tells.                     *)
Faults == {"rate_limit", "timeout", "connection", "server_error", "bad_symbol"}

(* _yf_download_sync goes by words in the message: what does not speak of  *)
(* a rate, 429, a timeout or a connection is permanent.  So is a server    *)
(* error (5xx), which FR-3.1 (Requirements.md:86) and the taxonomy of      *)
(* LLD 7 (docs/LLD.md:431) would have retried.                             *)
Kind(fault) ==
    IF fault \in {"rate_limit", "timeout", "connection"}
    THEN "retriable" ELSE "permanent"

-----------------------------------------------------------------------------
(* The semaphore is held across a download's retries and back-offs.        *)

ActiveDownloads == {d \in Downloads : dl[d].st \in Active}

InUse_LeaksOnFailure ==     \* mutant: a failed download keeps its slot
    Cardinality({d \in Downloads : dl[d].st \in Active \cup {"failed"}}
        \cup {m \in Metas : meta[m] = "request"})

InUse ==
    Cardinality(ActiveDownloads) + Cardinality({m \in Metas : meta[m] = "request"})

-----------------------------------------------------------------------------
(* tenacity.                                                               *)

FreshState(n) == [call |-> n, number |-> 1, outcome |-> "none"]

Exhausted_OffByOne(state) == state.number > MaxAttempts     \* mutant

Exhausted_OneTooFew(state) == state.number + 1 >= MaxAttempts   \* mutant

(* stop_after_attempt.                                                     *)
Exhausted(state) == state.number >= MaxAttempts

(* prepare_for_next_attempt.                                               *)
NextAttempt(state) ==
    [state EXCEPT !.number = state.number + 1, !.outcome = "none"]

(* What an attempt of d leaves in the current state: nothing, if another   *)
(* download has replaced the state it reports to.                          *)
Reported(d, outcome) ==
    IF dl[d].held = retry.call THEN [retry EXCEPT !.outcome = outcome] ELSE retry

(* What d, whose last request ended in err, does next.                     *)
AsksAgain(d, state, err) ==
    /\ state.outcome = "none"
    /\ retry' = state
    /\ dl' = [dl EXCEPT ![d] =
                [dl[d] EXCEPT !.st = "request", !.held = state.call,
                              !.tries = dl[d].tries + 1, !.err = err]]

BacksOff(d, state, err) ==
    /\ state.outcome = "retriable" /\ ~Exhausted(state)
    /\ retry' = NextAttempt(state)
    /\ dl' = [dl EXCEPT ![d] = [dl[d] EXCEPT !.st = "asleep", !.err = err]]

(* Re-raises a permanent or the last retriable error; or, when the state   *)
(* says that all is well, falls out of the loop and raises.                *)
GivesUp(d, state, err) ==
    /\ state.outcome # "none"
    /\ state.outcome = "retriable" => Exhausted(state)
    /\ retry' = state
    /\ dl' = [dl EXCEPT ![d] = [dl[d] EXCEPT !.st = "failed", !.err = err]]

(* It asks the current state, whose outcome counts also when it is another *)
(* download's.                                                             *)
Iterate(d, state, err) ==
    AsksAgain(d, state, err) \/ BacksOff(d, state, err) \/ GivesUp(d, state, err)

-----------------------------------------------------------------------------
(* fetch_daily_bars and _download_with_retry.                              *)

Begin(d) ==
    /\ dl[d].st = "waiting"
    /\ InUse < Concurrency
    /\ calls' = calls + 1
    /\ retry' = FreshState(calls + 1)
    /\ dl' = [e \in Downloads |->
                IF e = d THEN [st |-> "request", own |-> calls + 1,
                               held |-> calls + 1, tries |-> 1, err |-> "none",
                               alone |-> ActiveDownloads = {}]
                ELSE IF e \in ActiveDownloads THEN [dl[e] EXCEPT !.alone = FALSE]
                ELSE dl[e]]
    /\ UNCHANGED meta

(* An answer, be it empty, ends the download.                              *)
Succeeds(d) ==
    /\ dl[d].st = "request"
    /\ retry' = Reported(d, "ok")
    /\ dl' = [dl EXCEPT ![d] = [dl[d] EXCEPT !.st = "done", !.err = "ok"]]
    /\ UNCHANGED <<calls, meta>>

Fails(d) ==
    /\ dl[d].st = "request"
    /\ \E fault \in Faults :
         Iterate(d, Reported(d, Kind(fault)), Kind(fault))
    /\ UNCHANGED <<calls, meta>>

(* The back-off is over.                                                   *)
Wakes(d) ==
    /\ dl[d].st = "asleep"
    /\ Iterate(d, retry, dl[d].err)
    /\ UNCHANGED <<calls, meta>>

-----------------------------------------------------------------------------
(* fetch_instrument_meta: one request, whose errors are swallowed.         *)

BeginMeta(m) ==
    /\ meta[m] = "waiting"
    /\ InUse < Concurrency
    /\ meta' = [meta EXCEPT ![m] = "request"]
    /\ UNCHANGED <<calls, retry, dl>>

EndMeta(m) ==
    /\ meta[m] = "request"
    /\ meta' = [meta EXCEPT ![m] = "done"]
    /\ UNCHANGED <<calls, retry, dl>>

-----------------------------------------------------------------------------

Init ==
    /\ calls = 0
    /\ retry = [call |-> 0, number |-> 1, outcome |-> "none"]
    /\ dl = [d \in Downloads |-> [st |-> "waiting", own |-> 0, held |-> 0,
                                  tries |-> 0, err |-> "none", alone |-> FALSE]]
    /\ meta = [m \in Metas |-> "waiting"]

StepOf(d) == Begin(d) \/ Succeeds(d) \/ Fails(d) \/ Wakes(d)

MetaStep(m) == BeginMeta(m) \/ EndMeta(m)

Next ==
    \/ \E d \in Downloads : StepOf(d)
    \/ \E m \in Metas : MetaStep(m)

(* asyncio resumes what can go on; a request is answered or times out.     *)
Fairness ==
    /\ \A d \in Downloads : WF_vars(StepOf(d))
    /\ \A m \in Metas : WF_vars(MetaStep(m))

Spec     == Init /\ [][Next]_vars
FairSpec == Spec /\ Fairness

-----------------------------------------------------------------------------
(* Properties.                                                             *)

(* Among the types: the state of the retry loop never counts further than  *)
(* to the last attempt allowed (stop_after_attempt, yfinance_feed.py:61).  *)
TypeOK ==
    /\ calls \in Nat
    /\ retry \in [call : 0..calls, number : 1..MaxAttempts, outcome : Outcomes]
    /\ dl \in [Downloads -> Download]
    /\ meta \in [Metas -> {"waiting", "request", "done"}]

(* A provider in trouble is not asked for ever: a download makes at most   *)
(* MaxAttempts requests for each state it may have met, its own and those  *)
(* of the downloads that began after it, although its failures are not     *)
(* counted while it reports to a state that was replaced.                  *)
AttemptsBounded ==
    \A d \in Downloads :
        dl[d].st # "waiting" =>
            dl[d].tries <= MaxAttempts * (calls - dl[d].own + 1)

(* A reason to fail, as the code classifies errors: MaxAttempts requests   *)
(* of its own that met errors which _yf_download_sync takes for retriable, *)
(* or one request that met any other error (yfinance_feed.py:59-66,        *)
(* 129-132).  The documents classify otherwise: see Kind.                  *)
Earned(d) ==
    \/ dl[d].err = "permanent"
    \/ dl[d].err = "retriable" /\ dl[d].tries = MaxAttempts

(* A download that no other one overlapped fails for such a reason only:   *)
(* what tenacity is configured for is what happens to it.                  *)
AloneEarnsFailure ==
    \A d \in Downloads : dl[d].alone /\ dl[d].st = "failed" => Earned(d)

(* The same of every download.  Not so: a sibling's success, its permanent *)
(* error or its attempts are taken for the download's own.                 *)
EveryFailureIsEarned ==
    \A d \in Downloads : dl[d].st = "failed" => Earned(d)

(* Every call ends, whatever the provider answers and however the calls    *)
(* disturb each other's retries: no slot of the semaphore is held for ever.*)
CallsEnd ==
    /\ \A d \in Downloads : <>(dl[d].st \in {"done", "failed"})
    /\ \A m \in Metas : <>(meta[m] = "done")
=============================================================================
