---------------------------- MODULE ResourceTier ----------------------------
(***************************************************************************)
(* The resource monitor of engram and the callers that feed it.  It keeps  *)
(* the failures of the last window and a backoff that grows with each one, *)
(* and answers with a tier; remember() does not embed and a question does  *)
(* not reach the model on the BASIC tier.  force_tier, which only an       *)
(* operator's code would call, is left out, and READONLY with it.          *)
(*                                                                         *)
(* Time passes in steps of the cooldown; ages are relative to now.         *)
(***************************************************************************)
EXTENDS Integers, Sequences, FiniteSets, SequencesExt

CONSTANTS
    FailureThreshold,   \* _failure_threshold, 3
    Cooldown,    \* _cooldown_seconds, 60, in steps
    Window,      \* _window_seconds, 300, in steps
    BackoffMax,  \* _BACKOFF_MAX in steps; smaller here than in the code
    MaxFailures  \* bound: failures kept

ASSUME TierAssumption ==
    /\ FailureThreshold \in Nat \ {0} /\ Cooldown \in Nat \ {0} /\ Window \in Nat \ {0}
    /\ BackoffMax \in Nat \ {0} /\ MaxFailures \in Nat

VARIABLES
    failures,  \* _recent_failures: a sequence of [age, kind]
    row,       \* _consecutive_failures, up to FailureThreshold + 1
    backoff,   \* what is left until _recovery_cooldown_until
    up         \* the embedding and language models answer

tierVars == <<failures, row, backoff, up>>

FailureKinds == {"rate_limit", "transient", "embedding", "skipped"}

TierInit == failures = <<>> /\ row = 0 /\ backoff = 0 /\ up = TRUE

----------------------------------------------------------------------------
Power(k)    == IF 2^k > BackoffMax THEN BackoffMax ELSE 2^k
Jittered(b) == {b - b \div 4, b, b + b \div 4}

Recorded(kind) == Append(failures, [age |-> 0, kind |-> kind])

record_failure(kind) ==
    /\ Len(failures) < MaxFailures
    /\ failures' = Recorded(kind)
    /\ row' = IF row > FailureThreshold THEN row ELSE row + 1
    /\ backoff' \in Jittered(Power(row'))

\* The failures stay: only the window forgets them.
record_success == row' = 0 /\ backoff' = 0 /\ UNCHANGED failures

InWindow(fs) == SelectSeq(fs, LAMBDA f : f.age < Window)

get_tier ==
    LET recent == InWindow(failures)
        count  == Len(recent)
        calm   == Last(recent).age > Cooldown
    IN  CASE count = 0                                       -> "FULL"
          [] count > 0 /\ backoff = 0 /\ calm /\ count < FailureThreshold -> "STANDARD"
          [] count >= FailureThreshold                              -> "BASIC"
          [] OTHER                                           -> "STANDARD"

can_use_llm == get_tier \in {"FULL", "STANDARD"}

----------------------------------------------------------------------------
\* remember(): on the BASIC tier the embedding is skipped by raising an error, and the handler of
\* the error records it like any other.
Remember ==
    /\ CASE get_tier = "BASIC"        -> record_failure("skipped")
         [] get_tier # "BASIC" /\ up  -> record_success
         [] OTHER                     -> record_failure("embedding")
    /\ UNCHANGED up

\* A question or a summary: one call of the model, which is made again after a transient error.
Ask ==
    /\ can_use_llm
    /\ IF up THEN record_success
             ELSE \E kind \in {"rate_limit", "transient"} : record_failure(kind)
    /\ UNCHANGED up

Outage == up' = ~up /\ UNCHANGED <<failures, row, backoff>>

\* A step of time; the list is pruned when it is read.
Tick ==
    /\ failures' = InWindow([i \in 1..Len(failures) |-> [failures[i] EXCEPT !.age = @ + 1]])
    /\ backoff' = IF backoff > 0 THEN backoff - 1 ELSE 0
    /\ failures # <<>> \/ backoff > 0
    /\ UNCHANGED <<row, up>>

TierNext == Remember \/ Ask \/ Outage \/ Tick

\* Time passes.
TierSpec == TierInit /\ [][TierNext]_tierVars /\ WF_tierVars(Tick)

----------------------------------------------------------------------------
\* "Auto-recovers after cooldown" (resource_tier.py:38): once the models answer for good, the tier
\* is not BASIC for ever.
TierAutoRecovers == <>[]up => []<>(get_tier # "BASIC")
=============================================================================
