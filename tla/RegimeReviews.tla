----------------------------- MODULE RegimeReviews -----------------------------
(***************************************************************************)
(* The queue of severity 5 events that Genesis must review.  It is the     *)
(* column regime_review_status of wire_events: the digester inserts rows   *)
(* as pending, a Genesis cycle counts an attempt on each row it takes,     *)
(* looks at the market regime, runs its other steps and marks the rows it  *)
(* took as reviewed.  Any step may raise and Genesis may be restarted.     *)
(***************************************************************************)
EXTENDS Integers, FiniteSets

CONSTANTS
    Events,        \* severity 5 events, numbered by occurred_at
    MaxAttempts,   \* REGIME_REVIEW_MAX_ATTEMPTS
    BatchLimit,    \* REGIME_REVIEW_BATCH_LIMIT
    Threshold      \* REGIME_REVIEW_QUERY_FAILURE_ALERT_THRESHOLD

ASSUME ReviewAssumption ==
    /\ Events \subseteq Nat
    /\ MaxAttempts \in Nat \ {0}
    /\ BatchLimit \in Nat \ {0}
    /\ Threshold \in Nat \ {0}

VARIABLES
    regimeReview,   \* regime_review_status, "none" before the row exists
    attempts,       \* attempt_count
    cycle,          \* the step of the Genesis cycle and the ids it consumed
    queryFailures   \* _regime_review_query_failure_count, counted up to Threshold

reviewVars == <<regimeReview, attempts, cycle, queryFailures>>

NoCycle == [step |-> "idle", ids |-> {}]

\* A severity 5 event: "skipped" is for the others.
ReviewStatus == {"none", "pending", "reviewed", "failed"}

ReviewTypes ==
    /\ regimeReview \in [Events -> ReviewStatus]
    /\ attempts \in [Events -> Nat]
    /\ cycle \in [step : {"idle", "regime", "assessed", "unassessed"}, ids : SUBSET Events]
    /\ queryFailures \in 0..Threshold

ReviewInit ==
    /\ regimeReview = [e \in Events |-> "none"]
    /\ attempts = [e \in Events |-> 0]
    /\ cycle = NoCycle
    /\ queryFailures = 0

-------------------------------------------------------------------------------

\* The digester commits an event that is not a duplicate.
InsertEvent(e) ==
    /\ regimeReview[e] = "none"
    /\ regimeReview' = [regimeReview EXCEPT ![e] = "pending"]
    /\ UNCHANGED <<attempts, cycle, queryFailures>>

Pending == {e \in Events : regimeReview[e] = "pending"}
\* Mutant: one attempt more before a row fails.
ExhaustedLater == {e \in Pending : attempts[e] > MaxAttempts}

Exhausted == {e \in Pending : attempts[e] >= MaxAttempts}

Consumable == {e \in Pending : attempts[e] < MaxAttempts}

\* The batch of a cycle: the first BatchLimit rows by occurred_at.
Batch == {e \in Consumable : Cardinality({f \in Consumable : f < e}) < BatchLimit}

\* _consume_pending_regime_reviews: exhausted rows fail, every row of the batch
\* has an attempt counted, and those whose processing raises are not handed on.
ConsumePending ==
    /\ cycle.step = "idle"
    /\ regimeReview' = [e \in Events |-> IF e \in Exhausted THEN "failed" ELSE regimeReview[e]]
    /\ attempts' = [e \in Events |-> IF e \in Batch THEN attempts[e] + 1 ELSE attempts[e]]
    /\ \E raised \in SUBSET Batch : cycle' = [step |-> "regime", ids |-> Batch \ raised]
    /\ queryFailures' = 0

\* A query or the commit raises: nothing is kept and the cycle goes on with no ids.
ConsumeFails ==
    /\ cycle.step = "idle"
    /\ cycle' = [step |-> "regime", ids |-> {}]
    /\ queryFailures' = IF queryFailures < Threshold THEN queryFailures + 1 ELSE queryFailures
    /\ UNCHANGED <<regimeReview, attempts>>

\* Step 3.
DetectRegime ==
    /\ cycle.step = "regime"
    /\ cycle' = [cycle EXCEPT !.step = "assessed"]
    /\ UNCHANGED <<regimeReview, attempts, queryFailures>>

\* Step 3 raises: it has a handler of its own and the cycle goes on.
DetectRegimeFails ==
    /\ cycle.step = "regime"
    /\ cycle' = [cycle EXCEPT !.step = "unassessed"]
    /\ UNCHANGED <<regimeReview, attempts, queryFailures>>

PastRegime == cycle.step \in {"assessed", "unassessed"}

\* Steps 4 to 11 are done: _mark_regime_reviews_reviewed, by id alone.
MarkReviewed ==
    /\ PastRegime
    /\ regimeReview' = [e \in Events |-> IF e \in cycle.ids THEN "reviewed" ELSE regimeReview[e]]
    /\ cycle' = NoCycle
    /\ UNCHANGED <<attempts, queryFailures>>

\* One of the steps 4 to 12 raises: the rows stay as they are.
CycleFails ==
    /\ PastRegime
    /\ cycle' = NoCycle
    /\ UNCHANGED <<regimeReview, attempts, queryFailures>>

RestartGenesis ==
    /\ cycle' = NoCycle
    /\ queryFailures' = 0
    /\ UNCHANGED <<regimeReview, attempts>>

-------------------------------------------------------------------------------

RunCycle ==
    \/ ConsumePending \/ ConsumeFails
    \/ DetectRegime \/ DetectRegimeFails
    \/ MarkReviewed \/ CycleFails

ReviewNext == (\E e \in Events : InsertEvent(e)) \/ RunCycle \/ RestartGenesis

\* Genesis's loop never ends, and it is not always the database that fails.
ReviewSpec ==
    /\ ReviewInit /\ [][ReviewNext]_reviewVars
    /\ WF_reviewVars(RunCycle) /\ SF_reviewVars(ConsumePending)

-------------------------------------------------------------------------------
(* Properties *)

\* A row that was reviewed or failed stays so: the update by id alone never
\* revives a row that the attempt cap has failed, nor the cap a reviewed one.
VerdictsAreFinal ==
    [][\A e \in Events : regimeReview[e] \in {"reviewed", "failed"}
            => regimeReview'[e] = regimeReview[e]]_reviewVars

\* "Any exception in steps 3-11 leaves the rows pending": a cycle marks as
\* reviewed only what it held when it detected the regime.  An exception in step 3
\* is swallowed.
ReviewedWasAssessed ==
    [][\A e \in Events : regimeReview[e] # "reviewed" /\ regimeReview'[e] = "reviewed"
            => cycle.step = "assessed"]_reviewVars

===============================================================================
