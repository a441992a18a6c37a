------------------------------- MODULE Library -------------------------------
(***************************************************************************)
(* The library (src/src/library): agents contribute texts, two peers or    *)
(* Genesis review them, what is approved is published; Genesis adds a      *)
(* record of a strategy when one survives, which is published two days     *)
(* later.                                                                  *)
(*                                                                         *)
(* Reviews arrive in the agents process.  Once an hour Genesis looks at    *)
(* every contribution that is in review for more than a day - and since a  *)
(* decision never changes the status, at those that were decided as well.  *)
(* Decision, publication and reputation effects are transactions of their  *)
(* own, and either process may die between two of them.                    *)
(***************************************************************************)
EXTENDS Integers, FiniteSets

CONSTANTS
    Contributions, Records,
    Submitter,    \* Submitter[c]: the agent that contributes c
    Reviewers,    \* agents that may review, by status and reputation
    Genesis,      \* reviewer id 0
    Nobody,       \* a reviewer or a decision that is NULL
    MaxDeaths     \* bound: processes that die

ASSUME LibraryAssumption ==
    /\ Genesis \notin Reviewers /\ Nobody \notin Reviewers \union {Genesis}
    /\ MaxDeaths \in Nat

VARIABLES
    contribution, \* LibraryContribution
    overdue,      \* contributions created more than 24 hours ago
    entries,      \* LibraryEntry rows published for a contribution, counted up to 2
    record,       \* strategy records: none, waiting, ripe, published
    agentTask,    \* what the agents process is in the middle of
    genesisTask,  \* what the hourly maintenance is in the middle of
    cut,          \* contributions with all reviews whose resolution a death cut off
    deaths

libraryVars == <<contribution, overdue, entries, record, agentTask, genesisTask, cut, deaths>>

Decisions == {"approve", "reject"}
NewContribution == [status |-> "none", r1 |-> Nobody, r2 |-> Nobody, d1 |-> Nobody,
                    d2 |-> Nobody, final |-> Nobody, effects |-> FALSE]
NoTask == [step |-> "idle", todo |-> {}]

LibraryTypes ==
    /\ \A c \in Contributions :
        /\ contribution[c].status \in {"none", "pending_review", "in_review"}
        /\ {contribution[c].r1, contribution[c].r2} \subseteq Reviewers \union {Genesis, Nobody}
        /\ {contribution[c].d1, contribution[c].d2} \subseteq Decisions \union {Nobody}
        /\ contribution[c].final \in {"approved", "rejected", Nobody}
    /\ overdue \subseteq Contributions /\ cut \subseteq Contributions
    /\ entries \in [Contributions -> 0 .. 2]
    /\ record \in [Records -> {"none", "waiting", "ripe", "published"}]
    /\ deaths \in 0 .. MaxDeaths

LibraryInit ==
    /\ contribution = [c \in Contributions |-> NewContribution]
    /\ overdue = {} /\ cut = {}
    /\ entries = [c \in Contributions |-> 0]
    /\ record = [e \in Records |-> "none"]
    /\ agentTask = NoTask /\ genesisTask = NoTask
    /\ deaths = 0

-----------------------------------------------------------------------------
(* Contributions. *)

SubmitContribution(c) ==
    /\ agentTask = NoTask
    /\ contribution[c].status = "none"
    /\ contribution' = [contribution EXCEPT ![c].status = "pending_review"]
    /\ agentTask' = [step |-> "assign", todo |-> {c}]
    /\ UNCHANGED <<overdue, entries, record, genesisTask, cut, deaths>>

(* Genesis alone in a small colony or without two eligible agents. *)
AssignReviewers(c) ==
    /\ agentTask.step = "assign" /\ c \in agentTask.todo
    /\ \E r1 \in Reviewers \union {Genesis}, r2 \in Reviewers \union {Nobody} :
        /\ r1 = Genesis <=> r2 = Nobody
        /\ r1 # r2 /\ Submitter[c] \notin {r1, r2}
        /\ contribution' = [contribution EXCEPT ![c].status = "in_review",
                                                ![c].r1 = r1, ![c].r2 = r2]
    /\ agentTask' = NoTask
    /\ UNCHANGED <<overdue, entries, record, genesisTask, cut, deaths>>

(* A reviewer may answer late, and may answer twice. *)
SubmitReview(c, a, d) ==
    /\ agentTask = NoTask
    /\ \/ /\ contribution[c].r1 = a
          /\ contribution' = [contribution EXCEPT ![c].d1 = d]
       \/ /\ contribution[c].r1 # a /\ contribution[c].r2 = a
          /\ contribution' = [contribution EXCEPT ![c].d2 = d]
    /\ agentTask' = [step |-> "resolve", todo |-> {c}]
    /\ UNCHANGED <<overdue, entries, record, genesisTask, cut, deaths>>

Verdict(d) == IF d = "approve" THEN "approved" ELSE "rejected"

(* Agreement, or the tiebreaker of Genesis, which an API call decides. *)
Outcomes(x) ==
    IF x.r2 = Nobody THEN {Verdict(x.d1)}
    ELSE IF x.d1 = x.d2 THEN {Verdict(x.d1)}
    ELSE {"approved", "rejected"}

Reviewed(x) == x.d1 # Nobody /\ (x.r2 # Nobody => x.d2 # Nobody)

ResolveContribution(c) ==
    /\ agentTask.step = "resolve" /\ c \in agentTask.todo
    /\ \/ /\ ~Reviewed(contribution[c])
          /\ agentTask' = NoTask
          /\ UNCHANGED contribution
       \/ /\ Reviewed(contribution[c])
          /\ \E f \in Outcomes(contribution[c]) :
                contribution' = [contribution EXCEPT ![c].final = f]
          /\ agentTask' = [agentTask EXCEPT !.step = "publish"]
    /\ UNCHANGED <<overdue, entries, record, genesisTask, cut, deaths>>

(* What the code reads after its commit is the row as it is then. *)
Published(c) ==
    [entries EXCEPT ![c] = IF contribution[c].final = "approved" /\ @ < 2 THEN @ + 1 ELSE @]

PublishContribution(c) ==
    /\ agentTask.step = "publish" /\ c \in agentTask.todo
    /\ entries' = Published(c)
    /\ agentTask' = [agentTask EXCEPT !.step = "effects"]
    /\ UNCHANGED <<contribution, overdue, record, genesisTask, cut, deaths>>

(* The effects are logged; nobody's reputation changes. *)
ApplyEffects(c) ==
    /\ agentTask.step = "effects" /\ c \in agentTask.todo
    /\ contribution' = [contribution EXCEPT ![c].effects = TRUE]
    /\ agentTask' = NoTask
    /\ UNCHANGED <<overdue, entries, record, genesisTask, cut, deaths>>

Age(c) ==
    /\ contribution[c].status # "none" /\ c \notin overdue
    /\ overdue' = overdue \union {c}
    /\ UNCHANGED <<contribution, entries, record, agentTask, genesisTask, cut, deaths>>

-----------------------------------------------------------------------------
(* The hourly maintenance of Genesis. *)

BeginUndecidedMaintenance ==
    /\ genesisTask = NoTask
    /\ LET timedOut == {c \in overdue : contribution[c].status = "in_review"
                                       /\ contribution[c].final = Nobody}
       IN /\ timedOut # {} \/ \E e \in Records : record[e] = "ripe"
          /\ genesisTask' = [step |-> IF timedOut = {} THEN "records" ELSE "timeout",
                             todo |-> timedOut]
    /\ UNCHANGED <<contribution, overdue, entries, record, agentTask, cut, deaths>>

BeginMaintenance ==
    /\ genesisTask = NoTask
    /\ LET timedOut == {c \in overdue : contribution[c].status = "in_review"}
       IN /\ timedOut # {} \/ \E e \in Records : record[e] = "ripe"
          /\ genesisTask' = [step |-> IF timedOut = {} THEN "records" ELSE "timeout",
                             todo |-> timedOut]
    /\ UNCHANGED <<contribution, overdue, entries, record, agentTask, cut, deaths>>

Reassigned(x) == [x EXCEPT !.r1 = Genesis, !.r2 = Nobody]

(* One review alone decides; with none - or with two - Genesis takes over. *)
TimedOut(x) ==
    CASE x.d1 # Nobody /\ x.d2 = Nobody -> [x EXCEPT !.final = Verdict(x.d1)]
      [] x.d1 = Nobody /\ x.d2 # Nobody -> [x EXCEPT !.final = Verdict(x.d2)]
      [] OTHER -> Reassigned(x)

HandleTimeout(c) ==
    /\ genesisTask.step = "timeout" /\ c \in genesisTask.todo
    /\ contribution' = [contribution EXCEPT ![c] = TimedOut(@)]
    /\ genesisTask' = [step |-> "decided", todo |-> genesisTask.todo, on |-> c]
    /\ UNCHANGED <<overdue, entries, record, agentTask, cut, deaths>>

AfterTimeout(c) ==
    LET rest == genesisTask.todo \ {c}
    IN [step |-> IF rest = {} THEN "records" ELSE "timeout", todo |-> rest]

(* resolved_at is set with the first decision and stays. *)
PublishTimedOut(c) ==
    /\ genesisTask.step = "decided" /\ c = genesisTask.on
    /\ entries' = Published(c)
    /\ contribution' = [contribution EXCEPT ![c].effects = @ \/ contribution[c].final # Nobody]
    /\ genesisTask' = AfterTimeout(c)
    /\ UNCHANGED <<overdue, record, agentTask, cut, deaths>>

PublishDelayedEntries ==
    /\ genesisTask.step = "records"
    /\ record' = [e \in Records |-> IF record[e] = "ripe" THEN "published" ELSE record[e]]
    /\ genesisTask' = NoTask
    /\ UNCHANGED <<contribution, overdue, entries, agentTask, cut, deaths>>

CreateStrategyRecord(e) ==
    /\ genesisTask = NoTask /\ record[e] = "none"
    /\ record' = [record EXCEPT ![e] = "waiting"]
    /\ UNCHANGED <<contribution, overdue, entries, agentTask, genesisTask, cut, deaths>>

Ripen(e) ==
    /\ record[e] = "waiting"
    /\ record' = [record EXCEPT ![e] = "ripe"]
    /\ UNCHANGED <<contribution, overdue, entries, agentTask, genesisTask, cut, deaths>>

-----------------------------------------------------------------------------
(* Either process dies; what it had committed stays. *)
AgentsDie ==
    /\ deaths < MaxDeaths /\ agentTask # NoTask
    /\ cut' = IF agentTask.step = "resolve"
              THEN cut \union {c \in agentTask.todo : contribution[c].d1 # Nobody
                                                     /\ contribution[c].d2 # Nobody}
              ELSE cut
    /\ agentTask' = NoTask /\ deaths' = deaths + 1
    /\ UNCHANGED <<contribution, overdue, entries, record, genesisTask>>

GenesisDies ==
    /\ deaths < MaxDeaths /\ genesisTask # NoTask
    /\ genesisTask' = NoTask /\ deaths' = deaths + 1
    /\ UNCHANGED <<contribution, overdue, entries, record, agentTask, cut>>

AgentsProceed ==
    \E c \in Contributions : AssignReviewers(c) \/ ResolveContribution(c)
                             \/ PublishContribution(c) \/ ApplyEffects(c)

GenesisMaintains ==
    \/ BeginMaintenance \/ PublishDelayedEntries
    \/ \E c \in Contributions : HandleTimeout(c) \/ PublishTimedOut(c)

LibraryNext ==
    \/ \E c \in Contributions : \/ SubmitContribution(c) \/ Age(c)
                                \/ \E a \in Reviewers, d \in Decisions : SubmitReview(c, a, d)
    \/ \E e \in Records : CreateStrategyRecord(e) \/ Ripen(e)
    \/ AgentsProceed \/ GenesisMaintains \/ AgentsDie \/ GenesisDies

Passing == (\E c \in Contributions : Age(c)) \/ (\E e \in Records : Ripen(e))

LibraryFairness ==
    WF_libraryVars(AgentsProceed) /\ WF_libraryVars(GenesisMaintains) /\ WF_libraryVars(Passing)

LibrarySpec == LibraryInit /\ [][LibraryNext]_libraryVars /\ LibraryFairness

-----------------------------------------------------------------------------
(* A contribution that somebody reviewed is decided in the end, if only by    *)
(* the timeout - unless the process died between the second review and the    *)
(* resolution: the timeout takes two reviews for none.  What was approved is  *)
(* published, whichever process decided and whatever died before the          *)
(* publication, unless a late review turns the decision.                      *)
ReviewedIsSettled ==
    \A c \in Contributions :
        /\ contribution[c].d1 # Nobody \/ contribution[c].d2 # Nobody ~>
              contribution[c].final # Nobody \/ c \in cut
        /\ contribution[c].final = "approved" ~>
              entries[c] > 0 \/ contribution[c].final = "rejected"

===============================================================================
