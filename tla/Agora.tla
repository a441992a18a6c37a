--------------------------------- MODULE Agora ---------------------------------
(***************************************************************************)
(* The channel sip-proposals of the Agora.  An agent's cycle announces its *)
(* proposal through the Agora service, in a transaction of the service's   *)
(* own (agora/agora_service.py); if the service refuses or fails, it       *)
(* writes the message itself, in the session of the cycle                  *)
(* (agents/action_executor.py).  Genesis reads what is unread and moves    *)
(* its receipt (genesis/genesis.py), and then it judges the proposals:     *)
(* sip_voting_enabled is off here; where it is on, Governance does.        *)
(*                                                                         *)
(* Postgres dates a row by the start of its transaction.  A date is the    *)
(* number of its event: later events have greater dates.                   *)
(***************************************************************************)
EXTENDS Naturals, FiniteSets, FiniteSetsExt

CONSTANTS
    Posters,       \* the agents that propose
    RateLimit,     \* RATE_LIMIT
    ReadLimit,     \* limit of read_channel
    ReviewLimit,   \* proposals judged in one pass
    MaxDate,       \* bound: dated events
    MaxTroubles    \* bound: failures of the service, of a cycle and of Genesis

ASSUME AgoraAssumption ==
    /\ {RateLimit, ReadLimit, ReviewLimit} \subseteq Nat \ {0}
    /\ MaxDate \in Nat /\ MaxTroubles \in Nat

VARIABLES
    date,          \* the last date given
    channel,       \* messages committed to the channel, by their dates
    allowance,     \* allowance[a]: agora:rate:<a> in Redis
    session,       \* the agent's cycle in progress
    proposals,     \* proposals with status "proposed", by the date of their cycle
    receipt,       \* last_read_at of Genesis, 0 without a receipt
    monitor,       \* the step of _monitor_agora and what it has read
    seen,          \* history: messages Genesis has read
    overtaken,     \* history: messages committed too late for the read they belonged to
    dropped,       \* history: messages beyond the limit of the read they belonged to
    troubles

agoraVars == <<date, channel, allowance, session, proposals, receipt, monitor,
               seen, overtaken, dropped, troubles>>
read == <<seen, overtaken, dropped>>

NoSession == [pc |-> "none", by |-> "nobody", since |-> 0, message |-> 0]
NotReading == [pc |-> "idle", found |-> {}]

AgoraTypes ==
    /\ date \in 0..MaxDate
    /\ channel \subseteq 1..MaxDate
    /\ allowance \in [Posters -> 0..RateLimit]
    /\ session.pc \in {"none", "think", "post", "posted", "written"}
    /\ proposals \subseteq 1..MaxDate
    /\ receipt \in 0..MaxDate
    /\ monitor.pc \in {"idle", "unread", "read", "review"} /\ monitor.found \subseteq channel
    /\ troubles \in 0..MaxTroubles

AgoraInit ==
    /\ date = 0 /\ channel = {} /\ proposals = {} /\ receipt = 0
    /\ allowance = [a \in Posters |-> 0]
    /\ session = NoSession /\ monitor = NotReading
    /\ seen = {} /\ overtaken = {} /\ dropped = {} /\ troubles = 0

Dated == date < MaxDate /\ date' = date + 1
Trouble == troubles < MaxTroubles /\ troubles' = troubles + 1

Unread == {m \in channel : m > receipt}

\* A commit.  It is too late for a read that is over, whose receipt is written or
\* about to be.
Commit(m) ==
    /\ channel' = channel \cup {m}
    /\ overtaken' = IF m <= receipt \/ monitor.pc = "read" THEN overtaken \cup {m} ELSE overtaken
    /\ UNCHANGED <<seen, dropped>>

-------------------------------------------------------------------------------
(* An agent's cycle *)

BeginSession(a) ==
    /\ session = NoSession
    /\ Dated
    /\ session' = [pc |-> "think", by |-> a, since |-> date', message |-> 0]
    /\ UNCHANGED <<channel, allowance, proposals, receipt, monitor, read, troubles>>

\* _check_rate_limit: counted before the message is written.
Allowed(a) == allowance[a] < RateLimit
Counted(a) == allowance' = [allowance EXCEPT ![a] = @ + 1]

\* The transaction of post_message begins.  Without Redis there is no limit.
PostMessage ==
    /\ session.pc = "think" /\ Dated
    /\ \/ Allowed(session.by) /\ Counted(session.by) /\ UNCHANGED troubles
       \/ Trouble /\ UNCHANGED allowance
    /\ session' = [session EXCEPT !.pc = "post", !.message = date']
    /\ UNCHANGED <<channel, proposals, receipt, monitor, read>>

\* It commits: the message is there whatever becomes of the cycle.
CommitPost ==
    /\ session.pc = "post"
    /\ Commit(session.message)
    /\ session' = [session EXCEPT !.pc = "posted"]
    /\ UNCHANGED <<date, allowance, proposals, receipt, monitor, troubles>>

\* _write_message_directly, when the service has refused or failed, its channel
\* could not be made or its message not be stored.
WriteMessageDirectly ==
    /\ \/ session.pc = "think" /\ ~Allowed(session.by) /\ UNCHANGED troubles
       \/ session.pc \in {"think", "post"} /\ Trouble
    /\ session' = [session EXCEPT !.pc = "written", !.message = session.since]
    /\ UNCHANGED <<date, channel, allowance, proposals, receipt, monitor, read>>

\* The cycle commits, with the proposal and what it has written.
EndSession ==
    /\ session.pc \in {"posted", "written"}
    /\ proposals' = proposals \cup {session.since}
    /\ IF session.pc = "written" THEN Commit(session.message) ELSE UNCHANGED <<channel, read>>
    /\ session' = NoSession
    /\ UNCHANGED <<date, allowance, receipt, monitor, troubles>>

\* The cycle is rolled back.
LoseSession ==
    /\ session.pc \in {"posted", "written"}
    /\ Trouble
    /\ session' = NoSession
    /\ UNCHANGED <<date, channel, allowance, proposals, receipt, monitor, read>>

\* RATE_LIMIT_WINDOW after the last message that was allowed.
ExpireAllowance(a) ==
    /\ allowance[a] > 0
    /\ allowance' = [allowance EXCEPT ![a] = 0]
    /\ UNCHANGED <<date, channel, session, proposals, receipt, monitor, read, troubles>>

-------------------------------------------------------------------------------
(* Genesis: _monitor_agora *)

\* get_unread_counts.
CountUnread ==
    /\ monitor.pc = "idle" /\ Unread # {}
    /\ monitor' = [monitor EXCEPT !.pc = "unread"]
    /\ UNCHANGED <<date, channel, allowance, session, proposals, receipt, read, troubles>>

\* read_channel: the newest, up to the limit.
ReadChannel(since) ==
    LET S == {m \in channel : m > since}
    IN  {m \in S : Cardinality({n \in S : n > m}) < ReadLimit}

\* read_channel_since_last_read.
ReadUnread ==
    /\ monitor.pc = "unread"
    /\ LET found == ReadChannel(receipt)
       IN  /\ monitor' = [pc |-> "read", found |-> found]
           /\ seen' = seen \cup found
           /\ dropped' = dropped \cup (Unread \ found)
    /\ UNCHANGED <<date, channel, allowance, session, proposals, receipt, overtaken, troubles>>

\* Mutant: the receipt is moved before the messages are read.
MarkBeforeReading ==
    /\ monitor.pc = "idle" /\ Unread # {} /\ Dated
    /\ receipt' = date'
    /\ monitor' = [monitor EXCEPT !.pc = "unread"]
    /\ UNCHANGED <<channel, allowance, session, proposals, read, troubles>>

\* mark_read, up to now and not up to what was read.
MarkRead ==
    /\ monitor.pc = "read" /\ Dated
    /\ receipt' = date'
    /\ monitor' = [pc |-> "review", found |-> {}]
    /\ UNCHANGED <<channel, allowance, session, proposals, read, troubles>>

\* With voting off two of the proposals get their verdict; one whose call fails
\* waits for the next pass, as all do if the commit fails.
ReviewProposals ==
    /\ monitor.pc = "review"
    /\ \E S \in SUBSET proposals :
        /\ Cardinality(S) <= ReviewLimit
        /\ S = proposals \/ Cardinality(S) = ReviewLimit
        /\ \/ proposals' = proposals \ S /\ UNCHANGED troubles
           \/ \E failed \in SUBSET S \ {{}} : proposals' = proposals \ (S \ failed) /\ Trouble
    /\ monitor' = NotReading
    /\ UNCHANGED <<date, channel, allowance, session, receipt, read>>

\* The database fails Genesis, and its cycle ends.
LoseMonitor ==
    /\ monitor.pc \in {"unread", "read"}
    /\ Trouble
    /\ monitor' = NotReading
    /\ UNCHANGED <<date, channel, allowance, session, proposals, receipt, read>>

AgoraNext ==
    \/ \E a \in Posters : BeginSession(a) \/ ExpireAllowance(a)
    \/ PostMessage \/ CommitPost \/ WriteMessageDirectly \/ EndSession \/ LoseSession
    \/ CountUnread \/ ReadUnread \/ MarkRead \/ ReviewProposals \/ LoseMonitor

AgoraSpec == AgoraInit /\ [][AgoraNext]_agoraVars

-------------------------------------------------------------------------------
(* Properties *)

Missed(m) == m <= receipt /\ m \notin seen

\* Read receipts hide a message that nobody has read only if it was committed after
\* the read its date belongs to, or was beyond the limit of that read: a pass that
\* fails in any of its steps hides nothing.
MissedForAReason == \A m \in channel : Missed(m) => m \in overtaken \cup dropped

\* "Read only NEW messages since this agent last read this channel": no message is
\* passed over.  One that a cycle wrote in its own session is as old as the cycle.
EveryMessageIsRead == \A m \in channel : ~Missed(m)

\* "Process SIP proposals if any": when nothing is unread and nobody is at work, every
\* proposal has its verdict.
ProposalsAreJudged ==
    (monitor.pc = "idle" /\ Unread = {} /\ session = NoSession) => proposals = {}

===============================================================================
