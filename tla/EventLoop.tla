------------------------------ MODULE EventLoop ------------------------------
(***************************************************************************)
(* The event loop of the daemon (hex_eventd.py) over the events table      *)
(* (db.py): producers insert rows, the daemon polls the unprocessed rows   *)
(* in id order and takes each one through every policy, rule and action    *)
(* before it writes the evaluation log and marks the row processed.        *)
(*                                                                         *)
(* There is one step per database commit or external effect, so that a     *)
(* crash, a locked database or a raising handler can come between any two  *)
(* of them.  What a condition decides and whether a rate limit admits the  *)
(* policy are choices of the environment here: PolicyLimits models the     *)
(* rate limit, max_fires and the hot reload, Deferred the delayed emits,   *)
(* Scheduler the timer events.                                             *)
(***************************************************************************)
EXTENDS Naturals, Sequences

CONSTANTS
    Kinds,               \* event types, each with the payload that goes with it
    Malformed,           \* the kinds whose payload is not valid JSON
    Policies,            \* the loaded policies, in file order: sequences of rules
    Limited,             \* indices of the policies that have a rate_limit
    Shell,               \* an action that inserts no event (shell, notify, ...)
    Broken,              \* an action whose handler raises
    MaxPublish,          \* bound: events inserted by other processes
    MaxFaults            \* bound: crashes and locked-database errors

\* A rule reacts to the kinds in `on', raises while it is evaluated on the
\* kinds in `raises', and runs `acts' in order: each inserts an event of the
\* kind it names, or is Shell or Broken.
Actions == Kinds \cup {Shell, Broken}
Rules == [on : SUBSET Kinds, raises : SUBSET Kinds, acts : Seq(Actions)]

ASSUME PoliciesAssumption ==
    /\ Malformed \subseteq Kinds
    /\ Policies \in Seq(Seq(Rules))
    /\ Limited \subseteq 1 .. Len(Policies)
    /\ Shell \notin Kinds /\ Broken \notin Kinds /\ Shell # Broken

ASSUME BoundsAssumption ==
    MaxPublish \in Nat /\ MaxFaults \in Nat

VARIABLES
    events,              \* the rows in the table: kind of each id
    unprocessed,         \* ids of the rows with processed_at IS NULL
    evalLog,             \* policy_eval_log: <<event, policy, rule, outcome>>
    pc,                  \* where the daemon is
    batch,               \* rows of the poll not started yet
    cur,                 \* row in progress
    pol, rule, act,      \* loop counters over policies, rules and actions
    rows,                \* eval_rows collected for cur: <<policy, rule, outcome>>
    published, faults,   \* counters for the bounds
    \* the history is of the rows in the table: an id given again starts afresh
    ran, rerun,          \* history: actions run, and run again, as <<event, policy, rule, action>>
    cutShort,            \* history: events one of whose attempts was abandoned
    unlogged             \* history: events whose evaluation rows could not be written

table == <<events, unprocessed>>
memory == <<batch, cur, pol, rule, act, rows>>
history == <<ran, rerun, cutShort, unlogged>>
vars == <<table, evalLog, pc, memory, published, faults, history>>

Ids == DOMAIN events
Processed == Ids \ unprocessed   \* the rows with processed_at set
Outcomes == {"taken", "not_taken", "rate_limited"}
Working == pc \in {"policy", "rule", "action", "log", "mark"}

Matches(p, r, k) == k \in Policies[p][r].on
Matching(p, k) == {r \in 1 .. Len(Policies[p]) : Matches(p, r, k)}
Acts(p, r) == Policies[p][r].acts

TypeOK ==
    /\ Ids \subseteq Nat \ {0} /\ events \in [Ids -> Kinds]
    /\ unprocessed \subseteq Ids
    /\ evalLog \subseteq Ids \X Nat \X Nat \X Outcomes
    /\ pc \in {"down", "idle", "next", "policy", "rule", "action", "log", "mark"}
    /\ batch \subseteq Ids
    /\ cur \in Nat /\ pol \in Nat /\ rule \in Nat /\ act \in Nat
    /\ rows \subseteq Nat \X Nat \X Outcomes
    /\ published \in Nat /\ faults \in Nat
    /\ ran \subseteq Ids \X Nat \X Nat \X Nat
    /\ rerun \subseteq ran
    /\ cutShort \subseteq Ids /\ unlogged \subseteq Ids

Init ==
    /\ events = <<>> /\ unprocessed = {}
    /\ evalLog = {}
    /\ pc = "down"
    /\ batch = {} /\ cur = 0 /\ pol = 0 /\ rule = 0 /\ act = 0 /\ rows = {}
    /\ published = 0 /\ faults = 0
    /\ ran = {} /\ rerun = {} /\ cutShort = {} /\ unlogged = {}

-----------------------------------------------------------------------------
(* The table                                                               *)

\* INTEGER PRIMARY KEY without AUTOINCREMENT: one above the highest id in the
\* table, so that the id of a deleted row may be given again.
NewIds == {i \in {1} \cup {j + 1 : j \in Ids} : \A j \in Ids : j < i}

InsertAt(i, k) ==
    /\ events' = [j \in Ids \cup {i} |-> IF j = i THEN k ELSE events[j]]
    /\ unprocessed' = unprocessed \cup {i}

\* Mutant of Insert: any id that is free, also one below those in the table.
InsertAnywhere(k) == \E i \in ({1} \cup {j + 1 : j \in Ids}) \ Ids : InsertAt(i, k)

Insert(k) == \E i \in NewIds : InsertAt(i, k)

MarkProcessed(i) ==
    /\ unprocessed' = unprocessed \ {i}
    /\ UNCHANGED events

\* hex_emit.py, a file watcher or another source inserts a row at any time.
Publish(k) ==
    /\ published < MaxPublish
    /\ published' = published + 1
    /\ Insert(k)
    /\ UNCHANGED <<evalLog, pc, memory, faults, history>>

\* The rows past the retention are deleted, processed or not.  Which these are
\* is a choice of the clock: created_at is wall-clock time and need not follow
\* the ids.
DeleteRows(old) ==
    /\ pc = "idle"
    /\ events' = [i \in Ids \ old |-> events[i]]
    /\ unprocessed' = unprocessed \ old
    /\ ran' = {a \in ran : a[1] \notin old} /\ rerun' = {a \in rerun : a[1] \notin old}
    /\ cutShort' = cutShort \ old /\ unlogged' = unlogged \ old
    /\ UNCHANGED <<pc, memory, published, faults>>

\* Mutant of Janitor: the log rows of the deleted events stay behind.
JanitorKeepsLog(old) == DeleteRows(old) /\ UNCHANGED evalLog

\* Log rows without an event go in the same commit.
Janitor(old) ==
    /\ DeleteRows(old)
    /\ evalLog' = {e \in evalLog : e[1] \in Ids'}

-----------------------------------------------------------------------------
(* One poll, and one event taken through the policies                      *)

Poll ==
    /\ pc = "idle" /\ unprocessed # {}
    /\ batch' = unprocessed
    /\ pc' = "next"
    /\ UNCHANGED <<table, evalLog, cur, pol, rule, act, rows,
                   published, faults, history>>

EndBatch ==
    /\ pc = "next" /\ batch = {}
    /\ pc' = "idle"
    /\ UNCHANGED <<table, evalLog, memory, published, faults, history>>

\* Mutant of IsNext: get_unprocessed without ORDER BY.
IsAny(i) == i \in batch

IsNext(i) == i \in batch /\ \A j \in batch : i <= j

\* A payload that does not parse: the row is marked without any evaluation.
DropMalformed(i) ==
    /\ pc = "next" /\ IsNext(i) /\ events[i] \in Malformed
    /\ MarkProcessed(i)
    /\ batch' = batch \ {i}
    /\ UNCHANGED <<evalLog, pc, cur, pol, rule, act, rows,
                   published, faults, history>>

\* Mutant of StartEvent: the row is left in the batch.
StartEventAgain(i) ==
    /\ pc = "next" /\ IsNext(i) /\ events[i] \notin Malformed
    /\ cur' = i /\ pol' = 1 /\ rows' = {}
    /\ pc' = "policy"
    /\ UNCHANGED <<table, evalLog, batch, rule, act, published, faults, history>>

StartEvent(i) ==
    /\ pc = "next" /\ IsNext(i) /\ events[i] \notin Malformed
    /\ batch' = batch \ {i}
    /\ cur' = i /\ pol' = 1 /\ rows' = {}
    /\ pc' = "policy"
    /\ UNCHANGED <<table, evalLog, rule, act, published, faults, history>>

\* No rule of the policy matches the event type.
SkipPolicy ==
    /\ pc = "policy" /\ pol <= Len(Policies)
    /\ Matching(pol, events[cur]) = {}
    /\ pol' = pol + 1
    /\ UNCHANGED <<table, evalLog, pc, batch, cur, rule, act, rows,
                   published, faults, history>>

\* Mutant of SuppressPolicy: break where the code has continue.
SuppressTheRest ==
    /\ pc = "policy" /\ pol \in Limited
    /\ Matching(pol, events[cur]) # {}
    /\ rows' = rows \cup {<<pol, r, "rate_limited">> : r \in Matching(pol, events[cur])}
    /\ pol' = Len(Policies) + 1
    /\ UNCHANGED <<table, evalLog, pc, batch, cur, rule, act,
                   published, faults, history>>

\* The rate limit suppresses the whole policy; each matching rule gets a row.
SuppressPolicy ==
    /\ pc = "policy" /\ pol \in Limited
    /\ Matching(pol, events[cur]) # {}
    /\ rows' = rows \cup {<<pol, r, "rate_limited">> : r \in Matching(pol, events[cur])}
    /\ pol' = pol + 1
    /\ UNCHANGED <<table, evalLog, pc, batch, cur, rule, act,
                   published, faults, history>>

AdmitPolicy ==
    /\ pc = "policy" /\ pol <= Len(Policies)
    /\ Matching(pol, events[cur]) # {}
    /\ rule' = 1 /\ pc' = "rule"
    /\ UNCHANGED <<table, evalLog, batch, cur, pol, act, rows,
                   published, faults, history>>

\* The loop leaves a policy after its last rule (record_fire and the limits
\* on the number of fires are in PolicyLimits).
EndPolicy ==
    /\ pc = "rule" /\ rule > Len(Policies[pol])
    /\ pol' = pol + 1 /\ rule' = 0 /\ pc' = "policy"
    /\ UNCHANGED <<table, evalLog, batch, cur, act, rows,
                   published, faults, history>>

EndPolicies ==
    /\ pc = "policy" /\ pol > Len(Policies)
    /\ pc' = "log"
    /\ UNCHANGED <<table, evalLog, memory, published, faults, history>>

AtRule == pc = "rule" /\ rule <= Len(Policies[pol])

\* Mutant of SkipRule: a rule of another type stops the loop over the rules.
SkipNoRule ==
    /\ AtRule /\ ~Matches(pol, rule, events[cur])
    /\ UNCHANGED vars

SkipRule ==
    /\ AtRule /\ ~Matches(pol, rule, events[cur])
    /\ rule' = rule + 1
    /\ UNCHANGED <<table, evalLog, pc, batch, cur, pol, act, rows,
                   published, faults, history>>

Evaluable == /\ AtRule /\ Matches(pol, rule, events[cur])
             /\ events[cur] \notin Policies[pol][rule].raises

\* The conditions fail, or the rule's ttl has expired.
RejectRule ==
    /\ Evaluable
    /\ rows' = rows \cup {<<pol, rule, "not_taken">>}
    /\ rule' = rule + 1
    /\ UNCHANGED <<table, evalLog, pc, batch, cur, pol, act,
                   published, faults, history>>

TakeRule ==
    /\ Evaluable
    /\ rows' = rows \cup {<<pol, rule, "taken">>}
    /\ act' = 1 /\ pc' = "action"
    /\ UNCHANGED <<table, evalLog, batch, cur, pol, rule,
                   published, faults, history>>

AtAction(a) == pc = "action" /\ act <= Len(Acts(pol, rule)) /\ a = Acts(pol, rule)[act]

\* run_action_with_retry returns, with success or with an error: either way
\* the loop goes on to the next action.  The history tells a second run of
\* the same action for the same event from the first.
RecordRun ==
    /\ rerun' = rerun \cup (ran \cap {<<cur, pol, rule, act>>})
    /\ ran' = ran \cup {<<cur, pol, rule, act>>}
    /\ act' = act + 1
    /\ UNCHANGED <<cutShort, unlogged>>

RunShell ==
    /\ AtAction(Shell)
    /\ RecordRun
    /\ UNCHANGED <<table, evalLog, pc, batch, cur, pol, rule, rows,
                   published, faults>>

RunEmit(k) ==
    /\ AtAction(k)
    /\ RecordRun
    /\ Insert(k)
    /\ UNCHANGED <<evalLog, pc, batch, cur, pol, rule, rows,
                   published, faults>>

\* Mutant of EndRule: the last action is left out.
EndRuleEarly ==
    /\ pc = "action" /\ act >= Len(Acts(pol, rule))
    /\ rule' = rule + 1 /\ act' = 0 /\ pc' = "rule"
    /\ UNCHANGED <<table, evalLog, batch, cur, pol, rows,
                   published, faults, history>>

EndRule ==
    /\ pc = "action" /\ act > Len(Acts(pol, rule))
    /\ rule' = rule + 1 /\ act' = 0 /\ pc' = "rule"
    /\ UNCHANGED <<table, evalLog, batch, cur, pol, rows,
                   published, faults, history>>

\* log_policy_evals: one commit for all the rows of the event.
LogEvals ==
    /\ pc = "log"
    /\ evalLog' = evalLog \cup {<<cur, row[1], row[2], row[3]>> : row \in rows}
    /\ pc' = "mark"
    /\ UNCHANGED <<table, memory, published, faults, history>>

\* The locals of _process_event_policies die with the call.
ReturnFromEvent == cur' = 0 /\ pol' = 0 /\ rule' = 0 /\ act' = 0 /\ rows' = {}

\* The write fails: the error is logged and the event is still marked.
LogEvalsFails ==
    /\ pc = "log" /\ rows # {} /\ faults < MaxFaults
    /\ faults' = faults + 1
    /\ unlogged' = unlogged \cup {cur}
    /\ pc' = "mark"
    /\ UNCHANGED <<table, evalLog, memory, published, ran, rerun, cutShort>>

Mark ==
    /\ pc = "mark"
    /\ MarkProcessed(cur)
    /\ ReturnFromEvent
    /\ pc' = "next"
    /\ UNCHANGED <<evalLog, batch, published, faults, history>>

-----------------------------------------------------------------------------
(* Attempts cut short                                                      *)

\* The exception leaves the loop over the batch: what is left of the batch
\* and of the event's rows is forgotten, the row stays unprocessed.
Abandon ==
    /\ batch' = {} /\ ReturnFromEvent
    /\ cutShort' = IF Working THEN cutShort \cup {cur} ELSE cutShort
    /\ UNCHANGED <<ran, rerun, unlogged>>

Raise ==
    /\ \/ /\ AtRule /\ Matches(pol, rule, events[cur])
          /\ events[cur] \in Policies[pol][rule].raises
       \/ AtAction(Broken)
    /\ Abandon
    /\ pc' = "idle"
    /\ UNCHANGED <<table, evalLog, published, faults>>

\* "database is locked" at a commit outside log_policy_evals.
Locked ==
    /\ \/ pc \in {"policy", "rule", "action", "mark"}
       \/ \E i \in batch : pc = "next" /\ IsNext(i) /\ events[i] \in Malformed
    /\ faults < MaxFaults
    /\ faults' = faults + 1
    /\ Abandon
    /\ pc' = "idle"
    /\ UNCHANGED <<table, evalLog, published>>

Crash ==
    /\ pc # "down" /\ faults < MaxFaults
    /\ faults' = faults + 1
    /\ pc' = "down"
    /\ Abandon
    /\ UNCHANGED <<table, evalLog, published>>

Restart ==
    /\ pc = "down"
    /\ pc' = "idle"
    /\ UNCHANGED <<table, evalLog, memory, published, faults, history>>

-----------------------------------------------------------------------------
Daemon ==
    \/ Poll \/ EndBatch
    \/ \E i \in batch : DropMalformed(i) \/ StartEvent(i)
    \/ SkipPolicy \/ SuppressPolicy \/ AdmitPolicy \/ EndPolicy \/ EndPolicies
    \/ SkipRule \/ RejectRule \/ TakeRule \/ EndRule
    \/ RunShell \/ \E k \in Kinds : RunEmit(k)
    \/ LogEvals \/ Mark \/ Raise

Environment ==
    \/ \E k \in Kinds : Publish(k)
    \/ \E old \in SUBSET Ids \ {{}} : Janitor(old)
    \/ LogEvalsFails \/ Locked \/ Crash

Next == Daemon \/ Restart \/ Environment

Spec == Init /\ [][Next]_vars

\* The daemon is a single loop that never blocks on another process for ever,
\* and launchd restarts it (KeepAlive).
FairSpec == Spec /\ WF_vars(Daemon) /\ WF_vars(Restart)

-----------------------------------------------------------------------------
(* Properties                                                              *)

\* Strict order of service: the daemon never marks an event processed while
\* an older event is still waiting, whatever is published in between and
\* however often the loop is cut short (get_unprocessed orders by id, an
\* exception abandons the rest of the batch).
ServedInOrder == \A i \in Processed, j \in unprocessed : i < j

\* A processed event has an evaluation row for every rule that matches it,
\* unless its payload was malformed or the write of the rows failed: no
\* policy is passed over because of what an earlier one did.
EveryRuleAccounted ==
    \A i \in Processed :
        \/ events[i] \in Malformed \/ i \in unlogged
        \/ \A p \in 1 .. Len(Policies) : \A r \in Matching(p, events[i]) :
               \E o \in Outcomes : <<i, p, r, o>> \in evalLog

\* The log never claims what did not happen: a row with action_taken = 1 is
\* written only after every action of the rule ran for that event.
LoggedMeansRun ==
    \A e \in evalLog : e[4] = "taken" =>
        \A k \in 1 .. Len(Acts(e[2], e[3])) : <<e[1], e[2], e[3], k>> \in ran

\* An action runs twice for the same event only if an attempt at that event
\* was cut short: redelivery has no other cause.
RepeatedOnlyIfCutShort == \A a \in rerun : a[1] \in cutShort

\* No action is ever run on behalf of an event that is already processed, or
\* whose row the janitor has deleted.
OnlyWaitingEventsRun ==
    [][\A a \in (ran' \ ran) \cup (rerun' \ rerun) : a[1] \in unprocessed]_vars

\* The bus the clients see: the daemon implements the abstract queue.
Bus == INSTANCE EventQueue WITH pending <- unprocessed

ImplementsQueue == Bus!QueueSpec

\* An event whose evaluation, or one of whose actions, may raise.
MayRaise(k) ==
    \E p \in 1 .. Len(Policies) : \E r \in Matching(p, k) :
        k \in Policies[p][r].raises \/ \E a \in 1 .. Len(Acts(p, r)) : Acts(p, r)[a] = Broken

\* Every event, published or emitted by a rule, is eventually served (or
\* expires), although the daemon may crash and find the database locked a
\* bounded number of times; unless it waits behind an event that may raise,
\* where every poll stops until the janitor deletes that event.
EveryEventServed ==
    \A i \in 1 .. 2 * (MaxPublish + MaxFaults) :
        i \in unprocessed ~> \/ i \notin unprocessed
                             \/ \E j \in unprocessed : j <= i /\ MayRaise(events[j])
=============================================================================
