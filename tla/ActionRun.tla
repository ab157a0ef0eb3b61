------------------------------ MODULE ActionRun ------------------------------
(***************************************************************************)
(* One event and one rule that reacts to it, from the conditions           *)
(* (conditions.py) through every action with its retries and its           *)
(* on_success and on_failure sub-actions (run_action_with_retry and        *)
(* _dispatch_sub_actions of hex_eventd.py) to the processed mark.          *)
(* EventLoop takes an action for one step; here is what the step hides.    *)
(*                                                                         *)
(* There is one step per commit or effect: a crash or a locked database    *)
(* cuts the delivery short and the event is delivered again from the       *)
(* start.  The conditions are evaluated anew, and a count() condition then *)
(* sees the events that the first delivery inserted.                       *)
(***************************************************************************)
EXTENDS Integers, Sequences, SequencesExt, FiniteSetsExt

CONSTANTS
    Kinds,               \* event types
    None,                \* what an action that inserts no event inserts
    Conditions,          \* of the rule, in order
    Actions,             \* of the rule, in order
    MaxFaults,           \* bound: crashes and locked-database errors
    MaxPublish,          \* bound: events inserted by other processes
    MaxExpire            \* bound: events that leave the window of the conditions

\* count(kind, window) < below; a condition on the payload, whose verdict is the
\* same every time; or the exit status of a command.
Condition ==
    [type : {"count"}, kind : Kinds, below : Nat]
    \cup [type : {"payload"}, holds : BOOLEAN] \cup [type : {"shell"}]

\* An emit inserts its event; any other action, an emit whose template does not
\* render included, may fail.  A recipe in the old format is not validated: an
\* action of it may be of a type that has no handler.
Action == [known : BOOLEAN, emits : Kinds \cup {None}, retries : Nat,
           on_success : Seq(Kinds), on_failure : Seq(Kinds)]

ASSUME RuleAssumption ==
    /\ None \notin Kinds
    /\ Conditions \in Seq(Condition) /\ Actions \in Seq(Action)
    /\ MaxFaults \in Nat /\ MaxPublish \in Nat /\ MaxExpire \in Nat

VARIABLES
    count,               \* events of each kind inside the window
    pc,                  \* waiting, condition, run, row, hook, mark, processed
    details,             \* verdicts of the conditions so far
    act, attempt,        \* the loops over actions and attempts (from 0)
    result,              \* status of the last run of the handler
    rows,                \* action_log: labels of this delivery, by action
    called,              \* sub-actions dispatched in this delivery, by action
    faults, published, expired,   \* counters for the bounds
    inserted,            \* history: places in the rule that have inserted their event
    again                \* history: those that have inserted it twice

progress == <<details, act, attempt, result, rows, called>>
bounds == <<faults, published, expired>>
history == <<inserted, again>>
vars == <<count, pc, progress, bounds, history>>

Label == {"success", "error", "retry"} \X Nat
Verdict == {"passed", "failed", "not_evaluated"}

TypeOK ==
    /\ count \in [Kinds -> Nat]
    /\ pc \in {"waiting", "condition", "run", "row", "hook", "mark", "processed"}
    /\ details \in Seq(Verdict) /\ Len(details) <= Len(Conditions)
    /\ act \in 1 .. Len(Actions) + 1
    /\ attempt \in Nat /\ (act <= Len(Actions) => attempt <= Actions[act].retries)
    /\ result \in {"success", "error"}
    /\ rows \in [DOMAIN Actions -> Seq(Label)]
    /\ called \in [DOMAIN Actions -> Seq(Kinds)]
    /\ faults \in Nat /\ published \in Nat /\ expired \in Nat
    /\ again \subseteq inserted

Nothing == [a \in DOMAIN Actions |-> <<>>]

Init ==
    /\ count = [k \in Kinds |-> 0] /\ pc = "waiting"
    /\ details = <<>> /\ act = 1 /\ attempt = 0 /\ result = "success"
    /\ rows = Nothing /\ called = Nothing
    /\ faults = 0 /\ published = 0 /\ expired = 0
    /\ inserted = {} /\ again = {}

-----------------------------------------------------------------------------
(* Other processes, and time                                               *)

Publish(k) ==
    /\ published < MaxPublish /\ published' = published + 1
    /\ count' = [count EXCEPT ![k] = @ + 1]
    /\ UNCHANGED <<pc, progress, faults, expired, history>>

\* The window of the conditions moves on.
Expire(k) ==
    /\ count[k] > 0 /\ expired < MaxExpire
    /\ count' = [count EXCEPT ![k] = @ - 1] /\ expired' = expired + 1
    /\ UNCHANGED <<pc, progress, faults, published, history>>

-----------------------------------------------------------------------------
(* The conditions                                                          *)

Deliver ==
    /\ pc = "waiting" /\ pc' = "condition"
    /\ UNCHANGED <<count, progress, bounds, history>>

\* Mutant of Outcomes: a count() that is off by one.
OutcomesAtMost(c) ==
    CASE c.type = "count" -> {count[c.kind] <= c.below}
      [] c.type = "payload" -> {c.holds}
      [] c.type = "shell" -> BOOLEAN

Outcomes(c) ==
    CASE c.type = "count" -> {count[c.kind] < c.below}
      [] c.type = "payload" -> {c.holds}
      [] c.type = "shell" -> BOOLEAN

Evaluating == pc = "condition" /\ Len(details) < Len(Conditions)
NextCondition == Conditions[Len(details) + 1]

Passes ==
    /\ Evaluating /\ TRUE \in Outcomes(NextCondition)
    /\ details' = Append(details, "passed")
    /\ UNCHANGED <<count, pc, act, attempt, result, rows, called, bounds, history>>

\* The first condition that fails ends the evaluation; the rest is recorded as
\* not evaluated.
Fails ==
    /\ Evaluating /\ FALSE \in Outcomes(NextCondition)
    /\ details' = [i \in DOMAIN Conditions |->
           IF i <= Len(details) THEN details[i]
           ELSE IF i = Len(details) + 1 THEN "failed" ELSE "not_evaluated"]
    /\ pc' = "mark"
    /\ UNCHANGED <<count, act, attempt, result, rows, called, bounds, history>>

TakeRule ==
    /\ pc = "condition" /\ Len(details) = Len(Conditions)
    /\ pc' = "run"
    /\ UNCHANGED <<count, progress, bounds, history>>

-----------------------------------------------------------------------------
(* An action with its retries                                              *)

\* db.insert_event commits at once.
Insert(k, place) ==
    /\ count' = [count EXCEPT ![k] = @ + 1]
    /\ inserted' = inserted \cup {place}
    /\ again' = again \cup (inserted \cap {place})

Current == Actions[act]
InActions == act <= Len(Actions)

LogRow(label) == rows' = [rows EXCEPT ![act] = Append(@, label)]

\* "Unknown action type": no retries and no sub-actions.
UnknownType ==
    /\ pc = "run" /\ InActions /\ ~Current.known
    /\ LogRow(<<"error", 0>>) /\ act' = act + 1
    /\ UNCHANGED <<count, pc, details, attempt, result, called, bounds, history>>

RunEmit ==
    /\ pc = "run" /\ InActions /\ Current.known /\ Current.emits # None
    /\ Insert(Current.emits, <<act, "action", 1>>)
    /\ result' = "success" /\ pc' = "row"
    /\ UNCHANGED <<details, act, attempt, rows, called, bounds>>

RunOther(status) ==
    /\ pc = "run" /\ InActions /\ Current.known /\ Current.emits = None
    /\ result' = status /\ pc' = "row"
    /\ UNCHANGED <<count, details, act, attempt, rows, called, bounds, history>>

LogSuccess ==
    /\ pc = "row" /\ result = "success"
    /\ LogRow(<<"success", 0>>) /\ pc' = "hook"
    /\ UNCHANGED <<count, details, act, attempt, result, called, bounds, history>>

\* Mutant of LogRetry: the sub-actions run after every failure.
LogRetryAndHook ==
    /\ pc = "row" /\ result = "error" /\ attempt < Current.retries
    /\ LogRow(<<"retry", attempt + 1>>) /\ attempt' = attempt + 1
    /\ called' = [called EXCEPT ![act] = @ \o Current.on_failure]
    /\ pc' = "run"
    /\ UNCHANGED <<count, details, act, result, bounds, history>>

\* retry_1, retry_2, ...
LogRetry ==
    /\ pc = "row" /\ result = "error" /\ attempt < Current.retries
    /\ LogRow(<<"retry", attempt + 1>>) /\ attempt' = attempt + 1
    /\ pc' = "run"
    /\ UNCHANGED <<count, details, act, result, called, bounds, history>>

LogPermanentFailure ==
    /\ pc = "row" /\ result = "error" /\ attempt = Current.retries
    /\ LogRow(<<"error", 0>>) /\ pc' = "hook"
    /\ UNCHANGED <<count, details, act, attempt, result, called, bounds, history>>

-----------------------------------------------------------------------------
(* Its sub-actions                                                         *)

Hooks == IF result = "success" THEN Current.on_success ELSE Current.on_failure
NextHook == Len(called[act]) + 1

CallHook ==
    /\ called' = [called EXCEPT ![act] = Append(@, Hooks[NextHook])]
    /\ UNCHANGED <<details, act, attempt, result, rows, pc, published, expired>>

RunHook ==
    /\ pc = "hook" /\ NextHook <= Len(Hooks)
    /\ CallHook
    /\ Insert(Hooks[NextHook], <<act, result, NextHook>>)
    /\ UNCHANGED faults

\* A sub-action that raises, a lock error included, is reported on stderr and
\* forgotten.
HookFails ==
    /\ pc = "hook" /\ NextHook <= Len(Hooks) /\ faults < MaxFaults
    /\ CallHook
    /\ faults' = faults + 1
    /\ UNCHANGED <<count, history>>

\* Mutant of EndAction: the next action starts with the attempts of the last.
EndActionKeepsAttempt ==
    /\ pc = "hook" /\ NextHook > Len(Hooks)
    /\ act' = act + 1 /\ pc' = "run"
    /\ UNCHANGED <<count, details, attempt, result, rows, called, bounds, history>>

\* Whatever came of the action, the next one is taken.
EndAction ==
    /\ pc = "hook" /\ NextHook > Len(Hooks)
    /\ act' = act + 1 /\ attempt' = 0 /\ pc' = "run"
    /\ UNCHANGED <<count, details, result, rows, called, bounds, history>>

EndActions ==
    /\ pc = "run" /\ ~InActions
    /\ pc' = "mark"
    /\ UNCHANGED <<count, progress, bounds, history>>

\* mark_processed.
Mark ==
    /\ pc = "mark" /\ pc' = "processed"
    /\ UNCHANGED <<count, progress, bounds, history>>

\* A crash, or a lock error of an emit, of log_action or of mark_processed: the
\* event is delivered again, from the start.
CutShort ==
    /\ pc \in {"condition", "run", "row", "hook", "mark"} /\ faults < MaxFaults
    /\ faults' = faults + 1
    /\ details' = <<>> /\ act' = 1 /\ attempt' = 0 /\ result' = "success"
    /\ rows' = Nothing /\ called' = Nothing
    /\ pc' = "waiting"
    /\ UNCHANGED <<count, published, expired, history>>

Next ==
    \/ \E k \in Kinds : Publish(k) \/ Expire(k)
    \/ Deliver \/ Passes \/ Fails \/ TakeRule
    \/ UnknownType \/ RunEmit \/ (\E s \in {"success", "error"} : RunOther(s))
    \/ LogSuccess \/ LogRetry \/ LogPermanentFailure
    \/ RunHook \/ HookFails \/ EndAction \/ EndActions \/ Mark \/ CutShort

Spec == Init /\ [][Next]_vars

-----------------------------------------------------------------------------
(* Properties                                                              *)

Taken == \A i \in DOMAIN details : details[i] = "passed"

\* The rows of an action that is done with: retry_1, retry_2, ... and then a
\* success, or an error after the last retry.
Complete(a) ==
    LET n == Len(rows[a]) IN
    /\ n \in 1 .. Actions[a].retries + 1
    /\ \A i \in 1 .. n - 1 : rows[a][i] = <<"retry", i>>
    /\ \/ rows[a][n] = <<"success", 0>>
       \/ rows[a][n] = <<"error", 0>> /\ n = Actions[a].retries + 1

\* _dispatch_sub_actions, "Called exactly once": in the delivery that ends with
\* the event processed every action of the rule was run to its end whatever
\* became of the others, and has had exactly the sub-actions of its outcome,
\* each once and in order (an action without a handler has had one row, and no
\* sub-actions); or the rule was not taken and nothing was run.
SettledWhenProcessed ==
    pc = "processed" =>
        IF Taken
        THEN \A a \in DOMAIN Actions :
                 IF Actions[a].known
                 THEN /\ Complete(a)
                      /\ called[a] = IF Last(rows[a]) = <<"success", 0>>
                                     THEN Actions[a].on_success ELSE Actions[a].on_failure
                 ELSE rows[a] = <<<<"error", 0>>>> /\ called[a] = <<>>
        ELSE /\ Len(details) = Len(Conditions)
             /\ \A a \in DOMAIN Actions : rows[a] = <<>> /\ called[a] = <<>>

KindOf(place) ==
    LET a == Actions[place[1]] IN
    CASE place[2] = "action" -> a.emits
      [] place[2] = "success" -> a.on_success[place[3]]
      [] place[2] = "error" -> a.on_failure[place[3]]

Guarded(k) == [type |-> "count", kind |-> k, below |-> 1] \in ToSet(Conditions)

\* A rule that asks for count(k, window) < 1 inserts its events of kind k only
\* once, however often the delivery is cut short and repeated: what the first
\* delivery inserted makes the condition fail, as long as it is in the window.
GuardedNotRepeated == \A place \in again : Guarded(KindOf(place)) => expired > 0
=============================================================================
