--------------------------- MODULE ActionRunProofs ---------------------------
(***************************************************************************)
(* Theorems about ActionRun, for any rule: any conditions, any actions     *)
(* with any retries and sub-actions, and any number of faults.             *)
(*                                                                         *)
(* What SettledWhenProcessed says of the end of a delivery is built up     *)
(* action by action: StageInv says how far each of them has come.  And a   *)
(* guard sees an earlier delivery's events because none of them has left   *)
(* the window: FreshInv says that an event whose guard has passed in this  *)
(* delivery was inserted in this delivery, at a place already left behind. *)
(***************************************************************************)
EXTENDS ActionRun, TLAPS

\* An action that is done with; SettledWhenProcessed asks it of all of them.
Done(a) ==
    IF Actions[a].known
    THEN /\ Complete(a)
         /\ called[a] = IF Last(rows[a]) = <<"success", 0>>
                        THEN Actions[a].on_success ELSE Actions[a].on_failure
    ELSE rows[a] = <<<<"error", 0>>>> /\ called[a] = <<>>

Untouched(a) == rows[a] = <<>> /\ called[a] = <<>>

\* An action that is being tried has one row for every retry that is over.
Trying(a) ==
    /\ Len(rows[a]) = attempt /\ called[a] = <<>>
    /\ \A i \in 1 .. attempt : rows[a][i] = <<"retry", i>>

\* An action that has come to its end, and the first of its sub-actions.
Calling(a) ==
    /\ Complete(a)
    /\ rows[a][Len(rows[a])] = <<"success", 0>> <=> result = "success"
    /\ Len(called[a]) <= Len(Hooks)
    /\ \A i \in 1 .. Len(called[a]) : called[a][i] = Hooks[i]

StageInv ==
    /\ \A a \in DOMAIN Actions : a < act => Done(a)
    /\ \A a \in DOMAIN Actions : a > act => Untouched(a)
    /\ InActions => IF pc = "hook" THEN Calling(act) ELSE Trying(act)
    /\ pc \in {"row", "hook"} => InActions /\ Current.known
    /\ attempt > 0 => InActions /\ Current.known /\ pc \in {"run", "row", "hook"}

\* How far the delivery has come.
PhaseInv ==
    /\ pc \in {"waiting", "condition"} => act = 1
    /\ pc = "waiting" => details = <<>>
    /\ pc = "condition" => Taken
    /\ pc \in {"run", "row", "hook"} => Taken /\ Len(details) = Len(Conditions)
    /\ pc \in {"mark", "processed"} =>
           IF Taken THEN act = Len(Actions) + 1 ELSE act = 1 /\ Len(details) = Len(Conditions)

-----------------------------------------------------------------------------
\* The places of the rule from which an event can be inserted.
IsPlace(p) ==
    \E a \in DOMAIN Actions :
        \/ p = <<a, "action", 1>> /\ Actions[a].emits \in Kinds
        \/ \E i \in DOMAIN Actions[a].on_success : p = <<a, "success", i>>
        \/ \E i \in DOMAIN Actions[a].on_failure : p = <<a, "error", i>>

\* An emit does not fail, so that it is never tried again; and as long as
\* nothing leaves the window, what was inserted is in it.
PlaceInv ==
    /\ \A p \in inserted : IsPlace(p)
    /\ pc = "row" => Current.emits = None \/ result = "success"
    /\ expired = 0 => \A p \in inserted : count[KindOf(p)] > 0

Guard(k) == [type |-> "count", kind |-> k, below |-> 1]
GuardPassed(k) == \E i \in DOMAIN details : details[i] = "passed" /\ Conditions[i] = Guard(k)

\* Places that this delivery has left behind.
Behind(p) ==
    \/ p[1] < act
    \/ /\ p[1] = act
       /\ \/ pc \in {"row", "hook"} /\ p[2] = "action"
          \/ pc = "hook" /\ p[2] = result /\ p[3] <= Len(called[act])

FreshInv ==
    expired = 0 => \A p \in inserted : GuardPassed(KindOf(p)) => Behind(p)

RunInv == TypeOK /\ StageInv /\ PhaseInv
IndInv == RunInv /\ PlaceInv /\ FreshInv /\ GuardedNotRepeated
-----------------------------------------------------------------------------
(* The rule                                                                *)

LEMMA RuleType ==
  /\ Len(Actions) \in Nat /\ DOMAIN Actions = 1 .. Len(Actions)
  /\ Len(Conditions) \in Nat /\ DOMAIN Conditions = 1 .. Len(Conditions)
  BY RuleAssumption

LEMMA ActionType ==
  ASSUME NEW a \in DOMAIN Actions
  PROVE  /\ Actions[a].known \in BOOLEAN /\ Actions[a].emits \in Kinds \cup {None}
         /\ Actions[a].retries \in Nat
         /\ Actions[a].on_success \in Seq(Kinds) /\ Actions[a].on_failure \in Seq(Kinds)
<1>1. Actions[a] \in Action
  BY RuleAssumption
<1> QED
  BY <1>1 DEF Action

\* The current action is an action of the rule, and its sub-actions insert
\* events.
LEMMA CurrentType ==
  ASSUME TypeOK, InActions
  PROVE  /\ act \in DOMAIN Actions /\ act \in Nat
         /\ Current.retries \in Nat /\ Current.known \in BOOLEAN
         /\ Current.emits \in Kinds \cup {None}
         /\ Hooks \in Seq(Kinds)
<1>1. act \in DOMAIN Actions /\ act \in Nat
  BY RuleType DEF TypeOK, InActions
<1> QED
  BY <1>1, ActionType DEF Current, Hooks

-----------------------------------------------------------------------------
(* Types                                                                   *)

LEMMA EnvironmentType ==
  ASSUME TypeOK, NEW k \in Kinds, Publish(k) \/ Expire(k)
  PROVE  TypeOK'
<1>1. count' \in [Kinds -> Nat]
  BY DEF Publish, Expire, TypeOK
<1>2. published' \in Nat /\ expired' \in Nat
  BY DEF Publish, Expire, TypeOK
<1>3. UNCHANGED <<pc, progress, faults, history>>
  BY DEF Publish, Expire
<1> QED
  BY <1>1, <1>2, <1>3 DEF TypeOK, progress, history

\* The verdicts of conditions of which one fails: one for every condition.
LEMMA FailsType ==
  ASSUME TypeOK, Fails
  PROVE  /\ details' \in Seq(Verdict) /\ Len(details') = Len(Conditions)
         /\ \A i \in 1 .. Len(details) : details'[i] = details[i]
         /\ Len(details) + 1 \in 1 .. Len(details') /\ details'[Len(details) + 1] = "failed"
         /\ \A i \in 1 .. Len(details') : i > Len(details) => details'[i] # "passed"
<1> DEFINE f == [i \in 1 .. Len(Conditions) |->
                    IF i <= Len(details) THEN details[i]
                    ELSE IF i = Len(details) + 1 THEN "failed" ELSE "not_evaluated"]
<1>1. details' = f
  BY RuleType DEF Fails
<1>2. Len(details) \in Nat /\ Len(Conditions) \in Nat /\ Len(details) < Len(Conditions)
  BY RuleType DEF TypeOK, Fails, Evaluating
<1>3. f \in [1 .. Len(Conditions) -> Verdict]
  BY <1>2 DEF TypeOK, Verdict
<1>4. /\ \A i \in 1 .. Len(details) : f[i] = details[i]
      /\ f[Len(details) + 1] = "failed"
      /\ \A i \in 1 .. Len(Conditions) : i > Len(details) => f[i] # "passed"
  BY <1>2
<1> HIDE DEF f
<1>5. f \in Seq(Verdict) /\ Len(f) = Len(Conditions)
  BY <1>2, <1>3
<1> QED
  BY <1>1, <1>2, <1>4, <1>5

LEMMA ConditionType ==
  ASSUME TypeOK, Deliver \/ Passes \/ Fails \/ TakeRule
  PROVE  TypeOK'
<1>1. CASE Deliver \/ TakeRule
  BY <1>1 DEF Deliver, TakeRule, TypeOK, progress, bounds, history
<1>2. CASE Passes
  BY <1>2, RuleType DEF Passes, Evaluating, TypeOK, Verdict, bounds, history
<1>3. CASE Fails
  BY <1>3, FailsType, RuleType DEF Fails, TypeOK, bounds, history
<1> QED
  BY <1>1, <1>2, <1>3

LEMMA InsertType ==
  ASSUME TypeOK, NEW k \in Kinds, NEW place, Insert(k, place)
  PROVE  count' \in [Kinds -> Nat] /\ again' \subseteq inserted'
  BY DEF TypeOK, Insert

LEMMA RunType ==
  ASSUME TypeOK, RunEmit \/ (\E s \in {"success", "error"} : RunOther(s))
  PROVE  TypeOK'
<1>1. CASE RunEmit
  <2>1. Current.emits \in Kinds
    BY <1>1, CurrentType DEF RunEmit
  <2>2. count' \in [Kinds -> Nat] /\ again' \subseteq inserted'
    BY <1>1, <2>1, InsertType DEF RunEmit
  <2> QED
    BY <1>1, <2>2 DEF RunEmit, TypeOK, bounds
<1>2. ASSUME NEW s \in {"success", "error"}, RunOther(s)
      PROVE  TypeOK'
  BY <1>2 DEF RunOther, TypeOK, bounds, history
<1> QED
  BY <1>1, <1>2

LEMMA LogType ==
  ASSUME TypeOK, InActions, NEW label \in Label, LogRow(label)
  PROVE  rows' \in [DOMAIN Actions -> Seq(Label)]
<1>1. act \in DOMAIN Actions
  BY CurrentType
<1> QED
  BY <1>1 DEF TypeOK, LogRow

LEMMA RowType ==
  ASSUME TypeOK, InActions, LogSuccess \/ LogRetry \/ LogPermanentFailure
  PROVE  TypeOK'
<1>1. PICK label \in Label : LogRow(label)
  BY DEF LogSuccess, LogRetry, LogPermanentFailure, Label, TypeOK
<1>2. rows' \in [DOMAIN Actions -> Seq(Label)]
  BY <1>1, LogType
<1>3. CASE LogSuccess \/ LogPermanentFailure
  <2>1. UNCHANGED <<count, details, act, attempt, result, called, bounds, history>> /\ pc' = "hook"
    BY <1>3 DEF LogSuccess, LogPermanentFailure
  <2> QED
    BY <1>2, <2>1 DEF TypeOK, bounds, history
<1>4. CASE LogRetry
  <2>1. attempt' \in Nat /\ (act <= Len(Actions) => attempt' <= Actions[act].retries)
    BY <1>4, CurrentType DEF LogRetry, TypeOK, Current
  <2>2. UNCHANGED <<count, details, act, result, called, bounds, history>> /\ pc' = "run"
    BY <1>4 DEF LogRetry
  <2> QED
    BY <1>2, <2>1, <2>2 DEF TypeOK, bounds, history
<1> QED
  BY <1>3, <1>4

\* No action starts with attempts behind it.
LEMMA NextActionType ==
  ASSUME TypeOK, InActions, attempt' = 0, act' = act + 1
  PROVE  /\ act' \in 1 .. Len(Actions) + 1 /\ attempt' \in Nat
         /\ act' <= Len(Actions) => attempt' <= Actions[act'].retries
<1>1. act' \in 1 .. Len(Actions) + 1 /\ attempt' \in Nat
  BY RuleType DEF TypeOK, InActions
<1>2. act' <= Len(Actions) => Actions[act'].retries \in Nat
  BY <1>1, RuleType, ActionType
<1> QED
  BY <1>1, <1>2

LEMMA UnknownTypeType ==
  ASSUME TypeOK, StageInv, UnknownType
  PROVE  TypeOK'
<1>1. attempt = 0 /\ attempt' = 0
  BY DEF UnknownType, StageInv, TypeOK
<1>2. rows' \in [DOMAIN Actions -> Seq(Label)]
  BY LogType DEF UnknownType, Label
<1> QED
  BY <1>1, <1>2, NextActionType DEF UnknownType, TypeOK, bounds, history

LEMMA HookType ==
  ASSUME TypeOK, InActions, RunHook \/ HookFails
  PROVE  TypeOK'
<1>1. NextHook \in DOMAIN Hooks /\ Hooks[NextHook] \in Kinds /\ act \in DOMAIN Actions
  <2>1. act \in DOMAIN Actions /\ Hooks \in Seq(Kinds)
    BY CurrentType
  <2>2. NextHook \in 1 .. Len(Hooks)
    BY <2>1 DEF RunHook, HookFails, NextHook, TypeOK
  <2> QED
    BY <2>1, <2>2
<1>2. called' \in [DOMAIN Actions -> Seq(Kinds)]
  <2>1. called' = [called EXCEPT ![act] = Append(called[act], Hooks[NextHook])]
    BY DEF RunHook, HookFails, CallHook
  <2>2. called[act] \in Seq(Kinds) /\ called \in [DOMAIN Actions -> Seq(Kinds)]
    BY <1>1 DEF TypeOK
  <2>3. Append(called[act], Hooks[NextHook]) \in Seq(Kinds)
    BY <1>1, <2>2
  <2> QED
    BY <2>1, <2>2, <2>3
<1>3. CASE RunHook
  <2>1. count' \in [Kinds -> Nat] /\ again' \subseteq inserted'
    BY <1>1, <1>3, InsertType DEF RunHook
  <2> QED
    BY <1>2, <1>3, <2>1 DEF RunHook, CallHook, TypeOK
<1>4. CASE HookFails
  BY <1>2, <1>4 DEF HookFails, CallHook, TypeOK, history
<1> QED
  BY <1>3, <1>4

LEMMA NothingType == Nothing \in [DOMAIN Actions -> Seq(Label)] /\ Nothing \in [DOMAIN Actions -> Seq(Kinds)]
  BY DEF Nothing

LEMMA EndType ==
  ASSUME TypeOK, (EndAction /\ InActions) \/ EndActions \/ Mark
  PROVE  TypeOK'
<1>1. CASE EndAction /\ InActions
  BY <1>1, NextActionType DEF EndAction, TypeOK, bounds, history
<1>2. CASE EndActions \/ Mark
  BY <1>2 DEF EndActions, Mark, TypeOK, progress, bounds, history
<1> QED
  BY <1>1, <1>2

LEMMA StartType ==
  1 \in 1 .. Len(Actions) + 1 /\ (1 <= Len(Actions) => 0 <= Actions[1].retries)
<1>1. 1 <= Len(Actions) => Actions[1].retries \in Nat
  BY RuleType, ActionType
<1> QED
  BY <1>1, RuleType

LEMMA CutShortType ==
  ASSUME TypeOK, CutShort
  PROVE  TypeOK'
<1>1. details' \in Seq(Verdict) /\ Len(details') <= Len(Conditions)
  BY RuleType DEF CutShort
<1> QED
  BY <1>1, NothingType, StartType DEF CutShort, TypeOK, history
-----------------------------------------------------------------------------
(* How far each action has come                                            *)

\* Nothing happens to the actions: a step of the environment, of the
\* conditions, or of a handler.
LEMMA StageKept ==
  ASSUME TypeOK, StageInv, UNCHANGED <<rows, called, act, attempt>>,
         pc' = "hook" <=> pc = "hook", pc = "hook" => result' = result,
         pc' \in {"row", "hook"} => InActions /\ Current.known,
         attempt > 0 => pc' \in {"run", "row", "hook"}
  PROVE  StageInv'
<1>1. \A a \in DOMAIN Actions : (Done(a) => Done(a)') /\ (Untouched(a) => Untouched(a)')
  BY DEF Done, Untouched, Complete
<1>2. pc = "hook" /\ Calling(act) => Calling(act)'
  BY DEF Calling, Complete, Hooks, Current
<1>3. Trying(act) => Trying(act)'
  BY DEF Trying
<1>4. (InActions <=> InActions') /\ (Current.known <=> Current'.known)
  BY DEF InActions, Current
<1> QED
  BY <1>1, <1>2, <1>3, <1>4 DEF StageInv

\* The other actions are as they were.
LEMMA OthersKept ==
  ASSUME TypeOK, StageInv, \A a \in DOMAIN Actions : a # act => rows'[a] = rows[a] /\ called'[a] = called[a]
  PROVE  \A a \in DOMAIN Actions : (a < act => Done(a)') /\ (a > act => Untouched(a)')
<1> SUFFICES ASSUME NEW a \in DOMAIN Actions
             PROVE  (a < act => Done(a)') /\ (a > act => Untouched(a)')
  OBVIOUS
<1>1. a \in Nat /\ act \in Nat
  BY RuleType DEF TypeOK
<1>2. ASSUME a # act
      PROVE  (Done(a) => Done(a)') /\ (Untouched(a) => Untouched(a)')
  BY <1>2 DEF Done, Untouched, Complete
<1>3. (a < act => Done(a)) /\ (a > act => Untouched(a))
  BY DEF StageInv
<1>4. a < act \/ a > act => a # act
  BY <1>1
<1> QED
  BY <1>2, <1>3, <1>4

\* The row that an action has just had is its last.
LEMMA RowAppended ==
  ASSUME TypeOK, InActions, NEW label \in Label, LogRow(label)
  PROVE  /\ rows[act] \in Seq(Label) /\ Len(rows[act]) \in Nat
         /\ rows'[act] = Append(rows[act], label)
         /\ Len(rows'[act]) = Len(rows[act]) + 1
         /\ rows'[act][Len(rows[act]) + 1] = label
         /\ \A i \in 1 .. Len(rows[act]) : rows'[act][i] = rows[act][i]
         /\ \A a \in DOMAIN Actions : a # act => rows'[a] = rows[a]
<1>1. act \in DOMAIN Actions
  BY CurrentType
<1>2. rows'[act] = Append(rows[act], label) /\ rows[act] \in Seq(Label)
  BY <1>1 DEF TypeOK, LogRow
<1>3. \A a \in DOMAIN Actions : a # act => rows'[a] = rows[a]
  BY <1>1 DEF TypeOK, LogRow
<1> QED
  BY <1>2, <1>3

\* After its last row an action is complete, and calls its sub-actions.
LEMMA LastRowStage ==
  ASSUME TypeOK, StageInv, LogSuccess \/ LogPermanentFailure
  PROVE  StageInv'
<1>1. /\ InActions /\ Current.known /\ act \in DOMAIN Actions
      /\ pc = "row" /\ pc' = "hook"
      /\ UNCHANGED <<act, attempt, result, called>>
      /\ Current.retries \in Nat /\ attempt \in Nat /\ attempt <= Current.retries
  BY CurrentType DEF LogSuccess, LogPermanentFailure, StageInv, TypeOK, InActions, Current
<1>2. Trying(act)
  BY <1>1 DEF StageInv
<1> DEFINE label == IF result = "success" THEN <<"success", 0>> ELSE <<"error", 0>>
<1>3. LogRow(label) /\ label \in Label
  BY DEF LogSuccess, LogPermanentFailure, Label, TypeOK
<1>4. /\ label = <<"success", 0>> <=> result = "success"
      /\ \/ label = <<"success", 0>>
         \/ label = <<"error", 0>> /\ attempt = Current.retries
  BY DEF LogSuccess, LogPermanentFailure
<1> HIDE DEF label
<1>5. /\ Len(rows'[act]) = attempt + 1
      /\ rows'[act][attempt + 1] = label
      /\ \A i \in 1 .. attempt : rows'[act][i] = <<"retry", i>>
      /\ \A a \in DOMAIN Actions : a # act => rows'[a] = rows[a]
  BY <1>1, <1>2, <1>3, RowAppended DEF Trying
<1>6. Complete(act)'
  BY <1>1, <1>4, <1>5 DEF Complete, Current
<1>7. Calling(act)'
  <2>1. called'[act] = <<>>
    BY <1>1, <1>2 DEF Trying
  <2>2. Len(Hooks') \in Nat
    BY <1>1, CurrentType DEF Hooks, Current
  <2> QED
    BY <1>1, <1>4, <1>5, <1>6, <2>1, <2>2 DEF Calling
<1>8. \A a \in DOMAIN Actions : (a < act => Done(a)') /\ (a > act => Untouched(a)')
  BY <1>1, <1>5, OthersKept
<1> QED
  BY <1>1, <1>7, <1>8 DEF StageInv, InActions, Current

LEMMA LogRetryStage ==
  ASSUME TypeOK, StageInv, LogRetry
  PROVE  StageInv'
<1>1. /\ InActions /\ Current.known /\ act \in DOMAIN Actions
      /\ pc = "row" /\ pc' = "run" /\ attempt' = attempt + 1 /\ attempt \in Nat
      /\ UNCHANGED <<act, result, called>>
      /\ LogRow(<<"retry", attempt + 1>>) /\ <<"retry", attempt + 1>> \in Label
  BY CurrentType DEF LogRetry, StageInv, TypeOK, Label
<1>2. Trying(act)
  BY <1>1 DEF StageInv
<1>3. /\ Len(rows'[act]) = attempt + 1
      /\ rows'[act][attempt + 1] = <<"retry", attempt + 1>>
      /\ \A i \in 1 .. attempt : rows'[act][i] = <<"retry", i>>
      /\ \A a \in DOMAIN Actions : a # act => rows'[a] = rows[a]
  BY <1>1, <1>2, RowAppended DEF Trying
<1>4. Trying(act)'
  BY <1>1, <1>2, <1>3 DEF Trying
<1>5. \A a \in DOMAIN Actions : (a < act => Done(a)') /\ (a > act => Untouched(a)')
  BY <1>1, <1>3, OthersKept
<1> QED
  BY <1>1, <1>4, <1>5 DEF StageInv, InActions, Current

\* Once the current action is done with, the next one starts afresh.
LEMMA NextStage ==
  ASSUME TypeOK, StageInv, InActions, NEW b \in DOMAIN Actions, b = act, Done(b)',
         \A a \in DOMAIN Actions : a # act => rows'[a] = rows[a] /\ called'[a] = called[a],
         act' = act + 1, attempt' = 0, pc' = "run"
  PROVE  StageInv'
<1>1. act \in DOMAIN Actions /\ act \in Nat
  BY CurrentType
<1>2. \A a \in DOMAIN Actions : (a < act => Done(a)') /\ (a > act => Untouched(a)')
  BY OthersKept
<1>3. \A a \in DOMAIN Actions : a < act' => Done(a)'
  <2> SUFFICES ASSUME NEW a \in DOMAIN Actions, a < act'
               PROVE  Done(a)'
    OBVIOUS
  <2>1. a < act \/ a = act
    BY <1>1, RuleType
  <2> QED
    BY <1>2, <2>1
<1>4. \A a \in DOMAIN Actions : a > act' => Untouched(a)'
  BY <1>1, <1>2, RuleType
<1>5. InActions' => Trying(act)'
  <2> SUFFICES ASSUME InActions'
               PROVE  Trying(act)'
    OBVIOUS
  <2>1. act' \in DOMAIN Actions /\ act' > act
    BY <1>1, RuleType DEF InActions
  <2>2. rows'[act'] = <<>> /\ called'[act'] = <<>>
    BY <1>2, <2>1 DEF Untouched
  <2> QED
    BY <2>2 DEF Trying
<1> QED
  BY <1>3, <1>4, <1>5 DEF StageInv
\* An action without a handler is done with after one row.
LEMMA UnknownTypeStage ==
  ASSUME TypeOK, StageInv, UnknownType
  PROVE  StageInv'
<1>1. /\ InActions /\ ~Current.known /\ act \in DOMAIN Actions
      /\ pc = "run" /\ pc' = "run" /\ act' = act + 1
      /\ attempt = 0 /\ attempt' = 0 /\ called' = called
      /\ LogRow(<<"error", 0>>) /\ <<"error", 0>> \in Label
  BY CurrentType DEF UnknownType, StageInv, TypeOK, Label
<1>2. rows[act] = <<>> /\ called[act] = <<>>
  <2>1. Trying(act)
    BY <1>1 DEF StageInv
  <2>2. rows[act] \in Seq(Label) /\ Len(rows[act]) = 0 /\ called[act] = <<>>
    BY <1>1, <2>1 DEF TypeOK, Trying
  <2> QED
    BY <2>2
<1>3. /\ rows'[act] = <<<<"error", 0>>>>
      /\ \A a \in DOMAIN Actions : a # act => rows'[a] = rows[a]
  BY <1>1, <1>2, RowAppended
<1>4. ASSUME NEW b \in DOMAIN Actions, b = act
      PROVE  Done(b)'
  BY <1>1, <1>2, <1>3, <1>4 DEF Done, Current
<1> QED
  BY <1>1, <1>3, <1>4, NextStage

\* Another sub-action of the outcome has been dispatched, the next in order.
LEMMA HookStage ==
  ASSUME TypeOK, StageInv, RunHook \/ HookFails
  PROVE  StageInv'
<1>1. /\ InActions /\ Current.known /\ act \in DOMAIN Actions
      /\ pc = "hook" /\ pc' = "hook" /\ UNCHANGED <<act, attempt, result, rows>>
      /\ Hooks \in Seq(Kinds) /\ NextHook <= Len(Hooks)
      /\ called' = [called EXCEPT ![act] = Append(called[act], Hooks[NextHook])]
  BY CurrentType DEF RunHook, HookFails, CallHook, StageInv
<1>2. Calling(act)
  BY <1>1 DEF StageInv
<1>3. called[act] \in Seq(Kinds) /\ called \in [DOMAIN Actions -> Seq(Kinds)]
  BY <1>1 DEF TypeOK
<1>4. /\ Len(called'[act]) = Len(called[act]) + 1
      /\ called'[act][Len(called[act]) + 1] = Hooks[Len(called[act]) + 1]
      /\ \A i \in 1 .. Len(called[act]) : called'[act][i] = called[act][i]
      /\ \A a \in DOMAIN Actions : a # act => called'[a] = called[a]
  BY <1>1, <1>3 DEF NextHook
<1>5. Calling(act)'
  <2>1. Complete(act)' /\ (rows'[act][Len(rows'[act])] = <<"success", 0>> <=> result' = "success")
    BY <1>1, <1>2 DEF Calling, Complete
  <2>2. Hooks' = Hooks /\ act' = act
    BY <1>1 DEF Hooks, Current
  <2>3. Len(called'[act]) <= Len(Hooks)
    BY <1>1, <1>4 DEF NextHook
  <2>4. ASSUME NEW i \in 1 .. Len(called'[act])
        PROVE  called'[act][i] = Hooks[i]
    <3>1. Len(called[act]) \in Nat
      BY <1>3
    <3>2. i \in 1 .. Len(called[act]) \/ i = Len(called[act]) + 1
      BY <1>4, <3>1
    <3> QED
      BY <1>2, <1>4, <3>2 DEF Calling
  <2> QED
    BY <2>1, <2>2, <2>3, <2>4 DEF Calling
<1>6. \A a \in DOMAIN Actions : (a < act => Done(a)') /\ (a > act => Untouched(a)')
  BY <1>1, <1>4, OthersKept
<1> QED
  BY <1>1, <1>5, <1>6 DEF StageInv, InActions, Current

\* All sub-actions of the outcome have been dispatched.
LEMMA EndActionStage ==
  ASSUME TypeOK, StageInv, EndAction
  PROVE  StageInv'
<1>1. /\ InActions /\ Current.known /\ act \in DOMAIN Actions
      /\ pc = "hook" /\ pc' = "run" /\ act' = act + 1 /\ attempt' = 0
      /\ UNCHANGED <<rows, called>>
      /\ Hooks \in Seq(Kinds) /\ NextHook > Len(Hooks)
  BY CurrentType DEF EndAction, StageInv
<1>2. Calling(act)
  BY <1>1 DEF StageInv
<1>3. called[act] = Hooks
  <2>1. called[act] \in Seq(Kinds)
    BY <1>1 DEF TypeOK
  <2>2. Len(called[act]) = Len(Hooks)
    BY <1>1, <1>2, <2>1 DEF Calling, NextHook
  <2> QED
    BY <1>1, <1>2, <2>1, <2>2 DEF Calling
<1>4. ASSUME NEW b \in DOMAIN Actions, b = act
      PROVE  Done(b)'
  <2>1. Last(rows[act]) = rows[act][Len(rows[act])]
    BY DEF Last
  <2>2. Complete(b)'
    BY <1>1, <1>2, <1>4 DEF Calling, Complete
  <2>3. called'[b] = IF Last(rows'[b]) = <<"success", 0>>
                     THEN Actions[b].on_success ELSE Actions[b].on_failure
    BY <1>1, <1>2, <1>3, <1>4, <2>1 DEF Calling, Hooks, Current
  <2> QED
    BY <1>1, <1>4, <2>2, <2>3 DEF Done, Current
<1> QED
  BY <1>1, <1>4, NextStage

\* The delivery starts, or starts again.
Starting == act = 1 /\ attempt = 0 /\ rows = Nothing /\ called = Nothing /\ pc = "waiting"

LEMMA StartStage == Starting => StageInv
<1> SUFFICES ASSUME Starting
             PROVE  StageInv
  OBVIOUS
<1>1. \A a \in DOMAIN Actions : Untouched(a)
  BY DEF Untouched, Nothing, Starting
<1>2. InActions => Trying(1)
  <2> SUFFICES ASSUME InActions
               PROVE  Trying(1)
    OBVIOUS
  <2>1. 1 \in DOMAIN Actions
    BY RuleType DEF InActions, Starting
  <2> QED
    BY <1>1, <2>1 DEF Trying, Untouched, Starting
<1>3. \A a \in DOMAIN Actions : ~(a < 1)
  BY RuleType
<1> QED
  BY <1>1, <1>2, <1>3 DEF StageInv, Starting

LEMMA RestartStage == Starting' => StageInv'
  BY StartStage, PTL

LEMMA NextStageInv ==
  ASSUME TypeOK, StageInv, PhaseInv, Next
  PROVE  StageInv'
<1>1. ASSUME NEW k \in Kinds, Publish(k) \/ Expire(k)
      PROVE  StageInv'
  <2>1. UNCHANGED <<pc, details, act, attempt, result, rows, called>>
    BY <1>1 DEF Publish, Expire, progress
  <2> QED
    BY <2>1, StageKept DEF StageInv
<1>2. CASE Deliver \/ Passes \/ Fails \/ TakeRule \/ EndActions \/ Mark
  <2>1. UNCHANGED <<rows, called, act, attempt>> /\ pc # "hook" /\ pc' \notin {"row", "hook"}
    BY <1>2 DEF Deliver, Passes, Fails, TakeRule, EndActions, Mark, Evaluating, progress
  <2>2. attempt > 0 => pc' \in {"run", "row", "hook"}
    <3>1. attempt > 0 => pc = "run" /\ InActions
      BY <1>2, <2>1 DEF StageInv, Deliver, Passes, Fails, TakeRule, EndActions, Mark, Evaluating
    <3> QED
      BY <1>2, <3>1 DEF Deliver, Passes, Fails, TakeRule, EndActions, Mark, Evaluating
  <2> QED
    BY <2>1, <2>2, StageKept
<1>3. CASE RunEmit \/ \E s \in {"success", "error"} : RunOther(s)
  <2>1. /\ UNCHANGED <<rows, called, act, attempt>> /\ pc = "run" /\ pc' = "row"
        /\ InActions /\ Current.known
    BY <1>3 DEF RunEmit, RunOther
  <2> QED
    BY <2>1, StageKept
<1>4. CASE CutShort
  <2>1. Starting'
    BY <1>4 DEF CutShort, Starting, Nothing
  <2> QED
    BY <2>1, RestartStage
<1> QED
  BY <1>1, <1>2, <1>3, <1>4, UnknownTypeStage, LastRowStage, LogRetryStage, HookStage,
     EndActionStage DEF Next
-----------------------------------------------------------------------------
(* How far the delivery has come                                           *)

\* What leaves the verdicts and the loop over the actions alone.
LEMMA PhaseKept ==
  ASSUME PhaseInv, UNCHANGED <<details, act>>,
         \/ pc' = pc
         \/ {pc, pc'} \subseteq {"run", "row", "hook"}
  PROVE  PhaseInv'
<1>1. Taken' <=> Taken
  BY DEF Taken
<1> QED
  BY <1>1 DEF PhaseInv

LEMMA ConditionPhase ==
  ASSUME TypeOK, PhaseInv, Deliver \/ Passes \/ Fails \/ TakeRule
  PROVE  PhaseInv'
<1>1. CASE Deliver
  BY <1>1 DEF Deliver, PhaseInv, Taken, progress
<1>2. CASE Passes
  <2>1. /\ pc = "condition" /\ pc' = "condition" /\ act' = act
        /\ details' = Append(details, "passed") /\ details \in Seq(Verdict)
    BY <1>2 DEF Passes, Evaluating, TypeOK
  <2>2. Taken'
    BY <2>1 DEF PhaseInv, Taken
  <2> QED
    BY <2>1, <2>2 DEF PhaseInv
<1>3. CASE Fails
  <2>1. pc = "condition" /\ pc' = "mark" /\ act' = act
    BY <1>3 DEF Fails, Evaluating
  <2>2. ~Taken' /\ Len(details') = Len(Conditions)
    <3>1. details' \in Seq(Verdict) /\ Len(details) + 1 \in 1 .. Len(details')
      BY <1>3, FailsType
    <3>2. Len(details) + 1 \in DOMAIN details'
      BY <3>1
    <3> QED
      BY <1>3, <3>2, FailsType DEF Taken
  <2> QED
    BY <2>1, <2>2 DEF PhaseInv
<1>4. CASE TakeRule
  BY <1>4 DEF TakeRule, PhaseInv, Taken, progress
<1> QED
  BY <1>1, <1>2, <1>3, <1>4

LEMMA EndPhase ==
  ASSUME TypeOK, PhaseInv, EndActions \/ Mark \/ CutShort
  PROVE  PhaseInv'
<1>1. CASE EndActions
  <2>1. act = Len(Actions) + 1
    BY <1>1, RuleType DEF EndActions, InActions, TypeOK
  <2> QED
    BY <1>1, <2>1 DEF EndActions, PhaseInv, Taken, progress
<1>2. CASE Mark
  BY <1>2 DEF Mark, PhaseInv, Taken, progress
<1>3. CASE CutShort
  BY <1>3 DEF CutShort, PhaseInv
<1> QED
  BY <1>1, <1>2, <1>3

LEMMA NextPhaseInv ==
  ASSUME TypeOK, StageInv, PhaseInv, Next
  PROVE  PhaseInv'
<1>1. ASSUME NEW k \in Kinds, Publish(k) \/ Expire(k)
      PROVE  PhaseInv'
  <2>1. UNCHANGED <<pc, details, act>>
    BY <1>1 DEF Publish, Expire, progress
  <2> QED
    BY <2>1, PhaseKept
<1>2. CASE RunEmit \/ \E s \in {"success", "error"} : RunOther(s)
  <2>1. UNCHANGED <<details, act>> /\ {pc, pc'} \subseteq {"run", "row", "hook"}
    BY <1>2 DEF RunEmit, RunOther
  <2> QED
    BY <2>1, PhaseKept
<1>3. CASE LogSuccess \/ LogRetry \/ LogPermanentFailure
  <2>1. UNCHANGED <<details, act>> /\ {pc, pc'} \subseteq {"run", "row", "hook"}
    BY <1>3 DEF LogSuccess, LogRetry, LogPermanentFailure
  <2> QED
    BY <2>1, PhaseKept
<1>4. CASE RunHook \/ HookFails
  <2>1. UNCHANGED <<details, act>> /\ {pc, pc'} \subseteq {"run", "row", "hook"}
    BY <1>4 DEF RunHook, HookFails, CallHook
  <2> QED
    BY <2>1, PhaseKept
<1>5. CASE UnknownType \/ EndAction
  <2>1. details' = details /\ pc \in {"run", "hook"} /\ pc' = "run"
    BY <1>5 DEF UnknownType, EndAction
  <2> QED
    BY <2>1 DEF PhaseInv, Taken
<1> QED
  BY <1>1, <1>2, <1>3, <1>4, <1>5, ConditionPhase, EndPhase DEF Next

\* Types, the stage of every action and the phase of the delivery.
LEMMA RunInvInit == Init => RunInv
<1>1. ASSUME Init
      PROVE  TypeOK
  <2>1. details \in Seq(Verdict) /\ Len(details) <= Len(Conditions)
    BY <1>1, RuleType DEF Init
  <2> QED
    BY <1>1, <2>1, NothingType, StartType DEF Init, TypeOK
<1>2. ASSUME Init
      PROVE  StageInv /\ PhaseInv
  BY <1>2, StartStage DEF Init, Starting, PhaseInv
<1> QED
  BY <1>1, <1>2 DEF RunInv

LEMMA RunInvStep ==
  ASSUME RunInv, [Next]_vars
  PROVE  RunInv'
<1>1. CASE Next
  <2>1. pc \in {"row", "hook"} => InActions
    BY DEF RunInv, StageInv
  <2>2. TypeOK'
    <3>1. CASE LogSuccess \/ LogRetry \/ LogPermanentFailure
      BY <2>1, <3>1, RowType DEF RunInv, LogSuccess, LogRetry, LogPermanentFailure
    <3>2. CASE RunHook \/ HookFails \/ EndAction
      BY <2>1, <3>2, HookType, EndType DEF RunInv, RunHook, HookFails, EndAction
    <3> QED
      BY <1>1, <3>1, <3>2, EnvironmentType, ConditionType, RunType, UnknownTypeType, EndType,
         CutShortType DEF Next, RunInv
  <2> QED
    BY <1>1, <2>2, NextStageInv, NextPhaseInv DEF RunInv
<1>2. CASE UNCHANGED vars
  <2>1. TypeOK' /\ PhaseInv'
    BY <1>2 DEF vars, progress, bounds, history, RunInv, TypeOK, PhaseInv, Taken
  <2>2. StageInv'
    BY <1>2, StageKept DEF vars, progress, RunInv, StageInv
  <2> QED
    BY <2>1, <2>2 DEF RunInv
<1> QED
  BY <1>1, <1>2

LEMMA RunInvariance == Spec => []RunInv
<1>1. RunInv /\ [Next]_vars => RunInv'
  BY RunInvStep
<1> QED
  BY RunInvInit, <1>1, PTL DEF Spec

\* Every variable of the run of a rule keeps its type: attempt stays within
\* the retries of the action, and the loop within the actions.
THEOREM TypeCorrectness == Spec => []TypeOK
<1>1. RunInv => TypeOK
  BY DEF RunInv
<1> QED
  BY RunInvariance, <1>1, PTL

\* run_action_with_retry and _dispatch_sub_actions: when an event is processed
\* every action of a rule that was taken has had its retries and exactly the
\* sub-actions of its outcome, each once and in order, whatever became of the
\* other actions; and of a rule that was not taken nothing was run.
THEOREM RuleIsSettled == Spec => []SettledWhenProcessed
<1>1. RunInv => SettledWhenProcessed
  <2> SUFFICES ASSUME RunInv, pc = "processed"
               PROVE  IF Taken THEN \A a \in DOMAIN Actions : Done(a)
                      ELSE /\ Len(details) = Len(Conditions)
                           /\ \A a \in DOMAIN Actions : Untouched(a)
    BY DEF SettledWhenProcessed, Done, Untouched
  <2>1. CASE Taken
    <3>1. act = Len(Actions) + 1
      BY <2>1 DEF RunInv, PhaseInv
    <3>2. \A a \in DOMAIN Actions : a < act
      BY <3>1, RuleType
    <3> QED
      BY <2>1, <3>2 DEF RunInv, StageInv
  <2>2. CASE ~Taken
    <3>1. act = 1 /\ Len(details) = Len(Conditions) /\ attempt = 0
      BY <2>2 DEF RunInv, PhaseInv, StageInv, TypeOK
    <3>2. ASSUME NEW a \in DOMAIN Actions
          PROVE  Untouched(a)
      <4>1. CASE a > act
        BY <4>1 DEF RunInv, StageInv
      <4>2. CASE a = act
        <5>1. Trying(a)
          BY <3>1, <4>2, RuleType DEF RunInv, StageInv, InActions
        <5>2. rows[a] \in Seq(Label) /\ Len(rows[a]) = 0 /\ called[a] = <<>>
          BY <3>1, <5>1 DEF RunInv, TypeOK, Trying
        <5> QED
          BY <5>2 DEF Untouched
      <4> QED
        BY <3>1, <4>1, <4>2, RuleType
    <3> QED
      BY <2>2, <3>1, <3>2
  <2> QED
    BY <2>1, <2>2
<1> QED
  BY RunInvariance, <1>1, PTL
-----------------------------------------------------------------------------
(* What has been inserted, and from where                                  *)

LEMMA KindOfHook ==
  ASSUME NEW p
  PROVE  /\ p[2] = "success" => KindOf(p) = Actions[p[1]].on_success[p[3]]
         /\ p[2] = "error" => KindOf(p) = Actions[p[1]].on_failure[p[3]]
  BY DEF KindOf

LEMMA PlaceKind ==
  ASSUME NEW p, IsPlace(p)
  PROVE  /\ KindOf(p) \in Kinds
         /\ p[1] \in DOMAIN Actions /\ p[1] \in Nat /\ p[3] \in Nat
         /\ p[2] = "action" => Actions[p[1]].emits \in Kinds
<1> PICK a \in DOMAIN Actions :
        \/ p = <<a, "action", 1>> /\ Actions[a].emits \in Kinds
        \/ \E i \in DOMAIN Actions[a].on_success : p = <<a, "success", i>>
        \/ \E i \in DOMAIN Actions[a].on_failure : p = <<a, "error", i>>
  BY DEF IsPlace
<1>1. /\ Actions[a].on_success \in Seq(Kinds) /\ Actions[a].on_failure \in Seq(Kinds)
      /\ a \in Nat
  BY ActionType, RuleType
<1>2. CASE p = <<a, "action", 1>> /\ Actions[a].emits \in Kinds
  BY <1>1, <1>2 DEF KindOf
<1>3. ASSUME NEW i \in DOMAIN Actions[a].on_success, p = <<a, "success", i>>
      PROVE  KindOf(p) \in Kinds /\ p[1] = a /\ p[2] = "success" /\ p[3] \in Nat
  BY <1>1, <1>3 DEF KindOf
<1>4. ASSUME NEW i \in DOMAIN Actions[a].on_failure, p = <<a, "error", i>>
      PROVE  KindOf(p) \in Kinds /\ p[1] = a /\ p[2] = "error" /\ p[3] \in Nat
  BY <1>1, <1>4 DEF KindOf
<1> QED
  BY <1>1, <1>2, <1>3, <1>4

\* The place from which an emit, or a sub-action, inserts its event.
LEMMA EmitPlace ==
  ASSUME RunInv, RunEmit
  PROVE  /\ Insert(Current.emits, <<act, "action", 1>>) /\ Current.emits \in Kinds
         /\ IsPlace(<<act, "action", 1>>)
         /\ KindOf(<<act, "action", 1>>) = Current.emits
<1>1. act \in DOMAIN Actions /\ Current.emits \in Kinds
  BY CurrentType DEF RunEmit, RunInv
<1> QED
  BY <1>1 DEF RunEmit, IsPlace, KindOf, Current

LEMMA HookPlace ==
  ASSUME RunInv, RunHook
  PROVE  /\ Insert(Hooks[NextHook], <<act, result, NextHook>>) /\ Hooks[NextHook] \in Kinds
         /\ IsPlace(<<act, result, NextHook>>)
         /\ KindOf(<<act, result, NextHook>>) = Hooks[NextHook]
         /\ called'[act] = Append(called[act], Hooks[NextHook])
         /\ called[act] \in Seq(Kinds)
<1>1. InActions
  BY DEF RunHook, RunInv, StageInv
<1>2. act \in DOMAIN Actions /\ Hooks \in Seq(Kinds)
  BY <1>1, CurrentType DEF RunInv
<1>3. /\ called \in [DOMAIN Actions -> Seq(Kinds)] /\ result \in {"success", "error"}
      /\ called' = [called EXCEPT ![act] = Append(called[act], Hooks[NextHook])]
  BY DEF RunInv, TypeOK, RunHook, CallHook
<1>4. NextHook \in DOMAIN Hooks /\ Hooks[NextHook] \in Kinds
  <2>1. Len(called[act]) \in Nat
    BY <1>2, <1>3
  <2>2. NextHook \in 1 .. Len(Hooks)
    BY <1>2, <2>1 DEF NextHook, RunHook
  <2> QED
    BY <1>2, <2>2
<1> DEFINE place == <<act, result, NextHook>>
<1>0. place[1] = act /\ place[2] = result /\ place[3] = NextHook
  OBVIOUS
<1>5. ASSUME result = "success"
      PROVE  IsPlace(place) /\ KindOf(place) = Hooks[NextHook]
  <2>1. Hooks = Actions[act].on_success /\ place = <<act, "success", NextHook>>
    BY <1>5 DEF Hooks, Current
  <2>2. IsPlace(place)
    BY <1>2, <1>4, <2>1 DEF IsPlace
  <2>3. KindOf(place) = Hooks[NextHook]
    BY <1>0, <1>5, <2>1, KindOfHook
  <2> QED
    BY <2>2, <2>3
<1>6. ASSUME result = "error"
      PROVE  IsPlace(place) /\ KindOf(place) = Hooks[NextHook]
  <2>1. Hooks = Actions[act].on_failure /\ place = <<act, "error", NextHook>>
    BY <1>6 DEF Hooks, Current
  <2>2. IsPlace(place)
    BY <1>2, <1>4, <2>1 DEF IsPlace
  <2>3. KindOf(place) = Hooks[NextHook]
    BY <1>0, <1>6, <2>1, KindOfHook
  <2> QED
    BY <2>2, <2>3
<1>7. called'[act] = Append(called[act], Hooks[NextHook]) /\ called[act] \in Seq(Kinds)
  BY <1>2, <1>3
<1> QED
  BY <1>3, <1>4, <1>5, <1>6, <1>7 DEF RunHook

\* An event more in the window, from this place.
LEMMA InsertPlace ==
  ASSUME RunInv, PlaceInv, NEW place, IsPlace(place), Insert(KindOf(place), place),
         expired' = expired
  PROVE  /\ \A p \in inserted' : IsPlace(p)
         /\ expired' = 0 => \A p \in inserted' : count'[KindOf(p)] > 0
<1>1. KindOf(place) \in Kinds /\ \A p \in inserted : KindOf(p) \in Kinds
  BY PlaceKind DEF PlaceInv
<1>2. /\ count' = [count EXCEPT ![KindOf(place)] = count[KindOf(place)] + 1]
      /\ inserted' = inserted \cup {place} /\ count \in [Kinds -> Nat]
  BY DEF Insert, RunInv, TypeOK
<1>3. \A k \in Kinds : count'[k] >= count[k]
  BY <1>2
<1>4. count'[KindOf(place)] > 0
  BY <1>1, <1>2
<1>5. \A k \in Kinds : count[k] \in Nat /\ count'[k] \in Nat
  BY <1>2
<1>6. ASSUME expired = 0, NEW p \in inserted'
      PROVE  count'[KindOf(p)] > 0
  <2>1. CASE p = place
    BY <1>4, <2>1
  <2>2. CASE p \in inserted
    <3>1. count[KindOf(p)] > 0 /\ KindOf(p) \in Kinds
      BY <1>1, <1>6, <2>2 DEF PlaceInv
    <3> QED
      BY <1>3, <1>5, <3>1
  <2> QED
    BY <1>2, <1>6, <2>1, <2>2
<1> QED
  BY <1>2, <1>6 DEF PlaceInv

LEMMA NextPlaceInv ==
  ASSUME RunInv, PlaceInv, Next
  PROVE  PlaceInv'
<1>1. ASSUME NEW k \in Kinds, Publish(k)
      PROVE  PlaceInv'
  <2>1. \A p \in inserted : KindOf(p) \in Kinds
    BY PlaceKind DEF PlaceInv
  <2>2. \A j \in Kinds : count[j] \in Nat /\ count'[j] \in Nat /\ count'[j] >= count[j]
    BY <1>1 DEF Publish, RunInv, TypeOK
  <2>3. UNCHANGED <<pc, act, result, inserted, expired>>
    BY <1>1 DEF Publish, progress, history
  <2> QED
    BY <2>1, <2>2, <2>3 DEF PlaceInv, Current
<1>2. ASSUME NEW k \in Kinds, Expire(k)
      PROVE  PlaceInv'
  <2>1. expired' > 0 /\ UNCHANGED <<pc, act, result, inserted>>
    BY <1>2 DEF Expire, progress, history, RunInv, TypeOK
  <2> QED
    BY <2>1 DEF PlaceInv, Current
<1>3. CASE RunEmit
  <2>1. expired' = expired /\ result' = "success"
    BY <1>3 DEF RunEmit, bounds
  <2> QED
    BY <1>3, <2>1, EmitPlace, InsertPlace DEF PlaceInv
<1>4. CASE RunHook
  <2>1. expired' = expired /\ pc' # "row"
    BY <1>4 DEF RunHook, CallHook
  <2> QED
    BY <1>4, <2>1, HookPlace, InsertPlace DEF PlaceInv
<1>5. ASSUME NEW s \in {"success", "error"}, RunOther(s)
      PROVE  PlaceInv'
  <2>1. Current'.emits = None /\ UNCHANGED <<count, inserted, expired>>
    BY <1>5 DEF RunOther, Current, bounds, history
  <2> QED
    BY <2>1 DEF PlaceInv
<1>6. CASE \/ Deliver \/ Passes \/ Fails \/ TakeRule \/ UnknownType
           \/ LogSuccess \/ LogRetry \/ LogPermanentFailure
           \/ HookFails \/ EndAction \/ EndActions \/ Mark \/ CutShort
  <2>1. UNCHANGED <<count, inserted, expired>> /\ pc' # "row"
    BY <1>6 DEF Deliver, Passes, Fails, Evaluating, TakeRule, UnknownType, LogSuccess, LogRetry,
               LogPermanentFailure, HookFails, CallHook, EndAction, EndActions, Mark, CutShort,
               bounds, history
  <2> QED
    BY <2>1 DEF PlaceInv
<1> QED
  BY <1>1, <1>2, <1>3, <1>4, <1>5, <1>6 DEF Next
-----------------------------------------------------------------------------
(* A guard that has passed in this delivery                                *)

\* What the step inserts, if anything, is the only thing that is new.
LEMMA FreshKept ==
  ASSUME FreshInv, UNCHANGED <<details, inserted>>, expired' = 0 => expired = 0,
         \A p \in inserted : Behind(p) => Behind(p)'
  PROVE  FreshInv'
  BY DEF FreshInv, GuardPassed

LEMMA FreshInserted ==
  ASSUME FreshInv, details' = details, expired' = expired,
         NEW place, inserted' = inserted \cup {place}, Behind(place)',
         \A p \in inserted : Behind(p) => Behind(p)'
  PROVE  FreshInv'
  BY DEF FreshInv, GuardPassed

\* The loop over the actions goes on, or the verdict is on its way: what was
\* behind stays behind.
LEMMA BehindKept ==
  ASSUME RunInv, PlaceInv, UNCHANGED <<count, details, inserted, expired>>, FreshInv,
         act' \in Nat,
         \/ act' = act /\ pc' = pc /\ UNCHANGED <<result, called>>
         \/ act' = act /\ pc \notin {"row", "hook"}
         \/ act' = act /\ pc = "row" /\ pc' = "hook"
         \/ act' = act + 1
  PROVE  FreshInv'
<1>1. ASSUME NEW p \in inserted, Behind(p)
      PROVE  Behind(p)'
  <2>1. p[1] \in Nat /\ act \in Nat
    BY PlaceKind DEF PlaceInv, RunInv, TypeOK
  <2> QED
    BY <1>1, <2>1 DEF Behind
<1> QED
  BY <1>1, FreshKept

\* A count() below one that passes sees no event of its kind: none has been
\* inserted yet.
LEMMA PassesFresh ==
  ASSUME RunInv, PlaceInv, FreshInv, Passes
  PROVE  FreshInv'
<1>1. /\ pc = "condition" /\ UNCHANGED <<count, pc, act, inserted, expired>>
      /\ details' = Append(details, "passed") /\ details \in Seq(Verdict)
      /\ TRUE \in Outcomes(NextCondition)
  BY DEF Passes, Evaluating, bounds, history, RunInv, TypeOK
<1>2. ASSUME NEW k \in Kinds, NextCondition = Guard(k)
      PROVE  count[k] = 0
  <2>1. Outcomes(Guard(k)) = {count[k] < 1}
    BY DEF Outcomes, Guard
  <2>2. count[k] < 1 /\ count[k] \in Nat
    BY <1>1, <1>2, <2>1 DEF RunInv, TypeOK
  <2> QED
    BY <2>2
<1>3. ASSUME expired = 0, NEW p \in inserted, GuardPassed(KindOf(p))'
      PROVE  Behind(p)'
  <2>1. KindOf(p) \in Kinds /\ count[KindOf(p)] > 0
    BY <1>3, PlaceKind DEF PlaceInv
  <2>2. PICK i \in DOMAIN details' : details'[i] = "passed" /\ Conditions[i] = Guard(KindOf(p))
    BY <1>3 DEF GuardPassed
  <2>3. CASE i \in DOMAIN details
    <3>1. details[i] = "passed"
      BY <1>1, <2>2, <2>3
    <3>2. Behind(p)
      BY <1>3, <2>2, <2>3, <3>1 DEF FreshInv, GuardPassed
    <3> QED
      BY <1>1, <3>2 DEF Behind
  <2>4. CASE i \notin DOMAIN details
    <3>1. i = Len(details) + 1
      BY <1>1, <2>4
    <3> QED
      BY <1>2, <2>1, <2>2, <3>1 DEF NextCondition
  <2> QED
    BY <2>3, <2>4
<1> QED
  BY <1>1, <1>3 DEF FreshInv

LEMMA FailsFresh ==
  ASSUME RunInv, PlaceInv, FreshInv, Fails
  PROVE  FreshInv'
<1>1. pc = "condition" /\ pc' = "mark" /\ UNCHANGED <<act, inserted, expired>>
  BY DEF Fails, Evaluating, bounds, history
<1>2. ASSUME NEW k, GuardPassed(k)'
      PROVE  GuardPassed(k)
  <2>1. PICK i \in DOMAIN details' : details'[i] = "passed" /\ Conditions[i] = Guard(k)
    BY <1>2 DEF GuardPassed
  <2>2. details \in Seq(Verdict) /\ details' \in Seq(Verdict)
    BY FailsType DEF RunInv, TypeOK
  <2>3. i \in 1 .. Len(details') /\ ~(i > Len(details))
    BY <2>1, <2>2, FailsType DEF RunInv
  <2>4. i \in 1 .. Len(details)
    BY <2>2, <2>3
  <2>5. details[i] = "passed" /\ i \in DOMAIN details
    BY <2>1, <2>2, <2>4, FailsType DEF RunInv
  <2> QED
    BY <2>1, <2>5 DEF GuardPassed
<1>3. \A p : Behind(p) => Behind(p)'
  BY <1>1 DEF Behind
<1> QED
  BY <1>1, <1>2, <1>3 DEF FreshInv

LEMMA InsertFresh ==
  ASSUME RunInv, PlaceInv, FreshInv, RunEmit \/ RunHook
  PROVE  FreshInv'
<1>1. CASE RunEmit
  <2>1. /\ pc = "run" /\ pc' = "row" /\ UNCHANGED <<details, act, expired>>
        /\ inserted' = inserted \cup {<<act, "action", 1>>}
    BY <1>1 DEF RunEmit, Insert, bounds
  <2>2. Behind(<<act, "action", 1>>)'
    BY <2>1 DEF Behind
  <2>3. \A p \in inserted : Behind(p) => Behind(p)'
    BY <2>1 DEF Behind
  <2> QED
    BY <2>1, <2>2, <2>3, FreshInserted
<1>2. CASE RunHook
  <2>1. /\ pc = "hook" /\ pc' = "hook" /\ UNCHANGED <<details, act, result, expired>>
        /\ inserted' = inserted \cup {<<act, result, NextHook>>}
        /\ Len(called'[act]) = NextHook /\ Len(called[act]) \in Nat
        /\ NextHook = Len(called[act]) + 1
    BY <1>2, HookPlace DEF RunHook, CallHook, Insert, NextHook
  <2>2. ASSUME NEW p, p = <<act, result, NextHook>>
        PROVE  Behind(p)'
    <3>1. p[1] = act /\ p[2] = result /\ p[3] = NextHook
      BY <2>2
    <3> QED
      BY <2>1, <3>1 DEF Behind
  <2>3. ASSUME NEW p \in inserted, Behind(p)
        PROVE  Behind(p)'
    <3>1. p[3] <= Len(called[act]) => p[3] <= Len(called'[act])
      <4>1. p[3] \in Nat
        BY PlaceKind DEF PlaceInv
      <4> QED
        BY <2>1, <4>1
    <3> QED
      BY <2>1, <2>3, <3>1 DEF Behind
  <2>4. PICK place : place = <<act, result, NextHook>>
    OBVIOUS
  <2> QED
    BY <2>1, <2>2, <2>3, <2>4, FreshInserted
<1> QED
  BY <1>1, <1>2
\* A handler that failed had not inserted anything.
LEMMA LogRetryFresh ==
  ASSUME RunInv, PlaceInv, FreshInv, LogRetry
  PROVE  FreshInv'
<1>1. /\ pc = "row" /\ result = "error" /\ pc' = "run"
      /\ UNCHANGED <<details, act, inserted, expired>>
  BY DEF LogRetry, bounds, history
<1>2. Current.emits = None
  BY <1>1 DEF PlaceInv
<1>3. ASSUME NEW p \in inserted, Behind(p)
      PROVE  Behind(p)'
  <2>1. ~(p[1] = act /\ p[2] = "action")
    BY <1>2, PlaceKind, RuleAssumption DEF PlaceInv, Current
  <2> QED
    BY <1>1, <1>3, <2>1 DEF Behind
<1> QED
  BY <1>1, <1>3, FreshKept

LEMMA NextFreshInv ==
  ASSUME RunInv, PlaceInv, FreshInv, Next
  PROVE  FreshInv'
<1>1. ASSUME NEW k \in Kinds, Publish(k) \/ Expire(k)
      PROVE  FreshInv'
  <2>1. UNCHANGED <<pc, details, act, result, called, inserted>>
    BY <1>1 DEF Publish, Expire, progress, history
  <2>2. expired' = 0 => expired = 0
    BY <1>1 DEF Publish, Expire, RunInv, TypeOK
  <2>3. \A p : Behind(p) => Behind(p)'
    BY <2>1 DEF Behind
  <2> QED
    BY <2>1, <2>2, <2>3, FreshKept
<1>2. CASE Deliver \/ TakeRule \/ EndActions \/ Mark \/ \E s \in {"success", "error"} : RunOther(s)
  <2>1. UNCHANGED <<count, details, act, inserted, expired>> /\ pc \notin {"row", "hook"}
    BY <1>2 DEF Deliver, TakeRule, EndActions, Mark, RunOther, progress, bounds, history
  <2> QED
    BY <2>1, BehindKept DEF RunInv, TypeOK
<1>3. CASE LogSuccess \/ LogPermanentFailure
  <2>1. UNCHANGED <<count, details, act, inserted, expired>> /\ pc = "row" /\ pc' = "hook"
    BY <1>3 DEF LogSuccess, LogPermanentFailure, bounds, history
  <2> QED
    BY <2>1, BehindKept DEF RunInv, TypeOK
<1>4. CASE UnknownType \/ EndAction
  <2>1. UNCHANGED <<count, details, inserted, expired>> /\ act' = act + 1
    BY <1>4 DEF UnknownType, EndAction, bounds, history
  <2> QED
    BY <2>1, BehindKept DEF RunInv, TypeOK
<1>5. CASE HookFails
  <2>1. /\ UNCHANGED <<pc, details, act, result, inserted, expired>> /\ pc = "hook"
        /\ called' = [called EXCEPT ![act] = Append(called[act], Hooks[NextHook])]
    BY <1>5 DEF HookFails, CallHook, history
  <2>2. act \in DOMAIN Actions /\ called \in [DOMAIN Actions -> Seq(Kinds)]
    BY <2>1, CurrentType DEF RunInv, StageInv, TypeOK
  <2>3. Len(called'[act]) = Len(called[act]) + 1 /\ Len(called[act]) \in Nat
    BY <2>1, <2>2
  <2>4. ASSUME NEW p \in inserted, Behind(p)
        PROVE  Behind(p)'
    <3>1. p[3] \in Nat
      BY PlaceKind DEF PlaceInv
    <3>2. p[3] <= Len(called[act]) => p[3] <= Len(called'[act])
      BY <2>3, <3>1
    <3> QED
      BY <2>1, <2>4, <3>2 DEF Behind
  <2> QED
    BY <2>1, <2>4, FreshKept
<1>6. CASE CutShort
  BY <1>6 DEF CutShort, FreshInv, GuardPassed
<1> QED
  BY <1>1, <1>2, <1>3, <1>4, <1>5, <1>6, PassesFresh, FailsFresh, InsertFresh, LogRetryFresh DEF Next

-----------------------------------------------------------------------------
\* While the actions run every guard of the rule has passed.
LEMMA GuardsPassed ==
  ASSUME RunInv, pc \in {"run", "hook"}, NEW k, Guarded(k)
  PROVE  GuardPassed(k)
<1>1. Taken /\ Len(details) = Len(Conditions) /\ details \in Seq(Verdict)
  BY DEF RunInv, PhaseInv, TypeOK
<1>2. PICK i \in DOMAIN Conditions : Conditions[i] = Guard(k)
  BY DEF Guarded, Guard, ToSet
<1>3. i \in DOMAIN details
  BY <1>1, RuleType
<1> QED
  BY <1>1, <1>2, <1>3 DEF Taken, GuardPassed

\* A place that is not behind has not inserted a guarded event yet.
LEMMA NextNotRepeated ==
  ASSUME IndInv, Next
  PROVE  GuardedNotRepeated'
<1>0. expired' \in {expired, expired + 1} /\ expired \in Nat
  <2>1. CASE \E k \in Kinds : Publish(k) \/ Expire(k)
    BY <2>1 DEF Publish, Expire, IndInv, RunInv, TypeOK
  <2>2. CASE ~\E k \in Kinds : Publish(k) \/ Expire(k)
    <3>1. expired' = expired
      BY <2>2 DEF Next, Deliver, Passes, Fails, TakeRule, UnknownType, RunEmit, RunOther,
             LogSuccess, LogRetry, LogPermanentFailure, RunHook, HookFails, CallHook, EndAction,
             EndActions, Mark, CutShort, bounds
    <3> QED
      BY <3>1 DEF IndInv, RunInv, TypeOK
  <2> QED
    BY <2>1, <2>2
<1>1. ASSUME again' = again
      PROVE  GuardedNotRepeated'
  <2>1. \A place \in again : Guarded(KindOf(place)) => expired > 0
    BY DEF IndInv, GuardedNotRepeated
  <2>2. expired > 0 => expired' > 0
    BY <1>0
  <2> QED
    BY <1>1, <2>1, <2>2 DEF GuardedNotRepeated
<1>2. ASSUME NEW place, again' = again \cup (inserted \cap {place}), expired' = expired,
             pc \in {"run", "hook"}, ~Behind(place)
      PROVE  GuardedNotRepeated'
  <2> SUFFICES ASSUME expired = 0, place \in inserted, Guarded(KindOf(place))
               PROVE  FALSE
    BY <1>2 DEF IndInv, GuardedNotRepeated, RunInv, TypeOK
  <2>1. GuardPassed(KindOf(place))
    BY <1>2, GuardsPassed DEF IndInv
  <2> QED
    BY <1>2, <2>1 DEF IndInv, FreshInv
<1>3. CASE RunEmit
  <2>1. /\ pc = "run" /\ expired' = expired /\ act \in Nat
        /\ again' = again \cup (inserted \cap {<<act, "action", 1>>})
    BY <1>3 DEF RunEmit, Insert, bounds, IndInv, RunInv, TypeOK
  <2>2. ~Behind(<<act, "action", 1>>)
    BY <2>1 DEF Behind
  <2> QED
    BY <1>2, <2>1, <2>2
<1>4. CASE RunHook
  <2>1. /\ pc = "hook" /\ expired' = expired /\ act \in Nat /\ result \in {"success", "error"}
        /\ again' = again \cup (inserted \cap {<<act, result, NextHook>>})
        /\ NextHook = Len(called[act]) + 1 /\ Len(called[act]) \in Nat
    BY <1>4, HookPlace
    DEF RunHook, CallHook, Insert, NextHook, IndInv, RunInv, TypeOK
  <2>2. ASSUME NEW p, p = <<act, result, NextHook>>
        PROVE  ~Behind(p)
    <3>1. p[1] = act /\ p[2] = result /\ p[3] = NextHook
      BY <2>2
    <3> QED
      BY <2>1, <3>1 DEF Behind
  <2> QED
    BY <1>2, <2>1, <2>2
<1>5. CASE ~RunEmit /\ ~RunHook
  <2>1. again' = again
    BY <1>5 DEF Next, Publish, Expire, Deliver, Passes, Fails, TakeRule, UnknownType, RunOther,
           LogSuccess, LogRetry, LogPermanentFailure, HookFails, EndAction, EndActions, Mark,
           CutShort, history
  <2> QED
    BY <1>1, <2>1
<1> QED
  BY <1>3, <1>4, <1>5

LEMMA IndInvInit == Init => IndInv
<1>1. Init => PlaceInv /\ FreshInv /\ GuardedNotRepeated
  BY DEF Init, PlaceInv, FreshInv, GuardedNotRepeated
<1> QED
  BY <1>1, RunInvInit DEF IndInv

LEMMA IndInvStep ==
  ASSUME IndInv, [Next]_vars
  PROVE  IndInv'
<1>1. RunInv'
  BY RunInvStep DEF IndInv
<1>2. CASE Next
  BY <1>1, <1>2, NextPlaceInv, NextFreshInv, NextNotRepeated DEF IndInv
<1>3. CASE UNCHANGED vars
  <2>1. PlaceInv' /\ FreshInv' /\ GuardedNotRepeated'
    BY <1>3 DEF vars, progress, bounds, history, IndInv, PlaceInv, FreshInv, Behind, GuardPassed,
               GuardedNotRepeated, Current
  <2> QED
    BY <1>1, <2>1 DEF IndInv
<1> QED
  BY <1>2, <1>3

\* A rule with the condition count(k, window) < 1 inserts its events of kind k
\* from each place once, however often a crash or a locked database makes the
\* daemon deliver the event again, as long as nothing leaves the window.
THEOREM GuardKeepsFromRepeating == Spec => []GuardedNotRepeated
<1>1. IndInv /\ [Next]_vars => IndInv'
  BY IndInvStep
<1>2. IndInv => GuardedNotRepeated
  BY DEF IndInv
<1> QED
  BY IndInvInit, <1>1, <1>2, PTL DEF Spec
=============================================================================
