--------------------------- MODULE EventLoopProofs ---------------------------
(***************************************************************************)
(* Theorems about EventLoop, for every set of policies, every number of    *)
(* published events and every number of faults: strict order of service,   *)
(* no action for an event that is not waiting, and the refinement of       *)
(* EventQueue.                                                             *)
(*                                                                         *)
(* ServedInOrder is not inductive: that the event about to be marked is    *)
(* the oldest one that waits follows from what the batch still holds.  The *)
(* strengthening says how the batch and the event in progress relate to    *)
(* the table.                                                              *)
(*                                                                         *)
(* On top of it three invariants relate what the daemon has in memory to   *)
(* the log and to what was really run: what it has passed over has a row   *)
(* (CollectedInv), what the rows in memory say was run was run (TakenInv), *)
(* and what was run in this attempt lies behind it (AttemptInv).           *)
(***************************************************************************)
EXTENDS EventLoop, TLAPS

\* The rows the daemon has in memory are waiting rows of the table, and it
\* has none between two polls.
BatchInv ==
    /\ batch \subseteq unprocessed
    /\ pc \in {"down", "idle"} => batch = {}
    /\ Working => cur \in unprocessed \ batch

\* What waits and is not in the batch came after the batch was read.
OrderInv ==
    /\ \A i \in batch, j \in unprocessed : j \in batch \/ i < j \/ (Working /\ j = cur)
    /\ Working => \A j \in unprocessed : cur <= j

IndInv == TypeOK /\ BatchInv /\ OrderInv /\ ServedInOrder

-----------------------------------------------------------------------------
(* The steps, grouped by what they do to the table and to the memory.      *)

\* A step that does not touch the table, the batch and the event in progress.
\* The loop counters move inside the event.
Inside ==
    \/ SkipPolicy \/ SuppressPolicy \/ AdmitPolicy \/ EndPolicy \/ EndPolicies
    \/ SkipRule \/ RejectRule \/ TakeRule \/ EndRule \/ RunShell
    \/ LogEvals \/ LogEvalsFails

\* A step that forgets the batch.
Cut == Raise \/ Locked \/ Crash

\* The initial state satisfies the inductive invariant.
LEMMA InitInv == Init => IndInv
  BY DEF Init, IndInv, TypeOK, BatchInv, OrderInv, ServedInOrder, Processed, Ids, Working

\* One more action run keeps the type of the history.
LEMMA RecordRunType ==
  ASSUME TypeOK, cur \in Ids, RecordRun
  PROVE  /\ ran' \subseteq Ids \X Nat \X Nat \X Nat
         /\ rerun' \subseteq ran'
         /\ act' \in Nat
         /\ cutShort' = cutShort /\ unlogged' = unlogged
<1>1. <<cur, pol, rule, act>> \in Ids \X Nat \X Nat \X Nat
  BY DEF TypeOK
<1> QED
  BY <1>1 DEF TypeOK, RecordRun

\* A step that leaves the table, the batch and what was run as they are keeps
\* the types if what the loops and the log are given has the right one.
LEMMA LoopsTypeOK ==
  ASSUME TypeOK,
         UNCHANGED <<events, unprocessed, batch, cur, published, ran, rerun, cutShort>>,
         unlogged' \subseteq Ids, evalLog' \subseteq Ids \X Nat \X Nat \X Outcomes,
         pc' \in {"down", "idle", "next", "policy", "rule", "action", "log", "mark"},
         pol' \in Nat, rule' \in Nat, act' \in Nat, faults' \in Nat,
         rows' \subseteq Nat \X Nat \X Outcomes
  PROVE  TypeOK'
BY DEF TypeOK, Ids

\* The type invariant is kept by the steps inside an event.
LEMMA InsideTypeOK ==
  ASSUME IndInv, Inside
  PROVE  TypeOK'
<1>0. TypeOK
  BY DEF IndInv
<1>t. /\ evalLog \subseteq Ids \X Nat \X Nat \X Outcomes
      /\ pc \in {"down", "idle", "next", "policy", "rule", "action", "log", "mark"}
      /\ pol \in Nat /\ rule \in Nat /\ act \in Nat /\ faults \in Nat
      /\ rows \subseteq Nat \X Nat \X Outcomes
      /\ unlogged \subseteq Ids
      /\ pol + 1 \in Nat /\ rule + 1 \in Nat /\ faults + 1 \in Nat
  BY <1>0 DEF TypeOK
<1>1. CASE SkipPolicy
  BY <1>0, <1>t, <1>1, LoopsTypeOK DEF SkipPolicy, table, history
<1>2. CASE SuppressPolicy
  <2>1. {<<pol, r, "rate_limited">> : r \in Matching(pol, events[cur])}
            \subseteq Nat \X Nat \X Outcomes
    BY <1>t DEF Matching, Outcomes
  <2>2. rows' \subseteq Nat \X Nat \X Outcomes /\ pol' \in Nat
    BY <1>t, <1>2, <2>1 DEF SuppressPolicy
  <2> QED
    BY <1>0, <1>t, <1>2, <2>2, LoopsTypeOK DEF SuppressPolicy, table, history
<1>3. CASE AdmitPolicy
  BY <1>0, <1>t, <1>3, LoopsTypeOK DEF AdmitPolicy, table, history
<1>4. CASE EndPolicy
  BY <1>0, <1>t, <1>4, LoopsTypeOK DEF EndPolicy, table, history
<1>5. CASE EndPolicies
  BY <1>0, <1>t, <1>5, LoopsTypeOK DEF EndPolicies, table, history, memory
<1>6. CASE SkipRule
  BY <1>0, <1>t, <1>6, LoopsTypeOK DEF SkipRule, table, history
<1>7. CASE RejectRule
  <2>1. <<pol, rule, "not_taken">> \in Nat \X Nat \X Outcomes
    BY <1>t DEF Outcomes
  <2>2. rows' \subseteq Nat \X Nat \X Outcomes /\ rule' \in Nat
    BY <1>t, <1>7, <2>1 DEF RejectRule
  <2> QED
    BY <1>0, <1>t, <1>7, <2>2, LoopsTypeOK DEF RejectRule, table, history
<1>8. CASE TakeRule
  <2>1. <<pol, rule, "taken">> \in Nat \X Nat \X Outcomes
    BY <1>t DEF Outcomes
  <2>2. rows' \subseteq Nat \X Nat \X Outcomes
    BY <1>t, <1>8, <2>1 DEF TakeRule
  <2> QED
    BY <1>0, <1>t, <1>8, <2>2, LoopsTypeOK DEF TakeRule, table, history
<1>9. CASE EndRule
  BY <1>0, <1>t, <1>9, LoopsTypeOK DEF EndRule, table, history
<1>10. CASE RunShell
  <2>1. cur \in Ids /\ RecordRun
    BY <1>10 DEF IndInv, TypeOK, BatchInv, RunShell, AtAction, Working
  <2>2. UNCHANGED <<events, unprocessed, evalLog, pc, batch, cur, pol, rule, rows,
                    published, faults>>
    BY <1>10 DEF RunShell, table
  <2> QED
    BY <1>0, <2>1, <2>2, RecordRunType DEF TypeOK, Ids
<1>11. CASE LogEvals
  <2>1. cur \in Ids
    BY <1>11 DEF IndInv, TypeOK, BatchInv, LogEvals, Working
  <2>2. {<<cur, row[1], row[2], row[3]>> : row \in rows} \subseteq Ids \X Nat \X Nat \X Outcomes
    BY <1>t, <2>1
  <2>3. evalLog' \subseteq Ids \X Nat \X Nat \X Outcomes
    BY <1>t, <1>11, <2>2 DEF LogEvals
  <2> QED
    BY <1>0, <1>t, <1>11, <2>3, LoopsTypeOK DEF LogEvals, table, memory, history
<1>12. CASE LogEvalsFails
  <2>1. cur \in Ids
    BY <1>12 DEF IndInv, TypeOK, BatchInv, LogEvalsFails, Working
  <2>2. unlogged' \subseteq Ids
    BY <1>t, <1>12, <2>1 DEF LogEvalsFails
  <2> QED
    BY <1>0, <1>t, <1>12, <2>2, LoopsTypeOK DEF LogEvalsFails, table, memory
<1> QED
  BY <1>1, <1>2, <1>3, <1>4, <1>5, <1>6, <1>7, <1>8, <1>9, <1>10, <1>11, <1>12 DEF Inside

\* Nothing the steps inside an event change matters to the other invariants.
LEMMA InsideInv ==
  ASSUME IndInv, Inside
  PROVE  IndInv'
<1>1. /\ UNCHANGED <<events, unprocessed, batch, cur>>
      /\ Working /\ Working'
  BY DEF Inside, SkipPolicy, SuppressPolicy, AdmitPolicy, EndPolicy, EndPolicies,
         SkipRule, RejectRule, TakeRule, EndRule, RunShell, LogEvals, LogEvalsFails,
         AtRule, Evaluable, AtAction, Working, table, memory
<1>2. BatchInv' /\ OrderInv' /\ ServedInOrder'
  BY <1>1 DEF IndInv, BatchInv, OrderInv, ServedInOrder, Processed, Ids, Working
<1> QED
  BY <1>2, InsideTypeOK DEF IndInv

\* A new row at i comes after every other one and leaves them as they are.
Inserted(i, k) ==
    /\ i \in Nat \ {0} /\ i \notin Ids /\ \A j \in Ids : j < i
    /\ Ids' = Ids \cup {i} /\ events' \in [Ids' -> Kinds]
    /\ events'[i] = k /\ \A j \in Ids : events'[j] = events[j]
    /\ unprocessed' = unprocessed \cup {i}
    /\ Processed' = Processed

LEMMA InsertInv ==
  ASSUME TypeOK, NEW k \in Kinds, Insert(k)
  PROVE  \E i \in Nat \ {0} : Inserted(i, k)
<1>1. Ids \subseteq Nat \ {0} /\ events \in [Ids -> Kinds] /\ unprocessed \subseteq Ids
  BY DEF TypeOK
<1>2. PICK i \in NewIds : InsertAt(i, k)
  BY DEF Insert
<1>3. i \in Nat \ {0} /\ \A j \in Ids : j < i
  BY <1>1, <1>2 DEF NewIds
<1>4. i \notin Ids
  BY <1>1, <1>3
<1>5. /\ events' = [j \in Ids \cup {i} |-> IF j = i THEN k ELSE events[j]]
      /\ unprocessed' = unprocessed \cup {i}
  BY <1>2 DEF InsertAt
<1>6. Ids' = Ids \cup {i}
  BY <1>5 DEF Ids
<1>7. events' \in [Ids' -> Kinds] /\ events'[i] = k /\ \A j \in Ids : events'[j] = events[j]
  BY <1>1, <1>4, <1>5, <1>6
<1>8. Processed' = Processed
  BY <1>1, <1>4, <1>5, <1>6 DEF Processed
<1> QED
  BY <1>3, <1>4, <1>5, <1>6, <1>7, <1>8 DEF Inserted

\* Another process inserts a row.
LEMMA PublishInv ==
  ASSUME IndInv, NEW k \in Kinds, Publish(k)
  PROVE  IndInv'
<1>1. Insert(k) /\ UNCHANGED <<evalLog, pc, memory, faults, history>>
      /\ published' \in Nat
  BY DEF Publish, IndInv, TypeOK
<1>2. PICK i \in Nat \ {0} : Inserted(i, k)
  BY <1>1, InsertInv DEF IndInv
<1>3. TypeOK'
  BY <1>1, <1>2 DEF IndInv, TypeOK, Inserted, memory, history
<1>4. BatchInv'
  BY <1>1, <1>2 DEF IndInv, TypeOK, BatchInv, Inserted, memory, Working
<1>5. OrderInv'
  BY <1>1, <1>2 DEF IndInv, TypeOK, BatchInv, OrderInv, Inserted, memory, Working
<1>6. ServedInOrder'
  BY <1>1, <1>2 DEF IndInv, TypeOK, ServedInOrder, Inserted, Processed
<1> QED
  BY <1>3, <1>4, <1>5, <1>6 DEF IndInv

\* A rule's action inserts a row.
LEMMA RunEmitInv ==
  ASSUME IndInv, NEW k \in Kinds, RunEmit(k)
  PROVE  IndInv'
<1>1. /\ Insert(k) /\ RecordRun /\ Working /\ cur \in Ids
      /\ UNCHANGED <<evalLog, pc, batch, cur, pol, rule, rows, published, faults>>
  BY DEF RunEmit, AtAction, Working, IndInv, TypeOK, BatchInv
<1>2. PICK i \in Nat \ {0} : Inserted(i, k)
  BY <1>1, InsertInv DEF IndInv
<1>3. TypeOK'
  BY <1>1, <1>2, RecordRunType DEF IndInv, TypeOK, Inserted
<1>4. BatchInv'
  BY <1>1, <1>2 DEF IndInv, TypeOK, BatchInv, Inserted, Working
<1>5. OrderInv'
  <2>1. unprocessed' = unprocessed \cup {i}
    BY <1>2 DEF Inserted
  <2>2. cur <= i /\ \A j \in batch : j < i
    BY <1>1, <1>2 DEF IndInv, TypeOK, Inserted
  <2>3. Working' /\ batch' = batch /\ cur' = cur
    BY <1>1 DEF Working
  <2> QED
    BY <1>1, <2>1, <2>2, <2>3 DEF IndInv, OrderInv
<1>6. ServedInOrder'
  BY <1>1, <1>2 DEF IndInv, TypeOK, ServedInOrder, Inserted, Processed
<1> QED
  BY <1>3, <1>4, <1>5, <1>6 DEF IndInv

\* The oldest row of the batch is the oldest one that waits, as long as no
\* event is in progress.
LEMMA NextIsOldest ==
  ASSUME IndInv, pc = "next", NEW i \in batch, IsNext(i)
  PROVE  i \in unprocessed /\ \A j \in unprocessed : i <= j
  BY DEF IndInv, TypeOK, BatchInv, OrderInv, IsNext, Working, Ids

\* A malformed event is completed without being worked on.
LEMMA DropMalformedInv ==
  ASSUME IndInv, NEW i \in batch, DropMalformed(i)
  PROVE  IndInv'
<1>1. /\ i \in unprocessed /\ \A j \in unprocessed : i <= j
      /\ i \in Ids
  BY NextIsOldest DEF DropMalformed, IndInv, TypeOK
<1>2. TypeOK'
  BY <1>1 DEF IndInv, TypeOK, DropMalformed, MarkProcessed, history, Ids
<1>3. BatchInv' /\ OrderInv'
  BY DEF IndInv, BatchInv, OrderInv, DropMalformed, MarkProcessed, Working
<1>4. ServedInOrder'
  BY <1>1 DEF IndInv, TypeOK, ServedInOrder, DropMalformed, MarkProcessed, Processed, Ids
<1> QED
  BY <1>2, <1>3, <1>4 DEF IndInv

\* The event in progress is the oldest row of the batch.
LEMMA StartEventInv ==
  ASSUME IndInv, NEW i \in batch, StartEvent(i)
  PROVE  IndInv'
<1>1. /\ i \in unprocessed /\ \A j \in unprocessed : i <= j
      /\ i \in Ids
  BY NextIsOldest DEF StartEvent, IndInv, TypeOK
<1>2. TypeOK'
  BY <1>1 DEF IndInv, TypeOK, StartEvent, table, history, Ids
<1>3. BatchInv' /\ OrderInv'
  BY <1>1 DEF IndInv, TypeOK, BatchInv, OrderInv, StartEvent, IsNext, table, Working, Ids
<1>4. ServedInOrder'
  BY DEF IndInv, ServedInOrder, Processed, Ids, StartEvent, table
<1> QED
  BY <1>2, <1>3, <1>4 DEF IndInv

\* The event in progress is completed.
LEMMA MarkInv ==
  ASSUME IndInv, Mark
  PROVE  IndInv'
<1>1. cur \in unprocessed \ batch /\ cur \in Ids /\ \A j \in unprocessed : cur <= j
  BY DEF IndInv, TypeOK, BatchInv, OrderInv, Mark, Working
<1>2. TypeOK'
  BY <1>1 DEF IndInv, TypeOK, Mark, MarkProcessed, ReturnFromEvent, history, Ids, Outcomes
<1>3. BatchInv' /\ OrderInv'
  BY <1>1 DEF IndInv, TypeOK, BatchInv, OrderInv, Mark, MarkProcessed, ReturnFromEvent,
              Working, Ids
<1>4. ServedInOrder'
  BY <1>1 DEF IndInv, TypeOK, ServedInOrder, Mark, MarkProcessed, Processed, Ids
<1> QED
  BY <1>2, <1>3, <1>4 DEF IndInv

\* An exception, a locked database or a crash leaves the row waiting.
LEMMA CutInv ==
  ASSUME IndInv, Cut
  PROVE  IndInv'
<1>1. /\ Abandon /\ UNCHANGED <<events, unprocessed, evalLog, published>>
      /\ faults' \in Nat /\ pc' \in {"idle", "down"}
  BY DEF Cut, Raise, Locked, Crash, table, IndInv, TypeOK
<1>2. Working => cur \in Ids
  BY DEF IndInv, TypeOK, BatchInv
<1>3. TypeOK'
  BY <1>1, <1>2 DEF IndInv, TypeOK, Abandon, ReturnFromEvent, Ids, Outcomes
<1>4. BatchInv' /\ OrderInv' /\ ServedInOrder'
  BY <1>1 DEF IndInv, BatchInv, OrderInv, ServedInOrder, Processed, Ids, Abandon, Working
<1> QED
  BY <1>3, <1>4 DEF IndInv

\* The janitor deletes rows when the daemon holds none, and what was logged of
\* them with them.
LEMMA JanitorInv ==
  ASSUME IndInv, NEW old \in SUBSET Ids, Janitor(old)
  PROVE  IndInv'
<1>1. /\ pc = "idle" /\ UNCHANGED <<pc, memory, published, faults>>
      /\ events' = [i \in Ids \ old |-> events[i]]
      /\ unprocessed' = unprocessed \ old /\ evalLog' = {e \in evalLog : e[1] \in Ids'}
      /\ ran' = {a \in ran : a[1] \notin old} /\ rerun' = {a \in rerun : a[1] \notin old}
      /\ cutShort' = cutShort \ old /\ unlogged' = unlogged \ old
  BY DEF Janitor, DeleteRows
<1>2. Ids' = Ids \ old
  BY <1>1 DEF Ids
<1>3. Processed' = Processed \ old
  BY <1>1, <1>2 DEF Processed
<1>4. batch = {}
  BY <1>1 DEF IndInv, BatchInv
<1>5. TypeOK'
  <2>1. Ids' \subseteq Nat \ {0} /\ events' \in [Ids' -> Kinds] /\ unprocessed' \subseteq Ids'
    BY <1>1, <1>2 DEF IndInv, TypeOK
  <2>2. evalLog' \subseteq Ids' \X Nat \X Nat \X Outcomes
    BY <1>1 DEF IndInv, TypeOK
  <2>3. ran' \subseteq Ids' \X Nat \X Nat \X Nat /\ rerun' \subseteq ran'
    BY <1>1, <1>2 DEF IndInv, TypeOK
  <2>4. batch' \subseteq Ids' /\ cutShort' \subseteq Ids' /\ unlogged' \subseteq Ids'
    BY <1>1, <1>2, <1>4 DEF IndInv, TypeOK, memory
  <2> QED
    BY <1>1, <2>1, <2>2, <2>3, <2>4 DEF IndInv, TypeOK, memory
<1>6. BatchInv' /\ OrderInv' /\ ServedInOrder'
  BY <1>1, <1>3, <1>4 DEF IndInv, BatchInv, OrderInv, ServedInOrder, memory, Working
<1> QED
  BY <1>5, <1>6 DEF IndInv

\* The steps that only move the daemon, or the clock.
LEMMA MoveInv ==
  ASSUME IndInv, Poll \/ EndBatch \/ Restart \/ UNCHANGED vars
  PROVE  IndInv'
<1>1. TypeOK'
  <2> USE DEF IndInv, TypeOK, table, memory, history, Ids
  <2>1. CASE Poll
    BY <2>1 DEF Poll
  <2>2. CASE EndBatch
    BY <2>2 DEF EndBatch
  <2>3. CASE Restart
    BY <2>3 DEF Restart
  <2>4. CASE UNCHANGED vars
    BY <2>4 DEF vars
  <2> QED
    BY <2>1, <2>2, <2>3, <2>4
<1>2. BatchInv' /\ OrderInv' /\ ServedInOrder'
  BY DEF IndInv, TypeOK, BatchInv, OrderInv, ServedInOrder, Processed, Ids, Poll, EndBatch,
         Restart, vars, table, memory, Working
<1> QED
  BY <1>1, <1>2 DEF IndInv

\* Every step keeps the inductive invariant.
LEMMA NextInv ==
  ASSUME IndInv, [Next]_vars
  PROVE  IndInv'
  BY InsideInv, PublishInv, RunEmitInv, DropMalformedInv, StartEventInv, MarkInv, CutInv,
     JanitorInv, MoveInv
  DEF Next, Daemon, Environment, Inside, Cut

\* The inductive invariant holds in every behaviour.
THEOREM Invariance == Spec => []IndInv
<1>1. Init => IndInv
  BY InitInv
<1>2. IndInv /\ [Next]_vars => IndInv'
  BY NextInv
<1> QED
  BY <1>1, <1>2, PTL DEF Spec

\* The variables keep their types, whatever the policies are.
THEOREM TypeCorrectness == Spec => []TypeOK
<1>1. IndInv => TypeOK
  BY DEF IndInv
<1> QED
  BY <1>1, Invariance, PTL

\* Events are completed strictly in the order of their ids, for every number
\* of producers, policies, crashes and locked-database errors.
THEOREM StrictOrder == Spec => []ServedInOrder
<1>1. IndInv => ServedInOrder
  BY DEF IndInv
<1> QED
  BY <1>1, Invariance, PTL

\* An action runs only for the event in progress, which waits.
THEOREM WaitingOnly == Spec => OnlyWaitingEventsRun
<1>1. ASSUME IndInv, [Next]_vars
      PROVE  \A a \in (ran' \ ran) \cup (rerun' \ rerun) : a[1] \in unprocessed
  <2>1. CASE RecordRun /\ pc = "action"
    <3>1. cur \in unprocessed
      BY <1>1, <2>1 DEF IndInv, BatchInv, Working
    <3> QED
      BY <2>1, <3>1 DEF RecordRun
  <2>2. CASE ran' \subseteq ran /\ rerun' \subseteq rerun
    BY <2>2
  <2> QED
    BY <1>1, <2>1, <2>2
    DEF Next, Daemon, Environment, vars, history, AtAction,
        Poll, EndBatch, DropMalformed, StartEvent, SkipPolicy, SuppressPolicy, AdmitPolicy,
        EndPolicy, EndPolicies, SkipRule, RejectRule, TakeRule, EndRule, RunShell, RunEmit,
        LogEvals, LogEvalsFails, Mark, Raise, Locked, Crash, Abandon, Restart, Publish,
        Janitor, DeleteRows
<1>2. IndInv /\ [Next]_vars
        => [\A a \in (ran' \ ran) \cup (rerun' \ rerun) : a[1] \in unprocessed]_vars
  BY <1>1
<1> QED
  BY <1>2, Invariance, PTL DEF Spec, OnlyWaitingEventsRun

-----------------------------------------------------------------------------
(* Refinement                                                              *)

\* A step that leaves the table alone leaves the abstract queue alone.
LEMMA TableStutter ==
  ASSUME UNCHANGED table
  PROVE  UNCHANGED Bus!queueVars
  BY DEF table, Bus!queueVars

\* An insert publishes an event.
LEMMA InsertEnqueues ==
  ASSUME TypeOK, NEW k \in Kinds, Insert(k)
  PROVE  Bus!QueueNext
<1>1. Ids \subseteq Nat \ {0} /\ unprocessed \subseteq Ids
  BY DEF TypeOK
<1>2. PICK i \in NewIds : InsertAt(i, k)
  BY DEF Insert
<1>3. i \in Nat /\ \A j \in Ids : j < i
  BY <1>1, <1>2 DEF NewIds
<1>4. Bus!Enqueue(i, k)
  BY <1>2, <1>3 DEF InsertAt, Bus!Enqueue, Ids
<1>5. i \in unprocessed' \ unprocessed
  BY <1>1, <1>2, <1>3 DEF InsertAt
<1> QED
  BY <1>4, <1>5 DEF Bus!QueueNext

\* Marking the oldest waiting row completes the oldest pending event.
LEMMA MarkCompletes ==
  ASSUME NEW i \in unprocessed, \A j \in unprocessed : i <= j, MarkProcessed(i)
  PROVE  Bus!QueueNext
  BY DEF MarkProcessed, Bus!QueueNext, Bus!Complete

\* The janitor expires the rows past the retention.
LEMMA JanitorExpires ==
  ASSUME NEW old \in SUBSET Ids, Janitor(old)
  PROVE  Bus!QueueNext
<1>1. Bus!Expire(old)
  BY DEF Janitor, DeleteRows, Bus!Expire, Ids
<1> QED
  BY <1>1 DEF Bus!QueueNext, Ids

\* Every step of the daemon and its environment is a step of the queue.
LEMMA StepRefines ==
  ASSUME IndInv, [Next]_vars
  PROVE  [Bus!QueueNext]_(Bus!queueVars)
<1>1. ASSUME NEW k \in Kinds, Publish(k) \/ RunEmit(k)
      PROVE  Bus!QueueNext
  BY <1>1, InsertEnqueues DEF IndInv, Publish, RunEmit, Bus!QueueNext
<1>2. ASSUME NEW i \in batch, DropMalformed(i)
      PROVE  Bus!QueueNext
  BY <1>2, NextIsOldest, MarkCompletes DEF DropMalformed
<1>3. CASE Mark
  BY <1>3, MarkCompletes DEF Mark, IndInv, BatchInv, OrderInv, Working
<1>4. CASE UNCHANGED table
  BY <1>4, TableStutter
<1> QED
  BY <1>1, <1>2, <1>3, <1>4, JanitorExpires
  DEF Next, Daemon, Environment, vars,
      Poll, EndBatch, StartEvent, SkipPolicy, SuppressPolicy, AdmitPolicy,
      EndPolicy, EndPolicies, SkipRule, RejectRule, TakeRule, EndRule, RunShell,
      LogEvals, LogEvalsFails, Raise, Locked, Crash, Restart

\* The daemon implements the abstract event queue.
THEOREM Refinement == Spec => ImplementsQueue
<1>1. Init => Bus!QueueInit
  BY DEF Init, Bus!QueueInit
<1>2. IndInv /\ [Next]_vars => [Bus!QueueNext]_(Bus!queueVars)
  BY StepRefines
<1> QED
  BY <1>1, <1>2, Invariance, PTL DEF Spec, ImplementsQueue, Bus!QueueSpec
-----------------------------------------------------------------------------
(* The evaluation log, and what was run                                    *)

HasRow(p, r) == \E o \in Outcomes : <<p, r, o>> \in rows
HasLogRow(i, p, r) == \E o \in Outcomes : <<i, p, r, o>> \in evalLog

\* The loops over policies and rules have come to rule r of policy p, or
\* further; while its actions run, the rule has been judged.
Passed(p, r) ==
    \/ pc = "log" \/ p < pol
    \/ pc \in {"rule", "action"} /\ p = pol /\ r < rule
    \/ pc = "action" /\ p = pol /\ r = rule

\* The matching rules that the daemon has passed have a row in memory; when it
\* is about to mark the event they have one in the log, or the write failed.
CollectedInv ==
    /\ pc \in {"policy", "rule", "action", "log"} =>
           \A p \in 1 .. Len(Policies) : \A r \in Matching(p, events[cur]) :
               Passed(p, r) => HasRow(p, r)
    /\ pc = "mark" =>
           \/ cur \in unlogged
           \/ \A p \in 1 .. Len(Policies) : \A r \in Matching(p, events[cur]) :
                  HasLogRow(cur, p, r)

AccountInv == CollectedInv /\ EveryRuleAccounted

\* A row in memory that says "taken" is of a rule whose actions have run, but
\* for those of the rule in progress that are still ahead.
TakenInv ==
    Working => \A row \in rows : row[3] = "taken" =>
        \A k \in 1 .. Len(Acts(row[1], row[2])) :
            \/ <<cur, row[1], row[2], k>> \in ran
            \/ pc = "action" /\ row[1] = pol /\ row[2] = rule /\ act <= k

RanInv == TakenInv /\ LoggedMeansRun

\* The loops over policies, rules and actions have left action a behind.
Behind(a) ==
    \/ pc \in {"log", "mark"} \/ a[2] < pol
    \/ pc \in {"rule", "action"} /\ a[2] = pol /\ a[3] < rule
    \/ pc = "action" /\ a[2] = pol /\ a[3] = rule /\ a[4] < act

\* What was run for an event that waits, and that no attempt was cut short
\* for, was run in the attempt in progress, and is behind the daemon.
AttemptInv ==
    \A a \in ran : a[1] \in unprocessed \ cutShort => Working /\ a[1] = cur /\ Behind(a)

OnceInv == AttemptInv /\ RepeatedOnlyIfCutShort

\* The rules that match are rules of the policy, numbered from 1.
LEMMA MatchingType ==
  ASSUME NEW p \in 1 .. Len(Policies), NEW k, NEW r \in Matching(p, k)
  PROVE  r \in Nat /\ r <= Len(Policies[p]) /\ Len(Policies[p]) \in Nat
<1>1. Policies[p] \in Seq(Rules)
  BY PoliciesAssumption
<1> QED
  BY <1>1 DEF Matching

\* The steps that move the daemon over policies, rules and actions, and what
\* they have in common.
Over ==
    \/ SkipPolicy \/ SuppressPolicy \/ AdmitPolicy \/ EndPolicy \/ EndPolicies
    \/ SkipRule \/ RejectRule \/ TakeRule \/ EndRule \/ RunShell

LEMMA OverKeeps ==
  ASSUME Over
  PROVE  /\ UNCHANGED <<events, unprocessed, evalLog, cur, unlogged, cutShort>>
         /\ rows \subseteq rows'
         /\ pc \in {"policy", "rule", "action"}
  BY DEF Over, SkipPolicy, SuppressPolicy, AdmitPolicy, EndPolicy, EndPolicies,
         SkipRule, RejectRule, TakeRule, EndRule, RunShell, RecordRun,
         AtRule, Evaluable, AtAction, table, memory, history

\* Passing over a policy or a rule, the daemon leaves a row for what matches.
LEMMA OverCollects ==
  ASSUME IndInv, CollectedInv, Over
  PROVE  CollectedInv'
<1>0. /\ UNCHANGED <<events, cur>> /\ rows \subseteq rows'
      /\ pol \in Nat /\ rule \in Nat
      /\ pc \in {"policy", "rule", "action"}
      /\ pc' \in {"policy", "rule", "action", "log"}
  BY OverKeeps
  DEF IndInv, TypeOK, Over, SkipPolicy, SuppressPolicy, AdmitPolicy, EndPolicy, EndPolicies,
      SkipRule, RejectRule, TakeRule, EndRule, RunShell, AtRule, Evaluable
<1> DEFINE new(p, r) == Passed(p, r)' => Passed(p, r) \/ HasRow(p, r)'
<1>1. ASSUME NEW p \in 1 .. Len(Policies), NEW r \in Matching(p, events[cur])
      PROVE  new(p, r)
  <2>0. p \in Nat /\ p <= Len(Policies) /\ r \in Nat /\ r <= Len(Policies[p])
        /\ Len(Policies) \in Nat /\ Len(Policies[p]) \in Nat
        /\ Matches(p, r, events[cur])
    BY MatchingType, PoliciesAssumption DEF Matching
  <2>1. CASE SkipPolicy
    BY <1>0, <2>0, <2>1 DEF SkipPolicy, Passed
  <2>2. CASE SuppressPolicy
    BY <1>0, <2>0, <2>2 DEF SuppressPolicy, Passed, HasRow, Outcomes
  <2>3. CASE AdmitPolicy
    <3>1. r >= 1
      BY DEF Matching
    <3> QED
      BY <1>0, <2>0, <2>3, <3>1 DEF AdmitPolicy, Passed
  <2>4. CASE EndPolicy
    BY <1>0, <2>0, <2>4 DEF EndPolicy, Passed
  <2>5. CASE EndPolicies
    BY <1>0, <2>0, <2>5 DEF EndPolicies, Passed, memory
  <2>6. CASE SkipRule
    BY <1>0, <2>0, <2>6 DEF SkipRule, AtRule, Passed
  <2>7. CASE RejectRule
    BY <1>0, <2>0, <2>7 DEF RejectRule, Evaluable, AtRule, Passed, HasRow, Outcomes
  <2>8. CASE TakeRule
    BY <1>0, <2>0, <2>8 DEF TakeRule, Evaluable, AtRule, Passed, HasRow, Outcomes
  <2>9. CASE EndRule
    BY <1>0, <2>0, <2>9 DEF EndRule, Passed
  <2>10. CASE RunShell
    BY <1>0, <2>0, <2>10 DEF RunShell, AtAction, Passed
  <2> QED
    BY <2>1, <2>2, <2>3, <2>4, <2>5, <2>6, <2>7, <2>8, <2>9, <2>10 DEF Over
<1>2. \A p, r : HasRow(p, r) => HasRow(p, r)'
  BY <1>0 DEF HasRow
<1>3. \A p : Matching(p, events[cur])' = Matching(p, events[cur])
  BY <1>0 DEF Matching, Matches
<1> QED
  BY <1>0, <1>1, <1>2, <1>3 DEF CollectedInv

\* A new row leaves the kinds of the earlier ones as they are.
LEMMA InsertKeepsKinds ==
  ASSUME TypeOK, NEW k \in Kinds, Insert(k)
  PROVE  Processed' = Processed /\ \A i \in Ids : events'[i] = events[i]
  BY InsertInv DEF Inserted

\* A step of the janitor.
Deletes == \E old \in SUBSET Ids : Janitor(old)

\* No step but the janitor's takes rows of the log away, and no step takes an
\* event off the list of those whose rows could not be written.
LEMMA LogGrows ==
  ASSUME [Next]_vars, ~Deletes
  PROVE  evalLog \subseteq evalLog' /\ unlogged \subseteq unlogged'
  BY DEF Next, Daemon, Environment, vars, history,
         Poll, EndBatch, DropMalformed, StartEvent, SkipPolicy, SuppressPolicy, AdmitPolicy,
         EndPolicy, EndPolicies, SkipRule, RejectRule, TakeRule, EndRule, RunShell, RunEmit,
         RecordRun, LogEvals, LogEvalsFails, Mark, Raise, Locked, Crash, Abandon, Restart,
         Publish, Deletes

\* Logged for every rule that matches, or excused.
Accounted(i) ==
    \/ events[i] \in Malformed \/ i \in unlogged
    \/ \A p \in 1 .. Len(Policies) : \A r \in Matching(p, events[i]) : HasLogRow(i, p, r)

LEMMA EveryAccounted == EveryRuleAccounted <=> \A i \in Processed : Accounted(i)
  BY DEF EveryRuleAccounted, Accounted, HasLogRow

\* What was accounted for stays so while the log grows.
LEMMA AccountedStays ==
  ASSUME NEW i, Accounted(i), events'[i] = events[i],
         evalLog \subseteq evalLog', unlogged \subseteq unlogged'
  PROVE  Accounted(i)'
<1>1. \A p, r : HasLogRow(i, p, r) => HasLogRow(i, p, r)'
  BY DEF HasLogRow
<1>2. \A p : Matching(p, events[i])' = Matching(p, events[i])
  BY DEF Matching, Matches
<1> QED
  BY <1>1, <1>2 DEF Accounted

\* The steps after which the daemon holds what it held.
Still == \/ UNCHANGED vars \/ \E k \in Kinds : Publish(k) \/ RunEmit(k)

LEMMA StillCollects ==
  ASSUME IndInv, CollectedInv, Still
  PROVE  CollectedInv'
<1>1. /\ UNCHANGED <<pc, cur, pol, rule, rows, unlogged, evalLog>>
      /\ Working => events'[cur] = events[cur]
  <2>1. ASSUME NEW k \in Kinds, Publish(k) \/ RunEmit(k)
        PROVE  \A i \in Ids : events'[i] = events[i]
    BY <2>1, InsertKeepsKinds DEF Publish, RunEmit, IndInv
  <2>2. Working => cur \in Ids
    BY DEF IndInv, TypeOK, BatchInv
  <2>3. UNCHANGED vars => UNCHANGED events
    BY DEF vars, table
  <2> QED
    BY <2>1, <2>2, <2>3
    DEF Still, vars, Publish, RunEmit, RecordRun, memory, history
<1>2. ASSUME Working, NEW p
      PROVE  Matching(p, events[cur])' = Matching(p, events[cur])
  BY <1>1, <1>2 DEF Matching, Matches
<1>3. \A p, r : /\ Passed(p, r)' <=> Passed(p, r)
                /\ HasRow(p, r)' <=> HasRow(p, r)
                /\ HasLogRow(cur, p, r)' <=> HasLogRow(cur, p, r)
  BY <1>1 DEF Passed, HasRow, HasLogRow
<1> QED
  BY <1>1, <1>2, <1>3 DEF CollectedInv, Working

\* Every step keeps the account of the event in progress.
LEMMA CollectedStep ==
  ASSUME IndInv, CollectedInv, [Next]_vars
  PROVE  CollectedInv'
<1>1. CASE Over
  BY <1>1, OverCollects
<1>2. CASE Still
  BY <1>2, StillCollects
<1>3. ASSUME NEW i \in batch, StartEvent(i)
      PROVE  CollectedInv'
  <2>1. pc' = "policy" /\ pol' = 1
    BY <1>3 DEF StartEvent
  <2>2. \A p \in 1 .. Len(Policies) : \A r : ~Passed(p, r)'
    BY <2>1, PoliciesAssumption DEF Passed
  <2> QED
    BY <2>1, <2>2 DEF CollectedInv
<1>4. CASE LogEvals
  <2>1. /\ pc = "log" /\ pc' = "mark" /\ UNCHANGED <<events, cur, unlogged>>
        /\ \A row \in rows : <<cur, row[1], row[2], row[3]>> \in evalLog'
    BY <1>4 DEF LogEvals, table, memory, history
  <2>2. ASSUME NEW p, NEW r, HasRow(p, r)
        PROVE  HasLogRow(cur, p, r)'
    <3>1. PICK o \in Outcomes : <<p, r, o>> \in rows
      BY <2>2 DEF HasRow
    <3>2. <<cur, p, r, o>> \in evalLog'
      BY <2>1, <3>1
    <3> QED
      BY <2>1, <3>2 DEF HasLogRow
  <2>3. \A p \in 1 .. Len(Policies) : \A r \in Matching(p, events[cur]) : HasLogRow(cur, p, r)'
    BY <2>1, <2>2 DEF CollectedInv, Passed
  <2>4. \A p : Matching(p, events[cur])' = Matching(p, events[cur])
    BY <2>1 DEF Matching, Matches
  <2> QED
    BY <2>1, <2>3, <2>4 DEF CollectedInv
<1>5. CASE LogEvalsFails
  BY <1>5 DEF LogEvalsFails, CollectedInv, memory
<1>6. pc' \notin {"policy", "rule", "action", "log", "mark"} => CollectedInv'
  BY DEF CollectedInv
<1> QED
  BY <1>1, <1>2, <1>3, <1>4, <1>5, <1>6
  DEF Next, Daemon, Environment, Over, Still,
      Poll, EndBatch, DropMalformed, Mark, Raise, Locked, Crash, Restart, Janitor, DeleteRows

\* Every step keeps the account of the processed events.
LEMMA AccountStep ==
  ASSUME IndInv, AccountInv, [Next]_vars
  PROVE  AccountInv'
<1>1. CollectedInv'
  BY CollectedStep DEF AccountInv
<1>2. /\ \A i \in Processed : Accounted(i) /\ i \in Ids
      /\ CollectedInv
  BY EveryAccounted DEF AccountInv, Processed
<1>3. ASSUME NEW old \in SUBSET Ids, Janitor(old)
      PROVE  AccountInv'
  <2>1. /\ events' = [i \in Ids \ old |-> events[i]]
        /\ unprocessed' = unprocessed \ old /\ unlogged' = unlogged \ old
        /\ evalLog' = {e \in evalLog : e[1] \in Ids'}
    BY <1>3 DEF Janitor, DeleteRows
  <2>2. ASSUME NEW i \in Processed'
        PROVE  Accounted(i)'
    <3>0. i \in Processed \ old /\ i \in Ids' /\ events'[i] = events[i]
      BY <2>1, <2>2 DEF Processed, Ids
    <3>1. \A p, r : HasLogRow(i, p, r) => HasLogRow(i, p, r)'
      BY <2>1, <3>0 DEF HasLogRow
    <3>2. \A p : Matching(p, events[i])' = Matching(p, events[i])
      BY <3>0 DEF Matching, Matches
    <3> QED
      BY <1>2, <2>1, <3>0, <3>1, <3>2 DEF Accounted
  <2> QED
    BY <1>1, <2>2 DEF AccountInv, EveryRuleAccounted, Accounted, HasLogRow
<1>4. CASE ~Deletes
  <2>1. evalLog \subseteq evalLog' /\ unlogged \subseteq unlogged'
    BY <1>4, LogGrows
  <2>2. \A i \in Ids : events'[i] = events[i]
    <3>1. ASSUME NEW k \in Kinds, Publish(k) \/ RunEmit(k)
          PROVE  \A i \in Ids : events'[i] = events[i]
      BY <3>1, InsertKeepsKinds DEF Publish, RunEmit, IndInv
    <3> QED
      BY <1>4, <3>1
      DEF Next, Daemon, Environment, vars, table, MarkProcessed,
          Poll, EndBatch, DropMalformed, StartEvent, SkipPolicy, SuppressPolicy, AdmitPolicy,
          EndPolicy, EndPolicies, SkipRule, RejectRule, TakeRule, EndRule, RunShell,
          LogEvals, LogEvalsFails, Mark, Raise, Locked, Crash, Restart, Deletes
  <2>3. \A i \in Processed : Accounted(i)'
    BY <1>2, <2>1, <2>2, AccountedStays
  <2>4. ASSUME NEW i \in batch, DropMalformed(i)
        PROVE  Accounted(i)' /\ Processed' = Processed \cup {i}
    BY <2>4 DEF DropMalformed, MarkProcessed, Accounted, Processed, Ids, IndInv, BatchInv, TypeOK
  <2>5. CASE Mark
    <3>1. /\ pc = "mark" /\ Processed' = Processed \cup {cur} /\ cur \in Ids
          /\ UNCHANGED events
      BY <2>5 DEF Mark, MarkProcessed, IndInv, TypeOK, BatchInv, Working, Processed, Ids
    <3>2. Accounted(cur)
      BY <1>2, <3>1 DEF CollectedInv, Accounted
    <3>3. \A i \in {cur} : Accounted(i)'
      BY <2>1, <2>2, <3>1, <3>2, AccountedStays
    <3> QED
      BY <1>1, <2>3, <3>1, <3>3 DEF AccountInv, EveryRuleAccounted, Accounted, HasLogRow
  <2>6. CASE Processed' = Processed
    BY <1>1, <2>3, <2>6 DEF AccountInv, EveryRuleAccounted, Accounted, HasLogRow
  <2>7. ASSUME NEW i \in batch, DropMalformed(i)
        PROVE  AccountInv'
    BY <1>1, <2>3, <2>4, <2>7 DEF AccountInv, EveryRuleAccounted, Accounted, HasLogRow
  <2>8. ASSUME NEW k \in Kinds, Publish(k) \/ RunEmit(k)
        PROVE  Processed' = Processed
    BY <2>8, InsertKeepsKinds DEF Publish, RunEmit, IndInv
  <2>9. UNCHANGED table => Processed' = Processed
    BY DEF table, Processed, Ids
  <2> QED
    BY <1>4, <2>5, <2>6, <2>7, <2>8, <2>9
    DEF Next, Daemon, Environment, vars,
        Poll, EndBatch, StartEvent, SkipPolicy, SuppressPolicy, AdmitPolicy,
        EndPolicy, EndPolicies, SkipRule, RejectRule, TakeRule, EndRule, RunShell,
        LogEvals, LogEvalsFails, Raise, Locked, Crash, Restart, Deletes
<1> QED
  BY <1>3, <1>4 DEF Deletes

\* A processed event has an evaluation row for every rule that matches it,
\* unless it was malformed or the rows could not be written; for any policies
\* and any number of crashes and lock errors.
THEOREM NoRulePassedOver == Spec => []EveryRuleAccounted
<1>1. Init => AccountInv
  BY DEF Init, AccountInv, CollectedInv, EveryRuleAccounted, Processed, Ids
<1>2. IndInv /\ AccountInv /\ [Next]_vars => AccountInv'
  BY AccountStep
<1>3. AccountInv => EveryRuleAccounted
  BY DEF AccountInv
<1> QED
  BY <1>1, <1>2, <1>3, Invariance, PTL DEF Spec

-----------------------------------------------------------------------------
\* What was run stays run, as long as the event has its row.
LEMMA RanGrows ==
  ASSUME [Next]_vars, ~Deletes
  PROVE  ran \subseteq ran'
  BY DEF Next, Daemon, Environment, vars, history,
         Poll, EndBatch, DropMalformed, StartEvent, SkipPolicy, SuppressPolicy, AdmitPolicy,
         EndPolicy, EndPolicies, SkipRule, RejectRule, TakeRule, EndRule, RunShell, RunEmit,
         RecordRun, LogEvals, LogEvalsFails, Mark, Raise, Locked, Crash, Abandon, Restart,
         Publish, Deletes

\* The actions of the rule a row is about, as far as they are run or ahead.
Performed(row) ==
    \A k \in 1 .. Len(Acts(row[1], row[2])) :
        \/ <<cur, row[1], row[2], k>> \in ran
        \/ pc = "action" /\ row[1] = pol /\ row[2] = rule /\ act <= k

LEMMA TakenPerformed ==
  TakenInv <=> (Working => \A row \in rows : row[3] = "taken" => Performed(row))
  BY DEF TakenInv, Performed

\* A step inside an action's loop: one action is run, and it is the next.
LEMMA RunPerforms ==
  ASSUME TypeOK, TakenInv, pc = "action", pc' = pc, RecordRun,
         UNCHANGED <<cur, pol, rule, rows>>
  PROVE  TakenInv'
<1>1. ASSUME NEW row \in rows, row[3] = "taken", NEW k \in 1 .. Len(Acts(row[1], row[2]))
      PROVE  \/ <<cur, row[1], row[2], k>> \in ran'
             \/ row[1] = pol /\ row[2] = rule /\ act' <= k
  <2>1. \/ <<cur, row[1], row[2], k>> \in ran
        \/ row[1] = pol /\ row[2] = rule /\ act <= k
    BY <1>1 DEF TakenInv, Working
  <2>2. ran' = ran \cup {<<cur, pol, rule, act>>} /\ act' = act + 1
    BY DEF RecordRun
  <2>3. act <= k /\ k \in Nat /\ act \in Nat => k = act \/ act + 1 <= k
    OBVIOUS
  <2> QED
    BY <2>1, <2>2, <2>3 DEF TypeOK
<1> QED
  BY <1>1 DEF TakenInv, Acts

\* Every step keeps the rows that say "taken" true.
LEMMA TakenStep ==
  ASSUME IndInv, TakenInv, [Next]_vars
  PROVE  TakenInv'
<1>0. Working => ran \subseteq ran'
  BY RanGrows DEF Deletes, Janitor, DeleteRows, Working
<1>1. CASE SkipPolicy \/ SuppressPolicy \/ AdmitPolicy \/ EndPolicy \/ EndPolicies \/ SkipRule
           \/ RejectRule \/ LogEvals \/ LogEvalsFails
  <2>1. /\ Working /\ Working' /\ pc # "action" /\ cur' = cur
        /\ \A row \in rows' : row[3] = "taken" => row \in rows
    BY <1>1 DEF SkipPolicy, SuppressPolicy, AdmitPolicy, EndPolicy, EndPolicies, SkipRule,
                RejectRule, LogEvals, LogEvalsFails, AtRule, Evaluable, Working, memory
  <2> QED
    BY <1>0, <2>1 DEF TakenInv, Acts
<1>2. CASE TakeRule
  <2>1. /\ pc = "rule" /\ pc' = "action" /\ UNCHANGED <<cur, pol, rule>> /\ act' = 1
        /\ rows' = rows \cup {<<pol, rule, "taken">>}
    BY <1>2 DEF TakeRule, Evaluable, AtRule
  <2> QED
    BY <1>0, <2>1 DEF TakenInv, Acts, Working
<1>3. CASE EndRule
  <2>1. /\ pc = "action" /\ pc' = "rule" /\ UNCHANGED <<cur, rows, ran>>
        /\ act > Len(Acts(pol, rule))
    BY <1>3 DEF EndRule, history
  <2>2. \A k \in 1 .. Len(Acts(pol, rule)) : ~(act <= k)
    BY <2>1 DEF IndInv, TypeOK
  <2> QED
    BY <2>1, <2>2 DEF TakenInv, Acts, Working
<1>4. CASE RunShell \/ \E k \in Kinds : RunEmit(k)
  BY <1>4, RunPerforms DEF RunShell, RunEmit, AtAction, IndInv
<1>5. ASSUME NEW i \in batch, StartEvent(i)
      PROVE  TakenInv'
  BY <1>5 DEF StartEvent, TakenInv
<1>6. CASE UNCHANGED vars \/ \E k \in Kinds : Publish(k)
  BY <1>6 DEF vars, Publish, memory, history, TakenInv, Acts, Working
<1>7. ~Working' => TakenInv'
  BY DEF TakenInv
<1> QED
  BY <1>1, <1>2, <1>3, <1>4, <1>5, <1>6, <1>7
  DEF Next, Daemon, Environment, Working,
      Poll, EndBatch, DropMalformed, Mark, Raise, Locked, Crash, Restart, Janitor, DeleteRows

\* The log repeats the rows, and nothing is taken out of what was run.
LEMMA RanStep ==
  ASSUME IndInv, RanInv, [Next]_vars
  PROVE  RanInv'
<1>1. TakenInv'
  BY TakenStep DEF RanInv
<1>2. CASE LogEvals
  <2>1. /\ pc = "log" /\ ran' = ran
        /\ evalLog' = evalLog \cup {<<cur, row[1], row[2], row[3]>> : row \in rows}
    BY <1>2 DEF LogEvals, history
  <2>2. \A row \in rows : row[3] = "taken" =>
            \A k \in 1 .. Len(Acts(row[1], row[2])) : <<cur, row[1], row[2], k>> \in ran
    BY <2>1 DEF RanInv, TakenInv, Working
  <2>3. ASSUME NEW e \in evalLog', e[4] = "taken", NEW k \in 1 .. Len(Acts(e[2], e[3]))
        PROVE  <<e[1], e[2], e[3], k>> \in ran
    <3>1. CASE e \in evalLog
      BY <2>3, <3>1 DEF RanInv, LoggedMeansRun
    <3>2. ASSUME NEW row \in rows, e = <<cur, row[1], row[2], row[3]>>
          PROVE  <<e[1], e[2], e[3], k>> \in ran
      <4>1. e[1] = cur /\ e[2] = row[1] /\ e[3] = row[2] /\ e[4] = row[3]
        BY <3>2
      <4> QED
        BY <2>2, <2>3, <4>1
    <3> QED
      BY <2>1, <3>1, <3>2
  <2> QED
    BY <1>1, <2>1, <2>3 DEF RanInv, LoggedMeansRun, Acts
<1>3. CASE evalLog' \subseteq evalLog /\ ~Deletes
  BY <1>1, <1>3, RanGrows DEF RanInv, LoggedMeansRun, Acts
<1>4. ASSUME NEW old \in SUBSET Ids, Janitor(old)
      PROVE  RanInv'
  <2>1. /\ \A e \in evalLog' : e \in evalLog /\ e[1] \notin old
        /\ ran' = {a \in ran : a[1] \notin old}
    BY <1>4 DEF Janitor, DeleteRows, Ids
  <2>2. ASSUME NEW e \in evalLog', e[4] = "taken", NEW k \in 1 .. Len(Acts(e[2], e[3]))
        PROVE  <<e[1], e[2], e[3], k>> \in ran'
    BY <2>1, <2>2 DEF RanInv, LoggedMeansRun
  <2> QED
    BY <1>1, <2>2 DEF RanInv, LoggedMeansRun, Acts
<1> QED
  BY <1>2, <1>3, <1>4
  DEF Next, Daemon, Environment, vars,
      Poll, EndBatch, DropMalformed, StartEvent, SkipPolicy, SuppressPolicy, AdmitPolicy,
      EndPolicy, EndPolicies, SkipRule, RejectRule, TakeRule, EndRule, RunShell, RunEmit,
      LogEvalsFails, Mark, Raise, Locked, Crash, Restart, Publish, Deletes

\* The log never claims what did not happen: where it says "taken", every
\* action of the rule was run for that event.
THEOREM LogTellsTheTruth == Spec => []LoggedMeansRun
<1>1. Init => RanInv
  BY DEF Init, RanInv, TakenInv, LoggedMeansRun, Working
<1>2. IndInv /\ RanInv /\ [Next]_vars => RanInv'
  BY RanStep
<1>3. RanInv => LoggedMeansRun
  BY DEF RanInv
<1> QED
  BY <1>1, <1>2, <1>3, Invariance, PTL DEF Spec

-----------------------------------------------------------------------------
\* The steps of the loops go forward: what is behind the daemon stays so.
LEMMA BehindStays ==
  ASSUME IndInv, Inside \/ \E k \in Kinds : RunEmit(k),
         NEW a \in ran, Behind(a)
  PROVE  Behind(a)'
<1>1. pol \in Nat /\ rule \in Nat /\ act \in Nat /\ a[2] \in Nat /\ a[3] \in Nat /\ a[4] \in Nat
  BY DEF IndInv, TypeOK
<1>2. CASE SkipPolicy \/ SuppressPolicy \/ AdmitPolicy \/ EndPolicy \/ EndPolicies
  BY <1>1, <1>2 DEF SkipPolicy, SuppressPolicy, AdmitPolicy, EndPolicy, EndPolicies,
                    memory, Behind
<1>3. CASE SkipRule \/ RejectRule \/ TakeRule \/ EndRule
  BY <1>1, <1>3 DEF SkipRule, RejectRule, TakeRule, EndRule, Evaluable, AtRule, Behind
<1>4. CASE RunShell \/ \E k \in Kinds : RunEmit(k)
  BY <1>1, <1>4 DEF RunShell, RunEmit, RecordRun, AtAction, Behind
<1>5. CASE LogEvals \/ LogEvalsFails
  BY <1>5 DEF LogEvals, LogEvalsFails, Behind
<1> QED
  BY <1>2, <1>3, <1>4, <1>5 DEF Inside

\* An action of the event in progress: the one that runs was not run before
\* in this attempt, and is behind the daemon when it has.
LEMMA RunOnce ==
  ASSUME IndInv, OnceInv, pc = "action", pc' = pc, RecordRun,
         UNCHANGED <<cur, pol, rule>>, unprocessed \subseteq unprocessed',
         \A i \in Ids : i \in unprocessed' => i \in unprocessed,
         \A a \in ran : Behind(a) => Behind(a)'
  PROVE  OnceInv'
<1> DEFINE IsThis(a) == a = <<cur, pol, rule, act>>
<1>1. /\ ran' = ran \cup {<<cur, pol, rule, act>>}
      /\ rerun' = rerun \cup (ran \cap {<<cur, pol, rule, act>>})
      /\ act' = act + 1 /\ cutShort' = cutShort /\ act \in Nat /\ pol \in Nat /\ rule \in Nat
      /\ cur \in unprocessed /\ cur \in unprocessed' /\ Working /\ Working'
      /\ \A a \in ran : a[1] \in Ids
  BY DEF RecordRun, IndInv, BatchInv, Working, TypeOK
<1>2. ASSUME NEW a, IsThis(a)
      PROVE  a[1] = cur /\ Behind(a)' /\ ~Behind(a)
  BY <1>1, <1>2 DEF Behind
<1>3. ASSUME NEW a \in ran, IsThis(a)
      PROVE  cur \in cutShort
  BY <1>1, <1>2, <1>3 DEF OnceInv, AttemptInv
<1>4. AttemptInv'
  <2>1. ASSUME NEW a \in ran', a[1] \in unprocessed', a[1] \notin cutShort
        PROVE  a[1] = cur /\ Behind(a)'
    <3>1. CASE IsThis(a)
      BY <1>2, <3>1
    <3>2. CASE a \in ran
      BY <1>1, <2>1, <3>2 DEF OnceInv, AttemptInv
    <3> QED
      BY <1>1, <3>1, <3>2
  <2> QED
    BY <1>1, <2>1 DEF AttemptInv
<1>5. RepeatedOnlyIfCutShort'
  <2>1. ASSUME NEW a \in rerun'
        PROVE  a[1] \in cutShort
    <3>1. CASE a \in rerun
      BY <3>1 DEF OnceInv, RepeatedOnlyIfCutShort
    <3>2. CASE a \in ran /\ IsThis(a)
      BY <1>2, <1>3, <3>2
    <3> QED
      BY <1>1, <3>1, <3>2
  <2> QED
    BY <1>1, <2>1 DEF RepeatedOnlyIfCutShort
<1> QED
  BY <1>4, <1>5 DEF OnceInv

\* Every step keeps it true that repetition has a cause.
LEMMA OnceStep ==
  ASSUME IndInv, OnceInv, [Next]_vars
  PROVE  OnceInv'
<1>0. \A a \in ran : a[1] \in Ids
  BY DEF IndInv, TypeOK
<1>1. ASSUME Inside, ~RunShell
      PROVE  OnceInv'
  <2>1. /\ UNCHANGED <<unprocessed, cur, ran, rerun, cutShort>> /\ Working'
    BY <1>1 DEF Inside, SkipPolicy, SuppressPolicy, AdmitPolicy, EndPolicy, EndPolicies,
                SkipRule, RejectRule, TakeRule, EndRule, LogEvals, LogEvalsFails,
                AtRule, Evaluable, Working, table, memory, history
  <2>2. \A a \in ran : Behind(a) => Behind(a)'
    BY <1>1, BehindStays
  <2> QED
    BY <2>1, <2>2 DEF OnceInv, AttemptInv, RepeatedOnlyIfCutShort
<1>2. CASE RunShell
  <2>1. \A a \in ran : Behind(a) => Behind(a)'
    BY <1>2, BehindStays DEF Inside
  <2> QED
    BY <1>2, <2>1, RunOnce DEF RunShell, AtAction, table
<1>3. ASSUME NEW k \in Kinds, RunEmit(k)
      PROVE  OnceInv'
  <2>1. \A a \in ran : Behind(a) => Behind(a)'
    BY <1>3, BehindStays
  <2>2. PICK i \in Nat \ {0} : unprocessed' = unprocessed \cup {i} /\ i \notin Ids
    BY <1>3, InsertInv DEF RunEmit, IndInv, Inserted
  <2> QED
    BY <1>3, <2>1, <2>2, RunOnce DEF RunEmit, AtAction
<1>4. ASSUME NEW k \in Kinds, Publish(k)
      PROVE  OnceInv'
  <2>1. PICK i \in Nat \ {0} : unprocessed' = unprocessed \cup {i} /\ i \notin Ids
    BY <1>4, InsertInv DEF Publish, IndInv, Inserted
  <2>2. UNCHANGED <<pc, memory, history>>
    BY <1>4 DEF Publish
  <2> QED
    BY <1>0, <2>1, <2>2
    DEF OnceInv, AttemptInv, RepeatedOnlyIfCutShort, Behind, Working, memory, history
<1>5. ASSUME NEW i \in batch, StartEvent(i)
      PROVE  OnceInv'
  <2>1. pc = "next" /\ UNCHANGED <<unprocessed, ran, rerun, cutShort>>
    BY <1>5 DEF StartEvent, table, history
  <2> QED
    BY <2>1 DEF OnceInv, AttemptInv, RepeatedOnlyIfCutShort, Working
<1>6. CASE Cut
  <2>1. /\ UNCHANGED <<unprocessed, ran, rerun>>
        /\ cutShort \subseteq cutShort' /\ (Working => cur \in cutShort')
    BY <1>6 DEF Cut, Raise, Locked, Crash, Abandon, table
  <2> QED
    BY <2>1 DEF OnceInv, AttemptInv, RepeatedOnlyIfCutShort
<1>7. CASE Mark
  <2>1. pc = "mark" /\ unprocessed' = unprocessed \ {cur} /\ UNCHANGED history
    BY <1>7 DEF Mark, MarkProcessed
  <2> QED
    BY <2>1 DEF OnceInv, AttemptInv, RepeatedOnlyIfCutShort, history
<1>8. CASE \/ Poll \/ EndBatch \/ Restart \/ UNCHANGED vars
           \/ \E i \in batch : DropMalformed(i)
  <2>1. /\ unprocessed' \subseteq unprocessed /\ UNCHANGED history
        /\ ~Working \/ UNCHANGED <<pc, memory>>
    BY <1>8 DEF Poll, EndBatch, Restart, DropMalformed, MarkProcessed,
                vars, table, Working
  <2> QED
    BY <2>1 DEF OnceInv, AttemptInv, RepeatedOnlyIfCutShort, Behind, Working, memory, history
<1>9. ASSUME NEW old \in SUBSET Ids, Janitor(old)
      PROVE  OnceInv'
  <2>1. /\ ~Working /\ unprocessed' = unprocessed \ old /\ cutShort' = cutShort \ old
        /\ ran' = {a \in ran : a[1] \notin old} /\ rerun' = {a \in rerun : a[1] \notin old}
    BY <1>9 DEF Janitor, DeleteRows, Working
  <2> QED
    BY <2>1 DEF OnceInv, AttemptInv, RepeatedOnlyIfCutShort
<1> QED
  BY <1>1, <1>2, <1>3, <1>4, <1>5, <1>6, <1>7, <1>8, <1>9
  DEF Next, Daemon, Environment, Inside, Cut

\* An action runs twice for the same event only if an attempt at that event
\* was cut short by an exception, a locked database or a crash.
THEOREM RepeatedForCause == Spec => []RepeatedOnlyIfCutShort
<1>1. Init => OnceInv
  BY DEF Init, OnceInv, AttemptInv, RepeatedOnlyIfCutShort
<1>2. IndInv /\ OnceInv /\ [Next]_vars => OnceInv'
  BY OnceStep
<1>3. OnceInv => RepeatedOnlyIfCutShort
  BY DEF OnceInv
<1> QED
  BY <1>1, <1>2, <1>3, Invariance, PTL DEF Spec
=============================================================================
