--------------------------- MODULE SchedulerProofs ---------------------------
(***************************************************************************)
(* Theorems about Scheduler, for every set of schedules that satisfies     *)
(* CronAssumption and any number of faults.                                *)
(*                                                                         *)
(* That a slot is emitted once rests on the rows that carry the dedup      *)
(* keys, and the janitor deletes rows: it holds when no schedule has a gap *)
(* longer than the retention, because then a row that is old enough to be  *)
(* deleted belongs to a slot that is no longer the latest.                 *)
(***************************************************************************)
EXTENDS Scheduler, TLAPS

\* Every schedule has an occurrence in every stretch of the retention's length.
Covered == \A s \in Schedules, t \in Time : t - LastTick(s, t) <= Retention

\* A key in the table was emitted, at or after its slot and not in the future.
RowInv ==
    \A r \in table :
        /\ <<r.sched, r.slot>> \in emitted
        /\ r.slot <= r.at /\ r.at <= now

\* No emitted slot is later than the latest one, now or at the pass's time.
SlotInv ==
    /\ InPass => tickNow <= now
    /\ \A f \in emitted :
           /\ f[2] <= LastTick(f[1], now)
           /\ InPass => f[2] <= LastTick(f[1], tickNow)

IndInv == TypeOK /\ RowInv /\ SlotInv /\ PassCoversSlots

\* An emitted slot has its key in the table for as long as it is the latest.
KeyInv ==
    \A f \in emitted :
        \/ KeyExists(f[1], f[2])
        \/ /\ f[2] < LastTick(f[1], now)
           /\ InPass => f[2] < LastTick(f[1], tickNow)

-----------------------------------------------------------------------------
\* What the proofs use of croniter.
LEMMA Cron ==
  ASSUME NEW s \in Schedules, NEW t \in Time
  PROVE  /\ LastTick(s, t) \in Time /\ LastTick(s, t) <= t
         /\ \A u \in Time : t <= u => LastTick(s, t) <= LastTick(s, u)
<1>1. LastTick(s, t) \in 0 .. t /\ \A u \in t .. MaxTime : LastTick(s, t) <= LastTick(s, u)
  BY CronAssumption DEF Time
<1> QED
  BY <1>1, BoundsAssumption DEF Time

\* The slots emitted are pairs of a schedule and a time.
LEMMA EmittedType ==
  ASSUME TypeOK, NEW f \in emitted
  PROVE  f[1] \in Schedules /\ f[2] \in Time
  BY DEF TypeOK

\* The invariants hold at the start: nothing was emitted and no row is there.
LEMMA InitInv == Init => IndInv /\ KeyInv
  BY BoundsAssumption
  DEF Init, IndInv, TypeOK, RowInv, SlotInv, PassCoversSlots, KeyInv, InPass, Time

\* A pass begins: at the start of the daemon, or at the top of its loop.
LEMMA BeginPassInv ==
  ASSUME IndInv, NEW kind \in {"catchup", "tick"}, NEW S \in SUBSET Schedules,
         BeginPass(kind, S), loaded' = S, faults' \in Nat
  PROVE  IndInv' /\ (KeyInv => KeyInv')
<1>1. /\ pc' = kind /\ todo' = S /\ tickNow' = now /\ failed' = {} /\ loaded' = S
      /\ UNCHANGED <<now, table, emitted, again>>
  BY DEF BeginPass
<1>2. TypeOK'
  BY <1>1 DEF IndInv, TypeOK
<1>3. RowInv'
  BY <1>1 DEF IndInv, RowInv
<1>4. SlotInv'
  BY <1>1 DEF IndInv, TypeOK, SlotInv, InPass, Time
<1>5. PassCoversSlots'
  BY <1>1 DEF PassCoversSlots
<1>6. KeyInv => KeyInv'
  BY <1>1 DEF KeyInv, KeyExists, InPass
<1> QED
  BY <1>2, <1>3, <1>4, <1>5, <1>6 DEF IndInv

\* A schedule whose key is in the table is passed over.
LEMMA SkipSlotInv ==
  ASSUME IndInv, NEW s \in todo, SkipSlot(s)
  PROVE  IndInv' /\ (KeyInv => KeyInv')
<1>1. /\ InPass /\ KeyExists(s, LastTick(s, tickNow)) /\ todo' = todo \ {s}
      /\ UNCHANGED <<now, table, loaded, pc, tickNow, failed, faults, emitted, again>>
  BY DEF SkipSlot
<1>2. TypeOK' /\ RowInv' /\ SlotInv'
  BY <1>1 DEF IndInv, TypeOK, RowInv, SlotInv, InPass
<1>3. <<s, LastTick(s, tickNow)>> \in emitted
  BY <1>1 DEF IndInv, RowInv, KeyExists
<1>4. PassCoversSlots'
  BY <1>1, <1>3 DEF IndInv, PassCoversSlots, InPass
<1>5. KeyInv => KeyInv'
  BY <1>1 DEF KeyInv, KeyExists, InPass
<1> QED
  BY <1>2, <1>4, <1>5 DEF IndInv

\* A slot is emitted: as long as the keys are kept, for the first time.
LEMMA EmitSlotInv ==
  ASSUME IndInv, NEW s \in todo, EmitSlot(s)
  PROVE  /\ IndInv'
         /\ KeyInv => KeyInv' /\ again' = again
<1> DEFINE slot == LastTick(s, tickNow)
           row == [sched |-> s, slot |-> slot, at |-> now, done |-> FALSE]
<1>1. /\ InPass /\ ~KeyExists(s, slot)
      /\ table' = table \cup {row}
      /\ emitted' = emitted \cup {<<s, slot>>}
      /\ again' = again \cup (emitted \cap {<<s, slot>>})
      /\ todo' = todo \ {s}
      /\ UNCHANGED <<now, loaded, pc, tickNow, failed, faults>>
  BY DEF EmitSlot
<1>2. s \in Schedules /\ now \in Time /\ tickNow \in Time /\ tickNow <= now
  BY <1>1 DEF IndInv, TypeOK, SlotInv
<1>3. slot \in Time /\ slot <= tickNow /\ slot <= now /\ slot <= LastTick(s, now)
  BY <1>2, Cron DEF Time
<1>r. /\ row \in Rows /\ row.sched = s /\ row.slot = slot /\ row.at = now
      /\ slot \in Nat /\ tickNow \in Nat /\ now \in Nat
  BY <1>2, <1>3 DEF Rows, Time
<1>h. slot = LastTick(s, tickNow) /\ slot' = slot
  BY <1>1
<1> HIDE DEF row, slot
<1>4. TypeOK'
  <2>1. table' \subseteq Rows
    BY <1>1, <1>r DEF IndInv, TypeOK
  <2>2. emitted' \subseteq Schedules \X Time /\ again' \subseteq emitted'
    BY <1>1, <1>2, <1>3 DEF IndInv, TypeOK
  <2>3. todo' \subseteq Schedules
    BY <1>1 DEF IndInv, TypeOK
  <2> QED
    BY <1>1, <2>1, <2>2, <2>3 DEF IndInv, TypeOK
<1>5. RowInv'
  <2>1. ASSUME NEW r \in table'
        PROVE  <<r.sched, r.slot>> \in emitted' /\ r.slot <= r.at /\ r.at <= now'
    <3>1. CASE r \in table
      BY <1>1, <3>1 DEF IndInv, RowInv
    <3>2. CASE r = row
      BY <1>1, <1>3, <1>r, <3>2
    <3> QED
      BY <1>1, <2>1, <3>1, <3>2
  <2> QED
    BY <2>1 DEF RowInv
<1>6. SlotInv'
  BY <1>1, <1>2, <1>3, <1>h DEF IndInv, SlotInv, InPass, Time
<1>7. PassCoversSlots'
  BY <1>1, <1>h DEF IndInv, PassCoversSlots, InPass
<1>8. ASSUME KeyInv
      PROVE  KeyInv' /\ again' = again
  <2>1. <<s, slot>> \notin emitted
    <3>1. SUFFICES ASSUME <<s, slot>> \in emitted PROVE FALSE
      OBVIOUS
    <3>2. \/ KeyExists(s, slot)
          \/ InPass => slot < LastTick(s, tickNow)
      BY <1>8, <3>1 DEF KeyInv
    <3> QED
      BY <1>1, <1>h, <1>r, <3>2
  <2>2. KeyExists(s, slot)'
    <3>1. row \in table'
      BY <1>1
    <3> QED
      BY <1>h, <1>r, <3>1 DEF KeyExists
  <2>3. \A f \in emitted : KeyExists(f[1], f[2]) => KeyExists(f[1], f[2])'
    BY <1>1 DEF KeyExists
  <2>4. KeyInv'
    <3>1. ASSUME NEW f \in emitted'
          PROVE  \/ KeyExists(f[1], f[2])'
                 \/ /\ f[2] < LastTick(f[1], now')
                    /\ InPass' => f[2] < LastTick(f[1], tickNow')
      <4>1. CASE f \in emitted
        BY <1>1, <1>8, <2>3, <4>1 DEF KeyInv, InPass
      <4>2. CASE f = <<s, slot>>
        <5>1. f[1] = s /\ f[2] = slot
          BY <4>2
        <5> QED
          BY <1>h, <2>2, <5>1 DEF KeyExists
      <4> QED
        BY <1>1, <3>1, <4>1, <4>2
    <3> QED
      BY <3>1 DEF KeyInv
  <2> QED
    BY <1>1, <2>1, <2>4
<1> QED
  BY <1>4, <1>5, <1>6, <1>7, <1>8 DEF IndInv

\* A pass ends, or the daemon dies in it, and everything else it does outside
\* of one; the insert that fails.
LEMMA OtherInv ==
  ASSUME IndInv,
         \/ EndPass \/ Reload \/ ReloadUnreadable \/ Crash \/ UNCHANGED vars
         \/ \E s \in todo : InsertFails(s)
  PROVE  IndInv' /\ (KeyInv => KeyInv')
<1>1. UNCHANGED <<now, table, emitted, again>>
  BY DEF EndPass, Reload, ReloadUnreadable, Crash, InsertFails, vars
<1>2. InPass' => InPass /\ tickNow' = tickNow
  BY DEF EndPass, Reload, ReloadUnreadable, Crash, InsertFails, vars, InPass
<1>3. TypeOK'
  BY BoundsAssumption
  DEF IndInv, TypeOK, EndPass, Reload, ReloadUnreadable, Crash, InsertFails, vars, Fault, Time
<1>4. RowInv' /\ SlotInv'
  BY <1>1, <1>2 DEF IndInv, RowInv, SlotInv
<1>5. PassCoversSlots'
  BY <1>1, <1>2
  DEF IndInv, PassCoversSlots, EndPass, Reload, ReloadUnreadable, Crash, InsertFails, vars, InPass
<1>6. KeyInv => KeyInv'
  BY <1>1, <1>2 DEF KeyInv, KeyExists
<1> QED
  BY <1>3, <1>4, <1>5, <1>6 DEF IndInv

\* The event loop marks the rows, which keep their keys.
LEMMA ProcessInv ==
  ASSUME IndInv, Process
  PROVE  IndInv' /\ (KeyInv => KeyInv')
<1>1. /\ table' = {[r EXCEPT !.done = TRUE] : r \in table}
      /\ UNCHANGED <<now, loaded, pc, todo, tickNow, failed, faults, emitted, again>>
      /\ table \subseteq Rows
  BY DEF Process, IndInv, TypeOK
<1>2. \A r \in table : LET q == [r EXCEPT !.done = TRUE] IN
          q \in Rows /\ q.sched = r.sched /\ q.slot = r.slot /\ q.at = r.at
  BY <1>1 DEF Rows
<1>3. TypeOK' /\ RowInv' /\ SlotInv' /\ PassCoversSlots'
  <2>1. TypeOK'
    BY <1>1, <1>2 DEF IndInv, TypeOK
  <2>2. RowInv'
    BY <1>1, <1>2 DEF IndInv, RowInv
  <2>3. SlotInv' /\ PassCoversSlots'
    BY <1>1 DEF IndInv, SlotInv, PassCoversSlots, InPass
  <2> QED
    BY <2>1, <2>2, <2>3
<1>4. \A s, slot : KeyExists(s, slot) => KeyExists(s, slot)'
  BY <1>1, <1>2 DEF KeyExists
<1>5. KeyInv => KeyInv'
  BY <1>1, <1>4 DEF KeyInv, InPass
<1> QED
  BY <1>3, <1>5 DEF IndInv

\* Time goes on.
LEMMA ClockInv ==
  ASSUME IndInv, Clock
  PROVE  IndInv' /\ (KeyInv => KeyInv')
<1>1. /\ now \in Time /\ now' = now + 1 /\ now' \in Time
      /\ UNCHANGED <<table, loaded, pc, todo, tickNow, failed, faults, emitted, again>>
  BY BoundsAssumption DEF Clock, IndInv, TypeOK, Time
<1>2. \A f \in emitted : LastTick(f[1], now) <= LastTick(f[1], now')
  BY <1>1, Cron, EmittedType DEF IndInv, Time
<1>3. \A f \in emitted : /\ f[2] \in Nat /\ LastTick(f[1], now) \in Nat
                         /\ LastTick(f[1], now') \in Nat
  BY <1>1, Cron, EmittedType DEF IndInv, Time
<1>4. TypeOK' /\ PassCoversSlots'
  BY <1>1 DEF IndInv, TypeOK, PassCoversSlots, InPass
<1>5. RowInv'
  <2>1. ASSUME NEW r \in table
        PROVE  r.at <= now + 1
    <3>1. r.at \in Nat /\ now \in Nat
      BY <1>1, <2>1 DEF IndInv, TypeOK, Rows, Time
    <3>2. r.at <= now
      BY <2>1 DEF IndInv, RowInv
    <3> QED
      BY <3>1, <3>2
  <2>2. \A r \in table : r.at <= now + 1
    BY <2>1
  <2> QED
    BY <1>1, <2>2 DEF IndInv, RowInv
<1>6. SlotInv'
  BY <1>1, <1>2, <1>3 DEF IndInv, TypeOK, SlotInv, InPass, Time
<1>7. KeyInv => KeyInv'
  BY <1>1, <1>2, <1>3 DEF KeyInv, KeyExists, InPass
<1> QED
  BY <1>4, <1>5, <1>6, <1>7 DEF IndInv

\* The janitor deletes only keys of slots that are no longer the latest, if
\* every schedule has an occurrence within the retention.
LEMMA JanitorInv ==
  ASSUME IndInv, Janitor
  PROVE  IndInv' /\ (Covered /\ KeyInv => KeyInv')
<1>1. /\ pc = "idle" /\ table' = {r \in table : ~Old(r)} /\ table \subseteq Rows
      /\ UNCHANGED <<now, loaded, pc, todo, tickNow, failed, faults, emitted, again>>
      /\ now \in Time
  BY DEF Janitor, IndInv, TypeOK
<1>2. IndInv'
  BY <1>1 DEF IndInv, TypeOK, RowInv, SlotInv, PassCoversSlots, InPass
<1>3. ASSUME Covered, KeyInv, NEW f \in emitted'
      PROVE  \/ KeyExists(f[1], f[2])'
             \/ /\ f[2] < LastTick(f[1], now') /\ ~InPass'
  <2>1. f \in emitted /\ f[1] \in Schedules /\ f[2] \in Time
    BY <1>1, EmittedType DEF IndInv
  <2>2. CASE f[2] < LastTick(f[1], now)
    BY <1>1, <2>2 DEF InPass
  <2>3. CASE KeyExists(f[1], f[2])
    <3>1. PICK r \in table : r.sched = f[1] /\ r.slot = f[2]
      BY <2>3 DEF KeyExists
    <3>2. CASE ~Old(r)
      BY <1>1, <3>1, <3>2 DEF KeyExists
    <3>3. CASE Old(r)
      <4>1. r.slot <= r.at /\ r.at + Retention < now /\ r.at \in Nat /\ r.slot \in Nat
        <5>1. r.at \in Nat /\ r.slot \in Nat
          BY <1>1 DEF Rows, Time
        <5> QED
          BY <3>3, <5>1 DEF IndInv, RowInv, Old
      <4>2. now - LastTick(f[1], now) <= Retention /\ LastTick(f[1], now) \in Nat
        BY <1>1, <1>3, <2>1, Cron DEF Covered, Time
      <4> QED
        BY <1>1, <3>1, <4>1, <4>2, BoundsAssumption DEF InPass, Time
    <3> QED
      BY <3>2, <3>3
  <2> QED
    BY <1>3, <2>1, <2>2, <2>3 DEF KeyInv
<1> QED
  BY <1>2, <1>3 DEF KeyInv

\* Every step keeps the invariants; the keys are kept when Covered holds.
LEMMA NextInv ==
  ASSUME IndInv, [Next]_vars
  PROVE  /\ IndInv'
         /\ Covered /\ KeyInv /\ AtMostOncePerSlot => KeyInv' /\ AtMostOncePerSlot'
<1>1. ASSUME Start \/ StartUnreadable \/ Tick
      PROVE  IndInv' /\ (KeyInv => KeyInv')
  <2>1. Schedules \in SUBSET Schedules /\ {} \in SUBSET Schedules /\ loaded \in SUBSET Schedules
    BY DEF IndInv, TypeOK
  <2>2. faults' \in Nat
    BY <1>1 DEF Start, StartUnreadable, Tick, Fault, IndInv, TypeOK
  <2> QED
    BY <1>1, <2>1, <2>2, BeginPassInv DEF Start, StartUnreadable, Tick
<1>2. \/ again' = again
      \/ \E s \in todo : EmitSlot(s)
  BY DEF Next, Pass, Start, StartUnreadable, Tick, BeginPass, EndPass, SkipSlot, Reload,
         ReloadUnreadable, InsertFails, Process, Janitor, Crash, Clock, vars
<1>3. IndInv' /\ (Covered /\ KeyInv => KeyInv')
  BY <1>1, SkipSlotInv, EmitSlotInv, OtherInv, ProcessInv, ClockInv, JanitorInv DEF Next, Pass
<1> QED
  BY <1>2, <1>3, EmitSlotInv DEF AtMostOncePerSlot

\* The invariant, strong enough to be kept by every step, holds always.
LEMMA Invariance == Spec => []IndInv
<1>1. Init => IndInv
  BY InitInv
<1>2. IndInv /\ [Next]_vars => IndInv'
  BY NextInv
<1> QED
  BY <1>1, <1>2, PTL DEF Spec

\* No cron slot is emitted twice, across ticks, restarts, clock and janitor,
\* if no schedule's period exceeds the janitor's retention.
THEOREM OncePerSlot ==
  ASSUME Covered
  PROVE  Spec => []AtMostOncePerSlot
<1>1. Init => IndInv /\ KeyInv /\ AtMostOncePerSlot
  BY InitInv DEF Init, AtMostOncePerSlot
<1>2. IndInv /\ KeyInv /\ AtMostOncePerSlot /\ [Next]_vars
        => (IndInv /\ KeyInv /\ AtMostOncePerSlot)'
  BY NextInv
<1> QED
  BY <1>1, <1>2, PTL DEF Spec

\* The variables keep their types, for every croniter that CronAssumption allows.
THEOREM TypeCorrectness == Spec => []TypeOK
<1>1. IndInv => TypeOK
  BY DEF IndInv
<1> QED
  BY <1>1, Invariance, PTL

\* A pass leaves no schedule it has looked at without its slot emitted,
\* except where the insert failed.
THEOREM NoSlotPassedOver == Spec => []PassCoversSlots
<1>1. IndInv => PassCoversSlots
  BY DEF IndInv
<1> QED
  BY <1>1, Invariance, PTL

\* The slots of a schedule are emitted in the order of time, for every
\* retention and also where one is emitted twice.
THEOREM InOrder == Spec => SlotsInOrder
<1>1. ASSUME IndInv, [Next]_vars, NEW e \in emitted' \ emitted, NEW f \in emitted, f[1] = e[1]
      PROVE  f[2] < e[2]
  <2>1. PICK s \in todo : EmitSlot(s)
    BY <1>1 DEF Next, Pass, Start, StartUnreadable, Tick, BeginPass, EndPass, SkipSlot, Reload,
           ReloadUnreadable, InsertFails, Process, Janitor, Crash, Clock, vars
  <2>2. /\ e = <<s, LastTick(s, tickNow)>> /\ InPass
        /\ s \in Schedules /\ tickNow \in Time
    BY <1>1, <2>1 DEF EmitSlot, IndInv, TypeOK
  <2>3. f[2] <= LastTick(s, tickNow) /\ f[2] \in Time /\ f = <<f[1], f[2]>>
    BY <1>1, <2>2, EmittedType DEF IndInv, SlotInv, TypeOK
  <2>4. LastTick(s, tickNow) \in Time
    BY <2>2, Cron
  <2> QED
    BY <1>1, <2>2, <2>3, <2>4 DEF Time
<1>2. IndInv /\ [Next]_vars
        => [\A e \in emitted' \ emitted : \A f \in emitted :
                f[1] = e[1] => f[2] < e[2]]_vars
  BY <1>1
<1> QED
  BY <1>2, Invariance, PTL DEF Spec, SlotsInOrder
=============================================================================
