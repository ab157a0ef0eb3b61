------------------------- MODULE PolicyLimitsProofs -------------------------
(***************************************************************************)
(* Theorems about PolicyLimits, for any limits, any clock, any number of   *)
(* events, edits, crashes and failed writes.                               *)
(*                                                                         *)
(* The rate limit: RateInv relates last_fires, which is lost with the      *)
(* policy object, to the history of all fires.  max_fires: LimitInv shows  *)
(* that as long as the file is enabled the log counts fewer events that    *)
(* fired with success than the limit allows, and VersionInv that a copy in *)
(* memory that is up to date is one of an enabled file.  The hot reload:   *)
(* SwitchInv relates the time of the last load to the time at which the    *)
(* file stopped being enabled and to the cycle in progress.                *)
(***************************************************************************)
EXTENDS PolicyLimits, FiniteSetTheorems, TLAPS

\* The event that is being worked on.
InProgress == pc \in {"acting", "limits", "log", "mark"}
CurInv == InProgress => cur \in Events

\* A daemon past the start of its first cycle has loaded the policies.
LoadInv ==
    /\ cached = Never <=> lastLoad = Never
    /\ pc = "down" => cached = Never
    /\ cached = Never => pc \in {"down", "idle"}

-----------------------------------------------------------------------------
\* The fires before those of the policy object in memory.
Earlier == Len(fires) - Len(lastFires)

\* last_fires has the times of the last fires, and they are those of the object
\* in memory; a reload starts a new object without fires.
RateInv ==
    /\ \A j \in 1 .. Len(fires) : fires[j].gen <= generation
    /\ cached # Never =>
           /\ Earlier \in Nat
           /\ \A j \in 1 .. Len(fires) :
                  IF j <= Earlier THEN fires[j].gen < generation
                  ELSE fires[j].gen = generation /\ fires[j].at = lastFires[j - Earlier]

\* While the actions run the fire that they are is still admitted.
AdmitInv == pc = "acting" => Cardinality(Recent) < RateMax

-----------------------------------------------------------------------------
\* A file that has changed has another version than the one in memory.
VersionInv ==
    /\ cached <= version
    /\ cached = version => (loaded <=> file = "enabled")
    /\ pc = "acting" => loaded

Failed == {fires[i].event : i \in {j \in 1 .. Len(fires) : ~fires[j].ok}}

\* As long as the file is enabled the limit has not been reached: neither by
\* the events in the log none of whose fires failed, nor, if the limit has been
\* looked at for this event, with the row it is about to get.
LimitInv ==
    file = "enabled" =>
        /\ Cardinality(Fired \ Failed) < MaxFires
        /\ pc = "log" => cur \in Failed \/ Cardinality(Fired) + 1 < MaxFires

BaseInv == TypeOK /\ CurInv /\ LoadInv
IndInv == BaseInv /\ RateInv /\ AdmitInv /\ RateHeldByGeneration
CountInv == BaseInv /\ VersionInv /\ LimitInv
-----------------------------------------------------------------------------
(* Types                                                                   *)

LEMMA ClockType ==
  ASSUME TypeOK
  PROVE  now \in Nat /\ MaxTime \in Nat
  BY ParametersAssumption DEF TypeOK

\* A published event has the next id; the ids so far stay valid.
LEMMA PublishEvents ==
  ASSUME TypeOK, Publish
  PROVE  /\ born' \in Seq(Nat) /\ Len(born') = Len(born) + 1
         /\ Events \subseteq Events' /\ Len(born) + 1 \in Events'
  BY ClockType DEF TypeOK, Publish, Events

LEMMA SeqSubset ==
  ASSUME NEW S, NEW T, S \subseteq T
  PROVE  Seq(S) \subseteq Seq(T)
<1> SUFFICES ASSUME NEW s \in Seq(S)
             PROVE  s \in Seq(T)
  OBVIOUS
<1>1. Len(s) \in Nat /\ s \in [1 .. Len(s) -> T]
  OBVIOUS
<1> QED
  BY <1>1

\* The file operations keep the types.
LEMMA FileType ==
  ASSUME TypeOK, RemoveFile \/ DisableFile
  PROVE  /\ file' \in {"enabled", "disabled", "deleted"} /\ version' \in Nat
         /\ offSince' \in Nat \cup {Never}
<1>1. CASE UNCHANGED <<file, version, offSince>>
  BY <1>1 DEF TypeOK
<1>2. CASE WriteFile("deleted") \/ WriteFile("disabled")
  BY <1>2, ClockType DEF TypeOK, WriteFile
<1> QED
  BY <1>1, <1>2 DEF RemoveFile, DisableFile

LEMMA EnvironmentBase ==
  ASSUME BaseInv, Publish \/ SwitchOff \/ EditOther \/ Tick
  PROVE  BaseInv'
<1>1. CASE Publish
  <2>1. UNCHANGED <<now, evalLog, file, version, offSince, pc, policy, local,
                    edits, faults, fires>>
    BY <1>1 DEF Publish
  <2>2. /\ born' \in Seq(Nat) /\ Events \subseteq Events'
        /\ unprocessed' = unprocessed \cup {Len(born) + 1} /\ Len(born) + 1 \in Events'
    BY <1>1, PublishEvents DEF BaseInv, Publish
  <2>3. fires' \in Seq([event : Events', at : Nat,
                        gen : Nat, stale : BOOLEAN, ok : BOOLEAN])
    <3>1. [event : Events, at : Nat, gen : Nat, stale : BOOLEAN, ok : BOOLEAN]
          \subseteq
          [event : Events', at : Nat, gen : Nat, stale : BOOLEAN, ok : BOOLEAN]
      BY <2>2
    <3> QED
      BY <2>1, <3>1, SeqSubset DEF BaseInv, TypeOK
  <2>4. evalLog' \subseteq [event : Events', at : Nat]
    BY <2>1, <2>2 DEF BaseInv, TypeOK
  <2>5. TypeOK'
    BY <2>1, <2>2, <2>3, <2>4 DEF BaseInv, TypeOK, policy, local
  <2> QED
    BY <2>1, <2>2, <2>5 DEF BaseInv, CurInv, InProgress, LoadInv, policy, local
<1>2. CASE EditOther
  BY <1>2 DEF EditOther, BaseInv, TypeOK, CurInv, InProgress, LoadInv, Events, policy, local
<1>3. CASE Tick
  <2>1. now' \in 0 .. MaxTime
    BY <1>3, ClockType DEF BaseInv, Tick, TypeOK
  <2> QED
    BY <1>3, <2>1
    DEF Tick, BaseInv, TypeOK, CurInv, InProgress, LoadInv, Events, disk, policy, local
<1>4. CASE SwitchOff
  <2>1. /\ file' \in {"enabled", "disabled", "deleted"} /\ version' \in Nat
        /\ offSince' \in Nat \cup {Never}
    BY <1>4, FileType DEF BaseInv, SwitchOff
  <2> QED
    BY <1>4, <2>1
    DEF SwitchOff, BaseInv, TypeOK, CurInv, InProgress, LoadInv, Events, policy, local
<1> QED
  BY <1>1, <1>2, <1>3, <1>4

LEMMA CycleBase ==
  ASSUME BaseInv, BeginCycle
  PROVE  BaseInv'
<1>1. /\ now \in Nat /\ version \in Nat /\ generation \in Nat
      /\ UNCHANGED <<now, disk, batch, cur, nowTs, edits, faults, fires>>
      /\ pc = "idle" /\ pc' = "poll" /\ cycleAt' = now
  BY ClockType DEF BaseInv, BeginCycle, TypeOK
<1>2. CASE lastLoad = Never \/ now - lastLoad > ReloadInterval
  <2>1. LoadPolicies /\ lastLoad' = now /\ afterLimit' = afterLimit
    BY <1>2 DEF BeginCycle
  <2>2. /\ cached' \in Nat /\ loaded' \in BOOLEAN
        /\ lastFires' \in Seq(Nat) /\ generation' \in Nat
    <3>1. CASE version = cached
      BY <1>1, <2>1, <3>1 DEF LoadPolicies, BaseInv, TypeOK
    <3>2. CASE version # cached
      BY <1>1, <2>1, <3>2 DEF LoadPolicies
    <3> QED
      BY <3>1, <3>2
  <2>3. TypeOK'
    BY <1>1, <2>1, <2>2 DEF BaseInv, TypeOK, Events, disk
  <2> QED
    BY <1>1, <2>1, <2>2, <2>3 DEF BaseInv, CurInv, InProgress, LoadInv, Never
<1>3. CASE ~(lastLoad = Never \/ now - lastLoad > ReloadInterval)
  <2>1. UNCHANGED policy
    BY <1>3 DEF BeginCycle
  <2> QED
    BY <1>1, <1>3, <2>1
    DEF BaseInv, TypeOK, Events, CurInv, InProgress, LoadInv, disk, policy
<1> QED
  BY <1>2, <1>3

\* The batch, and the verdicts that are not a fire.
LEMMA BatchBase ==
  ASSUME BaseInv,
         Poll \/ EndBatch \/ \E e \in batch : NotLoaded(e) \/ Suppress(e) \/ Reject(e)
  PROVE  BaseInv'
<1>1. CASE Poll
  BY <1>1 DEF Poll, BaseInv, TypeOK, CurInv, InProgress, LoadInv, Events, disk, policy
<1>2. CASE EndBatch
  BY <1>2 DEF EndBatch, BaseInv, TypeOK, CurInv, InProgress, LoadInv, Events, disk, policy, local
<1>3. ASSUME NEW e \in batch, NotLoaded(e) \/ Suppress(e) \/ Reject(e)
      PROVE  BaseInv'
  <2>1. PassBy(e)
    BY <1>3 DEF NotLoaded, Suppress, Reject
  <2> QED
    BY <2>1
    DEF PassBy, IsNext, BaseInv, TypeOK, CurInv, InProgress, LoadInv, Events, policy
<1> QED
  BY <1>1, <1>2, <1>3

LEMMA TakeBase ==
  ASSUME BaseInv, NEW e \in batch, Admit(e) \/ Expire(e)
  PROVE  BaseInv'
<1>1. /\ e \in Events /\ Events' = Events /\ e \in Nat
      /\ now \in Nat
      /\ cur' = e /\ nowTs' = now /\ batch' = batch \ {e} /\ pc = "batch"
      /\ pc' \in {"acting", "mark"}
      /\ UNCHANGED <<now, born, unprocessed, evalLog, policy, cycleAt, edits, faults, fires>>
  <2>1. /\ e \in Events /\ e \in Nat /\ now \in Nat
    BY ClockType DEF BaseInv, TypeOK, Events
  <2>2. /\ cur' = e /\ nowTs' = now /\ batch' = batch \ {e} /\ pc = "batch"
        /\ pc' \in {"acting", "mark"}
        /\ UNCHANGED <<now, born, unprocessed, evalLog, policy, cycleAt, edits, faults, fires>>
    BY DEF Admit, Expire, IsNext, disk
  <2> QED
    BY <2>1, <2>2 DEF Events
<1>2. /\ file' \in {"enabled", "disabled", "deleted"} /\ version' \in Nat
      /\ offSince' \in Nat \cup {Never}
  BY FileType DEF BaseInv, TypeOK, Admit, Expire, disk
<1>3. TypeOK'
  BY <1>1, <1>2 DEF BaseInv, TypeOK, policy
<1> QED
  BY <1>1, <1>3 DEF BaseInv, CurInv, InProgress, LoadInv, policy

LEMMA ElementType ==
  ASSUME NEW S, NEW s \in Seq(S), NEW j \in 1 .. Len(s)
  PROVE  s[j] \in S
  OBVIOUS

LEMMA AppendFacts ==
  ASSUME NEW S, NEW s \in Seq(S), NEW e \in S
  PROVE  /\ Append(s, e) \in Seq(S)
         /\ Len(s) \in Nat /\ Len(Append(s, e)) = Len(s) + 1
         /\ Append(s, e)[Len(s) + 1] = e
         /\ \A i \in 1 .. Len(s) : Append(s, e)[i] = s[i]
  OBVIOUS

\* The fire that Act records.
Fire(ok) == [event |-> cur, at |-> now,
             gen |-> generation, stale |-> version # cached, ok |-> ok]

LEMMA FireFields ==
  ASSUME NEW ok \in BOOLEAN
  PROVE  /\ Fire(ok).event = cur /\ Fire(ok).at = now
         /\ Fire(ok).gen = generation /\ Fire(ok).stale = (version # cached) /\ Fire(ok).ok = ok
  BY DEF Fire

LEMMA FireType ==
  ASSUME TypeOK, NEW j \in 1 .. Len(fires)
  PROVE  /\ fires[j].event \in Events /\ fires[j].at \in Nat
         /\ fires[j].gen \in Nat /\ fires[j].stale \in BOOLEAN /\ fires[j].ok \in BOOLEAN
<1>1. fires \in Seq([event : Events, at : Nat,
                     gen : Nat, stale : BOOLEAN, ok : BOOLEAN])
  BY DEF TypeOK
<1>2. fires[j] \in [event : Events, at : Nat,
                    gen : Nat, stale : BOOLEAN, ok : BOOLEAN]
  BY <1>1, ElementType
<1> QED
  BY <1>2

LEMMA ActFires ==
  ASSUME BaseInv, NEW ok \in BOOLEAN, Act(ok)
  PROVE  /\ fires' = Append(fires, Fire(ok))
         /\ fires' \in Seq([event : Events, at : Nat,
                            gen : Nat, stale : BOOLEAN, ok : BOOLEAN])
         /\ Fire(ok) \in [event : Events, at : Nat,
                          gen : Nat, stale : BOOLEAN, ok : BOOLEAN]
         /\ Len(fires) \in Nat /\ Len(fires') = Len(fires) + 1
         /\ fires'[Len(fires) + 1] = Fire(ok)
         /\ \A i \in 1 .. Len(fires) : fires'[i] = fires[i]
<1>1. cur \in Events /\ now \in Nat
  BY ClockType DEF BaseInv, CurInv, InProgress, Act
<1>2. Fire(ok) \in [event : Events, at : Nat,
                    gen : Nat, stale : BOOLEAN, ok : BOOLEAN]
  BY <1>1 DEF BaseInv, TypeOK, Fire
<1>3. fires' = Append(fires, Fire(ok))
  BY DEF Act, Fire
<1>4. fires \in Seq([event : Events, at : Nat,
                     gen : Nat, stale : BOOLEAN, ok : BOOLEAN])
  BY DEF BaseInv, TypeOK
<1> QED
  BY <1>2, <1>3, <1>4, AppendFacts

LEMMA ActBase ==
  ASSUME BaseInv, NEW ok \in BOOLEAN, Act(ok)
  PROVE  BaseInv'
<1>1. now \in Nat /\ Events' = Events
  BY ClockType DEF BaseInv, Act, Events, disk
<1>2. fires' \in Seq([event : Events, at : Nat,
                      gen : Nat, stale : BOOLEAN, ok : BOOLEAN])
  BY ActFires
<1>3. lastFires' \in Seq(Nat)
  BY <1>1 DEF Act, BaseInv, TypeOK
<1>4. TypeOK'
  BY <1>1, <1>2, <1>3 DEF Act, BaseInv, TypeOK, disk, local
<1> QED
  BY <1>1, <1>4 DEF Act, BaseInv, CurInv, InProgress, LoadInv, local

LEMMA LimitsBase ==
  ASSUME BaseInv, HandleLimits \/ LogEvals \/ LogEvalsFails \/ Mark
  PROVE  BaseInv'
<1>1. CASE HandleLimits
  <2>1. /\ file' \in {"enabled", "disabled", "deleted"} /\ version' \in Nat
        /\ offSince' \in Nat \cup {Never}
    BY <1>1, FileType DEF BaseInv, TypeOK, HandleLimits
  <2> QED
    BY <1>1, <2>1
    DEF HandleLimits, BaseInv, TypeOK, CurInv, InProgress, LoadInv, Events, policy, local
<1>2. CASE LogEvals
  <2>1. [event |-> cur, at |-> nowTs] \in [event : Events, at : Nat]
    BY <1>2 DEF BaseInv, TypeOK, CurInv, InProgress, LogEvals
  <2> QED
    BY <1>2, <2>1
    DEF LogEvals, BaseInv, TypeOK, CurInv, InProgress, LoadInv, Events, policy, local
<1>3. CASE LogEvalsFails
  BY <1>3 DEF LogEvalsFails, BaseInv, TypeOK, CurInv, InProgress, LoadInv, Events, disk, policy,
              local
<1>4. CASE Mark
  BY <1>4 DEF Mark, BaseInv, TypeOK, CurInv, InProgress, LoadInv, Events, policy
<1> QED
  BY <1>1, <1>2, <1>3, <1>4

LEMMA RestBase ==
  ASSUME BaseInv, Janitor \/ Crash \/ Restart
  PROVE  BaseInv'
<1>1. CASE Janitor
  <2>1. unprocessed' \subseteq unprocessed /\ evalLog' \subseteq evalLog
    BY <1>1 DEF Janitor
  <2>2. /\ UNCHANGED <<now, born, file, version, offSince, pc, policy, local,
                    edits, faults, fires>>
        /\ pc = "idle"
    BY <1>1 DEF Janitor
  <2> QED
    BY <2>1, <2>2 DEF BaseInv, TypeOK, CurInv, InProgress, LoadInv, Events, policy, local
<1>2. CASE Crash
  <2>1. {} \subseteq Events /\ <<>> \in Seq(Nat) /\ 0 \in Nat /\ faults' \in Nat
    BY <1>2 DEF Crash, BaseInv, TypeOK
  <2> QED
    BY <1>2, <2>1 DEF Crash, BaseInv, TypeOK, CurInv, InProgress, LoadInv, Events, disk
<1>3. CASE Restart
  BY <1>3 DEF Restart, BaseInv, TypeOK, CurInv, InProgress, LoadInv, Events, disk, policy, local
<1> QED
  BY <1>1, <1>2, <1>3

LEMMA BaseInit == Init => BaseInv
<1> SUFFICES ASSUME Init
             PROVE  BaseInv
  OBVIOUS
<1>1. /\ 0 \in 0 .. MaxTime /\ 0 \in Nat
      /\ born \in Seq(Nat) /\ lastFires \in Seq(Nat)
      /\ fires \in Seq([event : Events, at : Nat,
                        gen : Nat, stale : BOOLEAN, ok : BOOLEAN])
  BY ParametersAssumption DEF Init
<1>2. TypeOK
  BY <1>1 DEF Init, TypeOK
<1> QED
  BY <1>2 DEF Init, BaseInv, CurInv, InProgress, LoadInv

LEMMA BaseStep ==
  ASSUME BaseInv, [Next]_vars
  PROVE  BaseInv'
<1>1. CASE UNCHANGED vars
  BY <1>1 DEF vars, disk, policy, local, BaseInv, TypeOK, CurInv, InProgress, LoadInv, Events
<1> QED
  BY <1>1, EnvironmentBase, CycleBase, BatchBase, TakeBase, ActBase, LimitsBase, RestBase
  DEF Next, Daemon

LEMMA BaseInvariance == Spec => []BaseInv
<1>1. BaseInv /\ [Next]_vars => BaseInv'
  BY BaseStep
<1> QED
  BY BaseInit, <1>1, PTL DEF Spec

\* Every variable keeps its type: the batch, the log and the fires speak of
\* events that were published.
THEOREM TypeCorrectness == Spec => []TypeOK
<1>1. BaseInv => TypeOK
  BY DEF BaseInv
<1> QED
  BY BaseInvariance, <1>1, PTL
-----------------------------------------------------------------------------
(* The rate limit                                                          *)

\* The fires of the policy object in memory since the cutoff.
LEMMA RecentFinite ==
  ASSUME TypeOK
  PROVE  /\ Len(lastFires) \in Nat /\ Recent \subseteq 1 .. Len(lastFires)
         /\ IsFiniteSet(Recent) /\ Cardinality(Recent) \in Nat
<1>1. Len(lastFires) \in Nat /\ Recent \subseteq 1 .. Len(lastFires)
  BY DEF TypeOK, Recent
<1>2. IsFiniteSet(1 .. Len(lastFires))
  BY <1>1, FS_Interval
<1>3. IsFiniteSet(Recent)
  BY <1>1, <1>2, FS_Subset
<1> QED
  BY <1>1, <1>3, FS_CardinalityType

\* Only a fire, a reload and a crash touch last_fires.
LEMMA RateKept ==
  ASSUME RateInv, RateHeldByGeneration, UNCHANGED <<fires, generation>>,
         cached' = Never \/ UNCHANGED <<cached, lastFires>>
  PROVE  RateInv' /\ RateHeldByGeneration'
<1>1. CASE cached' = Never
  BY <1>1 DEF RateInv, RateHeldByGeneration
<1>2. CASE UNCHANGED <<cached, lastFires>>
  BY <1>2 DEF RateInv, RateHeldByGeneration, Earlier
<1> QED
  BY <1>1, <1>2

\* A reload starts a new object, later than all the fires.
LEMMA CycleRate ==
  ASSUME BaseInv, RateInv, RateHeldByGeneration, BeginCycle
  PROVE  RateInv' /\ RateHeldByGeneration'
<1>1. fires' = fires /\ generation \in Nat /\ Len(fires) \in Nat /\ Len(<<>>) = 0
  BY DEF BaseInv, TypeOK, BeginCycle
<1>2. CASE UNCHANGED <<cached, lastFires, generation>>
  BY <1>1, <1>2, RateKept
<1>3. CASE cached' = version /\ lastFires' = <<>> /\ generation' = generation + 1
  <2>1. \A j \in 1 .. Len(fires) : fires[j].gen \in Nat
    BY FireType DEF BaseInv
  <2>2. \A j \in 1 .. Len(fires) : fires'[j].gen < generation'
    BY <1>1, <1>3, <2>1 DEF RateInv
  <2>3. Earlier' = Len(fires)
    BY <1>1, <1>3 DEF Earlier
  <2>4. RateInv'
    BY <1>1, <1>3, <2>1, <2>2, <2>3 DEF RateInv
  <2> QED
    BY <1>1, <2>4 DEF RateHeldByGeneration
<1> QED
  BY <1>2, <1>3 DEF BeginCycle, LoadPolicies, policy

\* A fire is the last of its object.
LEMMA ActRate ==
  ASSUME BaseInv, RateInv, NEW ok \in BOOLEAN, Act(ok)
  PROVE  RateInv'
<1>1. /\ cached # Never /\ UNCHANGED <<cached, generation>>
      /\ lastFires' = Append(lastFires, now) /\ lastFires \in Seq(Nat) /\ now \in Nat
      /\ generation \in Nat
  BY ClockType DEF BaseInv, TypeOK, LoadInv, Act
<1>2. /\ Len(lastFires) \in Nat /\ Len(lastFires') = Len(lastFires) + 1
      /\ lastFires'[Len(lastFires) + 1] = now
      /\ \A i \in 1 .. Len(lastFires) : lastFires'[i] = lastFires[i]
  BY <1>1
<1>3. /\ Len(fires) \in Nat /\ Len(fires') = Len(fires) + 1
      /\ fires'[Len(fires) + 1].gen = generation /\ fires'[Len(fires) + 1].at = now
      /\ \A i \in 1 .. Len(fires) : fires'[i] = fires[i]
  BY ActFires, FireFields
<1>4. Earlier' = Earlier /\ Earlier \in Nat
  BY <1>1, <1>2, <1>3 DEF Earlier, RateInv
<1>5. ASSUME NEW j \in 1 .. Len(fires')
      PROVE  /\ fires'[j].gen <= generation
             /\ IF j <= Earlier THEN fires'[j].gen < generation
                ELSE fires'[j].gen = generation /\ fires'[j].at = lastFires'[j - Earlier]
  <2>1. CASE j \in 1 .. Len(fires)
    <3>1. fires'[j] = fires[j]
      BY <1>3, <2>1
    <3>2. j > Earlier => lastFires'[j - Earlier] = lastFires[j - Earlier]
      BY <1>2, <1>3, <1>4, <2>1 DEF Earlier
    <3>3. /\ fires[j].gen <= generation
          /\ IF j <= Earlier THEN fires[j].gen < generation
             ELSE fires[j].gen = generation /\ fires[j].at = lastFires[j - Earlier]
      BY <1>1, <2>1 DEF RateInv
    <3>4. j > Earlier \/ j <= Earlier
      BY <1>4
    <3> QED
      BY <3>1, <3>2, <3>3, <3>4
  <2>2. CASE j = Len(fires) + 1
    <3>1. j > Earlier /\ j - Earlier = Len(lastFires) + 1
      BY <1>2, <1>3, <1>4, <2>2 DEF Earlier
    <3> QED
      BY <1>1, <1>2, <1>3, <1>4, <2>2, <3>1
  <2> QED
    BY <1>3, <2>1, <2>2
<1> QED
  BY <1>1, <1>4, <1>5 DEF RateInv

\* In the window that ends with a fire there are that fire and those that the
\* check found, or fewer.
LEMMA ActHeld ==
  ASSUME BaseInv, RateInv, AdmitInv, RateHeldByGeneration, NEW ok \in BOOLEAN, Act(ok)
  PROVE  RateHeldByGeneration'
<1> DEFINE n == Len(fires)
           InWindow == {j \in 1 .. n : /\ fires[j].gen = generation
                                       /\ fires[j].at >= now - Window}
           shift == [j \in InWindow |-> j - Earlier]
<1>1. /\ n \in Nat /\ Len(fires') = n + 1
      /\ fires'[n + 1].gen = generation /\ fires'[n + 1].at = now
      /\ \A i \in 1 .. n : fires'[i] = fires[i]
  BY ActFires, FireFields
<1>2. /\ cached # Never /\ pc = "acting" /\ RateMax \in Nat
      /\ Cardinality(Recent) < RateMax
      /\ IsFiniteSet(Recent) /\ Cardinality(Recent) \in Nat
  BY RecentFinite, ParametersAssumption DEF BaseInv, LoadInv, Act, AdmitInv
<1>3. shift \in Injection(InWindow, Recent)
  <2>1. ASSUME NEW j \in InWindow
        PROVE  j - Earlier \in Recent
    <3>1. /\ j \in 1 .. n /\ fires[j].gen = generation /\ fires[j].at >= now - Window
          /\ generation \in Nat /\ Earlier \in Nat
      BY <1>2 DEF BaseInv, TypeOK, RateInv
    <3>2. j > Earlier /\ fires[j].at = lastFires[j - Earlier]
      BY <1>1, <1>2, <3>1 DEF RateInv
    <3>3. j - Earlier \in 1 .. Len(lastFires)
      BY <1>1, <3>1, <3>2, RecentFinite DEF BaseInv, Earlier
    <3> QED
      BY <3>1, <3>2, <3>3 DEF Recent
  <2>2. \A i, j \in InWindow : i - Earlier = j - Earlier => i = j
    BY <1>1, <1>2 DEF RateInv
  <2> QED
    BY <2>1, <2>2 DEF Injection, IsInjective
<1>4. IsFiniteSet(InWindow) /\ Cardinality(InWindow) <= Cardinality(Recent)
  BY <1>2, <1>3, FS_Injection
<1>5. Cardinality(InWindow) \in Nat
  BY <1>4, FS_CardinalityType
<1> HIDE DEF InWindow, shift
<1>6. Cardinality(InWindow \cup {n + 1}) <= RateMax
  <2>1. Cardinality(InWindow \cup {n + 1}) \in {Cardinality(InWindow), Cardinality(InWindow) + 1}
    BY <1>4, FS_AddElement
  <2> QED
    BY <1>2, <1>4, <1>5, <2>1
<1> USE DEF InWindow
<1>7. ASSUME NEW i \in 1 .. n + 1
      PROVE  Cardinality({j \in 1 .. i : /\ fires'[j].gen = fires'[i].gen
                                         /\ fires'[j].at >= fires'[i].at - Window}) <= RateMax
  <2>1. CASE i \in 1 .. n
    <3>1. {j \in 1 .. i : fires'[j].gen = fires'[i].gen /\ fires'[j].at >= fires'[i].at - Window}
          = {j \in 1 .. i : fires[j].gen = fires[i].gen /\ fires[j].at >= fires[i].at - Window}
      BY <1>1, <2>1
    <3> QED
      BY <2>1, <3>1 DEF RateHeldByGeneration
  <2>2. CASE i = n + 1
    <3>1. now >= now - Window
      BY ClockType, ParametersAssumption DEF BaseInv
    <3>2. {j \in 1 .. i : fires'[j].gen = fires'[i].gen /\ fires'[j].at >= fires'[i].at - Window}
          = InWindow \cup {n + 1}
      BY <1>1, <2>2, <3>1
    <3> QED
      BY <1>6, <3>2
  <2> QED
    BY <1>1, <2>1, <2>2
<1> QED
  BY <1>1, <1>7 DEF RateHeldByGeneration
\* While the actions run, time only takes fires out of the window.
LEMMA NextAdmit ==
  ASSUME BaseInv, AdmitInv, Next
  PROVE  AdmitInv'
<1>1. CASE pc = "acting" /\ pc' = "acting"
  <2>1. lastFires' = lastFires /\ now' >= now /\ now \in Nat /\ now' \in Nat
    BY <1>1, ClockType
    DEF Next, Daemon, BeginCycle, Poll, EndBatch, NotLoaded, Suppress, Reject, PassBy, Expire,
        Admit, IsNext, Act, HandleLimits, LogEvals, Mark, Restart, Publish, SwitchOff,
        EditOther, Tick, Janitor, LogEvalsFails, Crash, policy, BaseInv
  <2>2. Recent' \subseteq Recent
    <3>1. \A i \in 1 .. Len(lastFires) : lastFires[i] \in Nat
      BY DEF BaseInv, TypeOK
    <3> QED
      BY <2>1, <3>1, ParametersAssumption DEF Recent
  <2>3. IsFiniteSet(Recent) /\ Cardinality(Recent) \in Nat
    BY RecentFinite DEF BaseInv
  <2>4. Cardinality(Recent') <= Cardinality(Recent) /\ Cardinality(Recent') \in Nat
    BY <2>2, <2>3, FS_Subset, FS_CardinalityType
  <2> QED
    BY <1>1, <2>3, <2>4, ParametersAssumption DEF AdmitInv
<1>2. CASE pc # "acting" /\ pc' = "acting"
  <2>1. PICK e \in batch : Admit(e)
    BY <1>2
    DEF Next, Daemon, BeginCycle, Poll, EndBatch, NotLoaded, Suppress, Reject, PassBy, Expire,
        Act, HandleLimits, LogEvals, Mark, Restart, Publish, SwitchOff, EditOther, Tick,
        Janitor, LogEvalsFails, Crash, IsNext
  <2>2. Recent' = Recent
    BY <2>1 DEF Admit, Recent, policy
  <2> QED
    BY <2>1, <2>2 DEF Admit, RateAdmits, AdmitInv
<1>3. CASE pc' # "acting"
  BY <1>3 DEF AdmitInv
<1> QED
  BY <1>1, <1>2, <1>3

LEMMA RateStep ==
  ASSUME IndInv, [Next]_vars
  PROVE  IndInv'
<1>1. BaseInv'
  BY BaseStep DEF IndInv
<1>2. AdmitInv'
  <2>1. CASE UNCHANGED vars
    BY <2>1 DEF vars, policy, IndInv, AdmitInv, Recent
  <2> QED
    BY <2>1, NextAdmit DEF IndInv
<1>3. RateInv' /\ RateHeldByGeneration'
  <2>1. CASE BeginCycle
    BY <2>1, CycleRate DEF IndInv
  <2>2. ASSUME NEW ok \in BOOLEAN, Act(ok)
        PROVE  RateInv' /\ RateHeldByGeneration'
    BY <2>2, ActRate, ActHeld DEF IndInv
  <2>3. CASE Crash
    BY <2>3, RateKept DEF Crash, IndInv
  <2>4. CASE \/ Publish \/ SwitchOff \/ EditOther \/ Tick \/ Janitor \/ LogEvalsFails \/ Restart
             \/ UNCHANGED vars
    <3>1. UNCHANGED <<fires, generation, cached, lastFires>>
      BY <2>4 DEF Publish, SwitchOff, EditOther, Tick, Janitor, LogEvalsFails, Restart, vars,
                  policy
    <3> QED
      BY <3>1, RateKept DEF IndInv
  <2>5. CASE Poll \/ EndBatch \/ HandleLimits \/ LogEvals \/ Mark
    <3>1. UNCHANGED <<fires, generation, cached, lastFires>>
      BY <2>5 DEF Poll, EndBatch, HandleLimits, LogEvals, Mark, policy
    <3> QED
      BY <3>1, RateKept DEF IndInv
  <2>6. ASSUME NEW e \in batch, NotLoaded(e) \/ Suppress(e) \/ Reject(e) \/ Expire(e) \/ Admit(e)
        PROVE  RateInv' /\ RateHeldByGeneration'
    <3>1. UNCHANGED <<fires, generation, cached, lastFires>>
      BY <2>6 DEF NotLoaded, Suppress, Reject, Expire, Admit, PassBy, policy
    <3> QED
      BY <3>1, RateKept DEF IndInv
  <2> QED
    BY <2>1, <2>2, <2>3, <2>4, <2>5, <2>6 DEF Next, Daemon
<1> QED
  BY <1>1, <1>2, <1>3 DEF IndInv

LEMMA RateInit == Init => IndInv
<1>1. Init => RateInv /\ AdmitInv /\ RateHeldByGeneration
  BY DEF Init, RateInv, AdmitInv, RateHeldByGeneration, Never
<1> QED
  BY <1>1, BaseInit DEF IndInv

\* The rate limit of a policy object holds although the check comes before the
\* actions and the fire is recorded after them: no window that ends with a fire
\* holds more than RateMax of its fires.
THEOREM RateLimitHeld == Spec => []RateHeldByGeneration
<1>1. IndInv /\ [Next]_vars => IndInv'
  BY RateStep
<1>2. IndInv => RateHeldByGeneration
  BY DEF IndInv
<1> QED
  BY RateInit, <1>1, <1>2, PTL DEF Spec
-----------------------------------------------------------------------------
(* max_fires                                                               *)

\* A step that writes or removes the file gives it another version, and never
\* enables it.
LEMMA FileChange ==
  ASSUME TypeOK, RemoveFile \/ DisableFile
  PROVE  /\ file' # "enabled"
         /\ UNCHANGED <<file, version>> \/ version' = version + 1
  BY DEF RemoveFile, DisableFile, WriteFile

LEMMA VersionKept ==
  ASSUME TypeOK, VersionInv,
         \/ cached' = Never
         \/ UNCHANGED <<cached, loaded>> /\ version' = version + 1
         \/ UNCHANGED <<cached, loaded, file, version>>,
         version' \in Nat,
         pc' = "acting" => loaded'
  PROVE  VersionInv'
  BY DEF TypeOK, VersionInv, Never

LEMMA CycleVersion ==
  ASSUME TypeOK, VersionInv, BeginCycle
  PROVE  VersionInv'
<1>1. UNCHANGED <<file, version>> /\ pc' # "acting" /\ version \in Nat
  BY DEF BeginCycle, disk, TypeOK
<1>2. CASE UNCHANGED <<cached, loaded>>
  BY <1>1, <1>2 DEF VersionInv
<1>3. CASE cached' = version /\ loaded' = (file = "enabled")
  <2>1. loaded' <=> file' = "enabled"
    BY <1>1, <1>3
  <2>2. cached' <= version'
    BY <1>1, <1>3
  <2> QED
    BY <1>1, <2>1, <2>2 DEF VersionInv
<1> QED
  BY <1>2, <1>3 DEF BeginCycle, LoadPolicies, policy

LEMMA NextVersion ==
  ASSUME TypeOK, TypeOK', VersionInv, Next
  PROVE  VersionInv'
<1> USE DEF policy, disk, local
<1>0. version' \in Nat
  BY DEF TypeOK
<1>1. CASE EditOther
  BY <1>0, <1>1, VersionKept DEF EditOther, VersionInv
<1>2. CASE Publish \/ Tick \/ Janitor \/ LogEvalsFails \/ Restart
  <2>1. UNCHANGED <<cached, loaded, file, version>> /\ (pc' = "acting" => pc = "acting")
    BY <1>2 DEF Publish, Tick, Janitor, LogEvalsFails, Restart
  <2> QED
    BY <1>0, <2>1, VersionKept DEF VersionInv
<1>3. CASE Poll \/ EndBatch \/ LogEvals \/ Mark \/ \E ok \in BOOLEAN : Act(ok)
  <2>1. UNCHANGED <<cached, loaded, file, version>> /\ pc' # "acting"
    BY <1>3 DEF Poll, EndBatch, LogEvals, Mark, Act
  <2> QED
    BY <1>0, <2>1, VersionKept
<1>4. ASSUME NEW e \in batch, NotLoaded(e) \/ Suppress(e) \/ Reject(e) \/ Admit(e)
      PROVE  VersionInv'
  <2>1. UNCHANGED <<cached, loaded, file, version>> /\ (pc' = "acting" => loaded)
    BY <1>4 DEF NotLoaded, Suppress, Reject, Admit, PassBy, IsNext
  <2> QED
    BY <1>0, <2>1, VersionKept
<1>5. CASE SwitchOff \/ HandleLimits \/ \E e \in batch : Expire(e)
  <2>1. /\ UNCHANGED <<cached, loaded>> /\ (pc' = "acting" => loaded)
        /\ UNCHANGED <<file, version>> \/ RemoveFile \/ DisableFile
    BY <1>5 DEF SwitchOff, HandleLimits, Expire, VersionInv
  <2> QED
    BY <1>0, <2>1, FileChange, VersionKept
<1>6. CASE Crash
  BY <1>0, <1>6, VersionKept DEF Crash
<1> QED
  BY <1>1, <1>2, <1>3, <1>4, <1>5, <1>6, CycleVersion DEF Next, Daemon

-----------------------------------------------------------------------------
LEMMA FiredFinite ==
  ASSUME TypeOK
  PROVE  /\ IsFiniteSet(Fired) /\ Cardinality(Fired) \in Nat
         /\ \A S : S \subseteq Fired =>
                IsFiniteSet(S) /\ Cardinality(S) \in Nat /\ Cardinality(S) <= Cardinality(Fired)
<1>1. Fired \subseteq 1 .. Len(born) /\ Len(born) \in Nat
  BY DEF TypeOK, Fired, Events
<1>2. IsFiniteSet(1 .. Len(born))
  BY <1>1, FS_Interval
<1>3. IsFiniteSet(Fired)
  BY <1>1, <1>2, FS_Subset
<1> QED
  BY <1>3, FS_Subset, FS_CardinalityType

\* Nothing enables the file; and fewer rows, or more failures, count for less.
LEMMA LimitKept ==
  ASSUME TypeOK, LimitInv, Fired' \subseteq Fired, Failed \subseteq Failed',
         file' = "enabled" => file = "enabled",
         pc' = "log" => \/ cur' \in Failed'
                        \/ pc = "log" /\ UNCHANGED <<cur, evalLog>>
  PROVE  LimitInv'
<1> SUFFICES ASSUME file' = "enabled"
             PROVE  /\ Cardinality(Fired' \ Failed') < MaxFires
                    /\ pc' = "log" => cur' \in Failed' \/ Cardinality(Fired') + 1 < MaxFires
  BY DEF LimitInv
<1>1. /\ Cardinality(Fired \ Failed) < MaxFires
      /\ pc = "log" => cur \in Failed \/ Cardinality(Fired) + 1 < MaxFires
  BY DEF LimitInv
<1>2. IsFiniteSet(Fired \ Failed) /\ Cardinality(Fired \ Failed) \in Nat
  BY FiredFinite
<1>3. Fired' \ Failed' \subseteq Fired \ Failed
  OBVIOUS
<1>4. Cardinality(Fired' \ Failed') <= Cardinality(Fired \ Failed)
      /\ Cardinality(Fired' \ Failed') \in Nat
  BY <1>2, <1>3, FS_Subset, FS_CardinalityType
<1>5. Cardinality(Fired' \ Failed') < MaxFires
  BY <1>1, <1>2, <1>4, ParametersAssumption
<1>6. evalLog' = evalLog => Fired' = Fired
  BY DEF Fired
<1> QED
  BY <1>1, <1>5, <1>6

LEMMA ActLimit ==
  ASSUME BaseInv, LimitInv, NEW ok \in BOOLEAN, Act(ok)
  PROVE  LimitInv'
<1>1. /\ UNCHANGED <<file, cur, evalLog>> /\ (pc' = "log" => ~ok)
  BY DEF Act, disk, local
<1>2. Fired' = Fired
  BY <1>1 DEF Fired
<1>3. /\ Len(fires) \in Nat /\ Len(fires') = Len(fires) + 1
      /\ fires'[Len(fires) + 1].event = cur /\ fires'[Len(fires) + 1].ok = ok
      /\ \A i \in 1 .. Len(fires) : fires'[i] = fires[i]
  BY ActFires, FireFields
<1>4. Failed \subseteq Failed'
  BY <1>3 DEF Failed
<1>5. ~ok => cur \in Failed'
  BY <1>3 DEF Failed
<1> QED
  BY <1>1, <1>2, <1>4, <1>5, LimitKept DEF BaseInv

LEMMA HandleLimitsLimit ==
  ASSUME TypeOK, LimitInv, HandleLimits
  PROVE  LimitInv'
<1>1. UNCHANGED <<evalLog, fires, cur>> /\ Fired' = Fired /\ Failed' = Failed
  BY DEF HandleLimits, local, Fired, Failed
<1>2. CASE Cardinality(Fired) + 1 >= MaxFires
  <2>1. file' # "enabled"
    BY <1>2, FileChange DEF HandleLimits
  <2> QED
    BY <2>1 DEF LimitInv
<1>3. CASE ~(Cardinality(Fired) + 1 >= MaxFires)
  <2>1. file' = file
    BY <1>3 DEF HandleLimits
  <2>2. Cardinality(Fired) + 1 < MaxFires
    BY <1>3, FiredFinite, ParametersAssumption
  <2> QED
    BY <1>1, <2>1, <2>2 DEF LimitInv
<1> QED
  BY <1>2, <1>3

LEMMA LogEvalsLimit ==
  ASSUME TypeOK, LimitInv, LogEvals
  PROVE  LimitInv'
<1> SUFFICES ASSUME file' = "enabled"
             PROVE  Cardinality(Fired' \ Failed') < MaxFires
  BY DEF LogEvals, LimitInv
<1>1. /\ file = "enabled" /\ pc = "log" /\ Failed' = Failed
      /\ evalLog' = evalLog \cup {[event |-> cur, at |-> nowTs]}
  BY DEF LogEvals, Failed
<1>2. Fired' = Fired \cup {cur}
  <2>1. [event |-> cur, at |-> nowTs].event = cur
    OBVIOUS
  <2>2. Fired' = {r.event : r \in evalLog \cup {[event |-> cur, at |-> nowTs]}}
    BY <1>1 DEF Fired
  <2> QED
    BY <2>1, <2>2, Zenon DEF Fired
<1>3. CASE cur \in Failed
  <2>1. Fired' \ Failed' = Fired \ Failed
    BY <1>1, <1>2, <1>3
  <2> QED
    BY <1>1, <2>1 DEF LimitInv
<1>4. CASE Cardinality(Fired) + 1 < MaxFires
  <2>1. /\ IsFiniteSet(Fired \cup {cur})
        /\ Cardinality(Fired \cup {cur}) \in {Cardinality(Fired), Cardinality(Fired) + 1}
    BY FiredFinite, FS_AddElement
  <2>2. /\ Cardinality(Fired' \ Failed') <= Cardinality(Fired \cup {cur})
        /\ Cardinality(Fired' \ Failed') \in Nat
    <3>1. Fired' \ Failed' \subseteq Fired \cup {cur}
      BY <1>2
    <3> QED
      BY <2>1, <3>1, FS_Subset, FS_CardinalityType
  <2> QED
    BY <1>4, <2>1, <2>2, FiredFinite, ParametersAssumption
<1> QED
  BY <1>1, <1>3, <1>4 DEF LimitInv

LEMMA NextLimit ==
  ASSUME BaseInv, LimitInv, Next
  PROVE  LimitInv'
<1> USE DEF disk, local
<1>1. CASE \/ Publish \/ EditOther \/ Tick \/ LogEvalsFails \/ Crash \/ Restart
           \/ BeginCycle \/ Poll \/ EndBatch \/ Mark
           \/ \E e \in batch : NotLoaded(e) \/ Suppress(e) \/ Reject(e) \/ Admit(e)
  <2>1. UNCHANGED <<evalLog, fires, file>> /\ (pc' = "log" => pc = "log" /\ cur' = cur)
    BY <1>1 DEF Publish, EditOther, Tick, LogEvalsFails, Crash, Restart, BeginCycle, Poll,
               EndBatch, Mark, NotLoaded, Suppress, Reject, Admit, PassBy, IsNext
  <2>2. Fired' = Fired /\ Failed' = Failed
    BY <2>1 DEF Fired, Failed
  <2> QED
    BY <2>1, <2>2, LimitKept DEF BaseInv
<1>2. ASSUME NEW e \in batch, Expire(e)
      PROVE  LimitInv'
  <2>1. UNCHANGED <<evalLog, fires>> /\ pc' # "log" /\ (file' = "enabled" => file = "enabled")
    BY <1>2, FileChange DEF Expire, BaseInv
  <2>2. Fired' = Fired /\ Failed' = Failed
    BY <2>1 DEF Fired, Failed
  <2> QED
    BY <2>1, <2>2, LimitKept DEF BaseInv
<1>4. CASE SwitchOff
  <2>1. UNCHANGED <<evalLog, fires, pc, cur>> /\ file' # "enabled"
    BY <1>4, FileChange DEF SwitchOff, BaseInv
  <2> QED
    BY <2>1 DEF LimitInv
<1>3. CASE Janitor
  <2>1. UNCHANGED <<fires, file>> /\ evalLog' \subseteq evalLog /\ pc' # "log"
    BY <1>3 DEF Janitor
  <2>2. Fired' \subseteq Fired /\ Failed' = Failed
    BY <2>1 DEF Fired, Failed
  <2> QED
    BY <2>1, <2>2, LimitKept DEF BaseInv
<1> QED
  BY <1>1, <1>2, <1>3, <1>4, ActLimit, HandleLimitsLimit, LogEvalsLimit DEF Next, Daemon, BaseInv

LEMMA CountInit == Init => CountInv
<1> SUFFICES ASSUME Init
             PROVE  CountInv
  OBVIOUS
<1>1. Fired = {}
  BY DEF Init, Fired
<1>2. Cardinality(Fired \ Failed) = 0
  BY <1>1, FS_EmptySet
<1>3. LimitInv
  BY <1>2, ParametersAssumption DEF Init, LimitInv
<1>4. VersionInv
  BY DEF Init, VersionInv, Never
<1> QED
  BY <1>3, <1>4, BaseInit DEF CountInv

LEMMA CountStep ==
  ASSUME CountInv, [Next]_vars
  PROVE  CountInv'
<1>1. BaseInv'
  BY BaseStep DEF CountInv
<1>2. CASE UNCHANGED vars
  BY <1>1, <1>2 DEF vars, disk, policy, local, CountInv, VersionInv, LimitInv, Fired, Failed
<1>3. CASE Next
  BY <1>1, <1>3, NextVersion, NextLimit DEF CountInv, BaseInv
<1> QED
  BY <1>2, <1>3
\* The events that fired, the new fire included, and never failed, are the
\* event of that fire and events that the limit has counted already.
LEMMA ActSucceeded ==
  ASSUME BaseInv, NEW ok \in BOOLEAN, Act(ok), FiredOn(Len(fires)) \ {cur} \subseteq Fired
  PROVE  Succeeded(Len(fires))' \subseteq (Fired \ Failed) \cup {cur}
<1>1. /\ Len(fires) \in Nat /\ Len(fires') = Len(fires) + 1
      /\ fires'[Len(fires) + 1].event = cur
      /\ \A i \in 1 .. Len(fires) : fires'[i] = fires[i]
  BY ActFires, FireFields
<1> SUFFICES ASSUME NEW e \in Succeeded(Len(fires))', e # cur
             PROVE  e \in Fired \ Failed
  OBVIOUS
<1>2. /\ e \in FiredOn(Len(fires))'
      /\ e \notin {fires'[i].event : i \in {j \in 1 .. Len(fires') : ~fires'[j].ok}}
  BY DEF Succeeded
<1>3. PICK i \in 1 .. Len(fires') : e = fires'[i].event
  BY <1>2 DEF FiredOn
<1>4. i \in 1 .. Len(fires) /\ e = fires[i].event
  BY <1>1, <1>3
<1>5. e \in Fired
  BY <1>4 DEF FiredOn
<1>6. e \notin Failed
  BY <1>1, <1>2 DEF Failed
<1> QED
  BY <1>5, <1>6

LEMMA ActWithinLimit ==
  ASSUME CountInv, NEW ok \in BOOLEAN, Act(ok), ~fires'[Len(fires')].stale,
         FiredOn(Len(fires)) \ {cur} \subseteq Fired
  PROVE  Cardinality(Succeeded(Len(fires))') <= MaxFires
<1>1. cached = version
  BY ActFires, FireFields DEF CountInv
<1>2. Cardinality(Fired \ Failed) < MaxFires
  BY <1>1 DEF CountInv, VersionInv, LimitInv, Act
<1>3. IsFiniteSet(Fired \ Failed) /\ Cardinality(Fired \ Failed) \in Nat
  BY FiredFinite DEF CountInv, BaseInv
<1>4. /\ IsFiniteSet((Fired \ Failed) \cup {cur})
      /\ Cardinality((Fired \ Failed) \cup {cur})
             \in {Cardinality(Fired \ Failed), Cardinality(Fired \ Failed) + 1}
  BY <1>3, FS_AddElement
<1>5. Succeeded(Len(fires))' \subseteq (Fired \ Failed) \cup {cur}
  BY ActSucceeded DEF CountInv
<1>6. /\ Cardinality(Succeeded(Len(fires))') <= Cardinality((Fired \ Failed) \cup {cur})
      /\ Cardinality(Succeeded(Len(fires))') \in Nat
  BY <1>4, <1>5, FS_Subset, FS_CardinalityType
<1> QED
  BY <1>2, <1>3, <1>4, <1>6, ParametersAssumption

\* Nothing but Act adds a fire.
LEMMA OnlyActFires ==
  ASSUME [Next]_vars, fires' # fires
  PROVE  \E ok \in BOOLEAN : Act(ok)
  BY DEF Next, Daemon, BeginCycle, Poll, EndBatch, NotLoaded, Suppress, Reject, PassBy, Expire,
         Admit, HandleLimits, LogEvals, Mark, Restart, Publish, SwitchOff, EditOther, Tick, Janitor,
         LogEvalsFails, Crash, vars

\* policy.py:67, "fire at most N times, then auto-disable": a copy of the policy
\* that is up to date does not fire with success on more than max_fires events,
\* as long as the log still counts the events that fired.
THEOREM MaxFiresHeld == Spec => MaxFiresHeldWhileLogged
<1>1. ASSUME CountInv, [Next]_vars, Len(fires') > Len(fires), ~fires'[Len(fires')].stale,
             FiredOn(Len(fires)) \ {cur} \subseteq Fired
      PROVE  Cardinality(Succeeded(Len(fires))') <= MaxFires
  <2>1. fires' # fires
    BY <1>1 DEF CountInv, BaseInv, TypeOK
  <2> QED
    BY <1>1, <2>1, OnlyActFires, ActWithinLimit
<1>2. CountInv /\ [Next]_vars
      => [(Len(fires') > Len(fires) /\ ~fires'[Len(fires')].stale
              /\ FiredOn(Len(fires)) \ {cur} \subseteq Fired)
          => Cardinality(Succeeded(Len(fires))') <= MaxFires]_vars
  BY <1>1
<1>3. CountInv /\ [Next]_vars => CountInv'
  BY CountStep
<1> QED
  BY CountInit, <1>2, <1>3, PTL DEF Spec, MaxFiresHeldWhileLogged

-----------------------------------------------------------------------------
(* The hot reload                                                          *)

\* A copy in memory of a policy that is off was loaded before it went off, and
\* no cycle goes on with a load older than the reload interval.
SwitchInv ==
    /\ offSince = Never <=> file = "enabled"
    /\ loaded /\ offSince # Never => lastLoad <= offSince
    /\ lastLoad <= now
    /\ pc \notin {"down", "idle"} => cycleAt - lastLoad <= ReloadInterval

ReloadInv == CountInv /\ SwitchInv

\* The file operations keep the time at which the file went off.
LEMMA FileOff ==
  ASSUME TypeOK, SwitchInv, RemoveFile \/ DisableFile
  PROVE  /\ offSince' = Never <=> file' = "enabled"
         /\ offSince' = offSince \/ offSince' = now
<1>1. now # Never
  BY ClockType DEF Never
<1> QED
  BY <1>1 DEF SwitchInv, RemoveFile, DisableFile, WriteFile

\* A step that neither loads the policies nor begins a cycle keeps it.
LEMMA SwitchKept ==
  ASSUME TypeOK, SwitchInv,
         UNCHANGED <<loaded, lastLoad>> \/ (loaded' = FALSE /\ lastLoad' = Never),
         offSince' = Never <=> file' = "enabled",
         offSince' = offSince \/ offSince' = now,
         now' \in Nat /\ now <= now',
         pc' \in {"down", "idle"} \/ (pc \notin {"down", "idle"} /\ UNCHANGED <<cycleAt, lastLoad>>)
  PROVE  SwitchInv'
  BY ClockType DEF TypeOK, SwitchInv, Never

LEMMA CycleSwitch ==
  ASSUME BaseInv, VersionInv, SwitchInv, BeginCycle
  PROVE  SwitchInv'
<1>1. /\ now \in Nat /\ ReloadInterval \in Nat /\ cycleAt' = now
      /\ UNCHANGED <<now, file, version, offSince>>
  BY ClockType, ParametersAssumption DEF BaseInv, BeginCycle, disk
<1>2. CASE lastLoad' = now /\ LoadPolicies
  <2>1. loaded' => file = "enabled"
    BY <1>2 DEF LoadPolicies, VersionInv
  <2> QED
    BY <1>1, <1>2, <2>1 DEF SwitchInv
<1>3. CASE ~(lastLoad = Never \/ now - lastLoad > ReloadInterval) /\ UNCHANGED policy
  <2>1. lastLoad \in Nat
    BY <1>3 DEF BaseInv, TypeOK
  <2> QED
    BY <1>1, <1>3, <2>1 DEF SwitchInv, policy
<1> QED
  BY <1>2, <1>3 DEF BeginCycle

LEMMA SwitchStep ==
  ASSUME BaseInv, VersionInv, SwitchInv, [Next]_vars
  PROVE  SwitchInv'
<1> USE DEF disk, policy, local
<1>0. TypeOK /\ now \in Nat
  BY ClockType DEF BaseInv
<1>1. CASE SwitchOff \/ HandleLimits \/ \E e \in batch : Expire(e)
  <2>1. /\ UNCHANGED <<loaded, lastLoad, cycleAt, now>>
        /\ pc' = pc \/ pc \notin {"down", "idle"}
        /\ UNCHANGED <<file, version, offSince>> \/ RemoveFile \/ DisableFile
    BY <1>1 DEF SwitchOff, HandleLimits, Expire, IsNext
  <2>2. /\ offSince' = Never <=> file' = "enabled"
        /\ offSince' = offSince \/ offSince' = now
    BY <1>0, <2>1, FileOff DEF SwitchInv
  <2> QED
    BY <1>0, <2>1, <2>2, SwitchKept
<1>2. CASE \/ Publish \/ EditOther \/ Tick \/ Janitor \/ LogEvalsFails \/ Restart
           \/ UNCHANGED vars
  <2>1. /\ UNCHANGED <<loaded, lastLoad, cycleAt, file, offSince>>
        /\ pc' \in {"down", "idle"} \/ pc \notin {"down", "idle"}
        /\ now' \in Nat /\ now <= now'
    BY <1>0, <1>2 DEF Publish, EditOther, Tick, Janitor, LogEvalsFails, Restart, vars
  <2> QED
    BY <1>0, <2>1, SwitchKept DEF SwitchInv
<1>3. CASE \/ Poll \/ EndBatch \/ LogEvals \/ Mark \/ \E ok \in BOOLEAN : Act(ok)
  <2>1. /\ UNCHANGED <<loaded, lastLoad, cycleAt, file, offSince, now>>
        /\ pc \notin {"down", "idle"}
    BY <1>3 DEF Poll, EndBatch, LogEvals, Mark, Act
  <2> QED
    BY <1>0, <2>1, SwitchKept DEF SwitchInv
<1>5. ASSUME NEW e \in batch, NotLoaded(e) \/ Suppress(e) \/ Reject(e) \/ Admit(e)
      PROVE  SwitchInv'
  <2>1. /\ UNCHANGED <<loaded, lastLoad, cycleAt, file, offSince, now>>
        /\ pc \notin {"down", "idle"}
    BY <1>5 DEF NotLoaded, Suppress, Reject, Admit, PassBy, IsNext
  <2> QED
    BY <1>0, <2>1, SwitchKept DEF SwitchInv
<1>4. CASE Crash
  <2>1. /\ loaded' = FALSE /\ lastLoad' = Never /\ pc' = "down"
        /\ UNCHANGED <<file, offSince, now>>
    BY <1>4 DEF Crash
  <2>2. offSince' = Never <=> file' = "enabled"
    BY <2>1 DEF SwitchInv
  <2>3. -1 <= now'
    BY <1>0, <2>1
  <2> QED
    BY <2>1, <2>2, <2>3 DEF SwitchInv, Never
<1>6. CASE BeginCycle
  BY <1>6, CycleSwitch
<1> QED
  BY <1>1, <1>2, <1>3, <1>4, <1>5, <1>6 DEF Next, Daemon

\* Where an action runs, the copy was loaded before the policy went off and is
\* not older than the reload interval.
LEMMA ReloadedSilent ==
  ASSUME ReloadInv
  PROVE  SilentOnceReloaded
<1> SUFFICES ASSUME pc = "acting", offSince # Never
             PROVE  cycleAt - offSince <= ReloadInterval
  BY DEF SilentOnceReloaded
<1>1. lastLoad <= offSince /\ cycleAt - lastLoad <= ReloadInterval
  BY DEF ReloadInv, CountInv, VersionInv, SwitchInv
<1>2. /\ lastLoad \in Int /\ offSince \in Int /\ cycleAt \in Int /\ ReloadInterval \in Nat
  BY ParametersAssumption DEF ReloadInv, CountInv, BaseInv, TypeOK, Never
<1> QED
  BY <1>1, <1>2

\* README.md:79, the hot reload: a policy that was switched off, by hand or by
\* one of its limits, does not act in a cycle that began more than the reload
\* interval later; for any interval, clock, edits, crashes and failed writes.
THEOREM SwitchedOffFallsSilent == Spec => []SilentOnceReloaded
<1>1. Init => ReloadInv
  <2>1. Init => SwitchInv
    BY ParametersAssumption DEF Init, SwitchInv, Never
  <2> QED
    BY <2>1, CountInit DEF ReloadInv
<1>2. ReloadInv /\ [Next]_vars => ReloadInv'
  BY CountStep, SwitchStep DEF ReloadInv, CountInv
<1>3. ReloadInv => SilentOnceReloaded
  BY ReloadedSilent
<1> QED
  BY <1>1, <1>2, <1>3, PTL DEF Spec
=============================================================================
