--------------------------- MODULE DeferredProofs ---------------------------
(***************************************************************************)
(* Theorems about Deferred, for every set of cancel groups and delays and  *)
(* any number of requests and faults, when the singleton lock does its     *)
(* work: no request becomes two events, no replaced request becomes one,   *)
(* a group has one row, and no event is early.                             *)
(*                                                                         *)
(* The reason is the order of the two commits: between them the request is *)
(* in the daemon's hand and nowhere else.  That the row a daemon is about  *)
(* to delete is still there is where the second daemon would break it.     *)
(*                                                                         *)
(* Nothing vanishes either: VanishInv counts what was lost against the     *)
(* faults, and says that what is lost is in no other place.                *)
(***************************************************************************)
EXTENDS Deferred, FiniteSetTheorems, TLAPS

\* What the singleton lock is for.
SingleDaemon == \A d, e \in Daemons : d = e

\* Every request is in one place: its row, the daemon's hand, or its event.
TableInv ==
    /\ \A r, s \in deferred : r.id = s.id \/ r.req = s.req => r = s
    /\ \A r \in deferred : r.req <= requests /\ r.req \notin HaveFired \cup replaced
    /\ \A n \in HaveFired \cup replaced : n <= requests
    /\ HaveFired \cap replaced = {}

DrainInv ==
    \A d \in Daemons :
        /\ due[d] \subseteq {r \in deferred : r.fire <= now}
        /\ pc[d] \in {"down", "idle"} => due[d] = {}
        /\ pc[d] = "promote" =>
               /\ hand[d].fire <= now
               /\ hand[d].req <= requests
               /\ hand[d].req \notin Waiting \cup HaveFired \cup replaced

Promised == NeverDoubled /\ ReplacedNeverFires /\ OnePerGroup /\ NeverEarly

IndInv == TypeOK /\ TableInv /\ DrainInv /\ NeverDoubled /\ OnePerGroup /\ NeverEarly

-----------------------------------------------------------------------------
\* One event more: the requests that have fired are the old ones and its own.
LEMMA AppendFired ==
  ASSUME TypeOK, NEW e \in Fired, events' = Append(events, e)
  PROVE  /\ events' \in Seq(Fired)
         /\ HaveFired' = HaveFired \cup {e.req}
         /\ e.req \notin HaveFired /\ NeverDoubled => NeverDoubled'
         /\ e.at >= e.fire /\ NeverEarly => NeverEarly'
<1>1. /\ events' \in Seq(Fired)
      /\ Len(events') = Len(events) + 1 /\ Len(events) \in Nat
      /\ events'[Len(events) + 1] = e
      /\ \A i \in 1 .. Len(events) : events'[i] = events[i]
  BY DEF TypeOK
<1>2. 1 .. Len(events') = (1 .. Len(events)) \cup {Len(events) + 1}
  BY <1>1
<1>3. HaveFired' = HaveFired \cup {e.req}
  BY <1>1, <1>2 DEF HaveFired
<1>4. e.req \notin HaveFired /\ NeverDoubled => NeverDoubled'
  BY <1>1, <1>2 DEF HaveFired, NeverDoubled
<1>5. e.at >= e.fire /\ NeverEarly => NeverEarly'
  BY <1>1, <1>2 DEF NeverEarly
<1> QED
  BY <1>1, <1>3, <1>4, <1>5

\* The numbers of the requests are numbers.
LEMMA RequestType ==
  ASSUME TypeOK
  PROVE  /\ HaveFired \subseteq Nat /\ Waiting \subseteq Nat /\ replaced \subseteq Nat
         /\ requests \in Nat /\ now \in Nat
         /\ \A g : \A r \in OfGroup(g) : r.req \in Nat
<1>0. \A i \in 1 .. Len(events) : events[i] \in Fired
  BY DEF TypeOK
<1>1. \A i \in 1 .. Len(events) : events[i].req \in Nat
  BY <1>0 DEF Fired
<1>2. \A r \in deferred : r.req \in Nat
  BY DEF TypeOK, Rows
<1> QED
  BY <1>1, <1>2 DEF TypeOK, HaveFired, Waiting, OfGroup

\* The initial state satisfies the inductive invariant.
LEMMA InitInv == Init => IndInv
  BY ParametersAssumption
  DEF Init, IndInv, TypeOK, TableInv, DrainInv, NeverDoubled, OnePerGroup, NeverEarly,
      HaveFired, Waiting

\* A request with a delay: its row is new in every respect.
LEMMA EmitDeferredInv ==
  ASSUME SingleDaemon, IndInv, NEW d \in Daemons, NEW g \in Groups \cup {NoGroup},
         EmitDeferred(d, g)
  PROVE  IndInv'
<1>1. PICK delay \in Delays \ {0}, id \in 1 .. MaxRequests :
        LET kept == deferred \ OfGroup(g) IN
        /\ IsNewRowId(id, kept)
        /\ deferred' = kept \cup {[id |-> id, req |-> requests + 1,
                                   fire |-> now + delay, group |-> g]}
  BY DEF EmitDeferred
<1> DEFINE kept == deferred \ OfGroup(g)
           row == [id |-> id, req |-> requests + 1, fire |-> now + delay, group |-> g]
<1>2. /\ deferred' = kept \cup {row} /\ row \in Rows
      /\ \A r \in kept : r.id < id
      /\ \A r \in kept : r.group = g => g = NoGroup
      /\ kept \subseteq deferred
  BY <1>1, ParametersAssumption DEF IndInv, TypeOK, Rows, IsNewRowId, OfGroup
<1>3. /\ UNCHANGED <<now, events, pc, due, hand, faults, cancelled, lost>>
      /\ requests' = requests + 1
      /\ replaced' = replaced \cup {r.req : r \in OfGroup(g)}
      /\ OfGroup(g) \subseteq deferred
      /\ \A e \in Daemons : pc[e] = "idle"
  BY DEF EmitDeferred, OfGroup, SingleDaemon
<1>4. HaveFired' = HaveFired
  BY <1>3 DEF HaveFired
<1>5. TypeOK'
  <2>1. replaced' \subseteq Nat /\ requests' \in Nat /\ deferred' \subseteq Rows
    BY <1>2, <1>3, RequestType DEF IndInv, TypeOK
  <2> QED
    BY <1>3, <2>1 DEF IndInv, TypeOK
<1>6. TableInv'
  <2>1. \A r, s \in deferred' : r.id = s.id \/ r.req = s.req => r = s
    BY <1>2 DEF IndInv, TypeOK, TableInv, Rows
  <2>2. \A n \in HaveFired \cup replaced' : n <= requests /\ n \in Nat
    BY <1>3, RequestType DEF IndInv, TableInv
  <2>3. \A r \in kept : r.req <= requests /\ r.req \notin HaveFired \cup replaced'
    BY <1>2, <1>3 DEF IndInv, TableInv
  <2>4. HaveFired \cap replaced' = {}
    BY <1>3 DEF IndInv, TableInv
  <2>5. row.req = requests + 1 /\ row.req \notin HaveFired \cup replaced'
    BY <2>2 DEF IndInv, TypeOK
  <2>6. requests \in Nat /\ \A r \in kept : r.req \in Nat
    BY <1>2 DEF IndInv, TypeOK, Rows
  <2> QED
    BY <1>2, <1>3, <1>4, <2>1, <2>2, <2>3, <2>4, <2>5, <2>6 DEF TableInv
<1>7. DrainInv'
  BY <1>3 DEF IndInv, DrainInv
<1>8. NeverDoubled' /\ NeverEarly'
  BY <1>3 DEF IndInv, NeverDoubled, NeverEarly
<1>9. OnePerGroup'
  BY <1>2 DEF IndInv, OnePerGroup
<1> QED
  BY <1>5, <1>6, <1>7, <1>8, <1>9 DEF IndInv

\* A request without a delay is an event at once.
LEMMA EmitNowInv ==
  ASSUME SingleDaemon, IndInv, NEW d \in Daemons, NEW g \in Groups \cup {NoGroup},
         EmitNow(d, g)
  PROVE  IndInv'
<1> DEFINE e == [req |-> requests + 1, fire |-> now, at |-> now]
<1>1. /\ events' = Append(events, e) /\ e \in Fired
      /\ UNCHANGED <<now, deferred, pc, due, hand, faults, replaced, lost>>
      /\ requests' = requests + 1 /\ requests \in Nat
      /\ cancelled' = cancelled \cup {r.req : r \in OfGroup(g)}
      /\ \A f \in Daemons : pc[f] = "idle"
      /\ e.req = requests + 1 /\ e.at >= e.fire
  BY DEF EmitNow, SingleDaemon, IndInv, TypeOK, Fired
<1> HIDE DEF e
<1>2. \A n \in HaveFired \cup replaced \cup Waiting : n <= requests /\ n \in Nat
  BY RequestType DEF IndInv, TableInv, Waiting
<1>3. e.req \notin HaveFired \cup replaced \cup Waiting
  BY <1>1, <1>2
<1>4. /\ HaveFired' = HaveFired \cup {e.req} /\ events' \in Seq(Fired)
      /\ NeverDoubled' /\ NeverEarly'
  BY <1>1, <1>3, AppendFired DEF IndInv
<1>5. TypeOK'
  <2>1. cancelled' \subseteq Nat /\ requests' \in Nat
    <3>1. {r.req : r \in OfGroup(g)} \subseteq Nat
      BY RequestType DEF IndInv
    <3>2. cancelled \subseteq Nat /\ requests \in Nat
      BY DEF IndInv, TypeOK
    <3>3. cancelled' \subseteq Nat
      BY <1>1, <3>1, <3>2
    <3> QED
      BY <1>1, <3>2, <3>3
  <2>2. UNCHANGED <<now, deferred, pc, due, hand, faults, replaced, lost>>
    BY <1>1
  <2> QED
    BY <1>4, <2>1, <2>2 DEF IndInv, TypeOK
<1>6. TableInv'
  BY <1>1, <1>2, <1>3, <1>4 DEF IndInv, TableInv, Waiting
<1>7. DrainInv'
  BY <1>1 DEF IndInv, DrainInv
<1>8. OnePerGroup'
  BY <1>1 DEF IndInv, OnePerGroup
<1> QED
  BY <1>4, <1>5, <1>6, <1>7, <1>8 DEF IndInv

\* The row goes from the table to the daemon's hand.
LEMMA DeleteDeferredInv ==
  ASSUME SingleDaemon, IndInv, NEW d \in Daemons, NEW r \in due[d], DeleteDeferred(d, r)
  PROVE  IndInv'
<1>1. /\ r \in deferred /\ r.fire <= now /\ r \in Rows
      /\ deferred' = deferred \ {r}
      /\ UNCHANGED <<now, events, requests, faults, history>>
  BY DEF DeleteDeferred, IndInv, TypeOK, DrainInv, TableInv
<1>2. /\ due' = [due EXCEPT ![d] = @ \ {r}]
      /\ hand' = [hand EXCEPT ![d] = r]
      /\ pc' = [pc EXCEPT ![d] = "promote"]
      /\ \A e \in Daemons : e = d
  BY DEF DeleteDeferred, SingleDaemon
<1>3. HaveFired' = HaveFired /\ Waiting' = Waiting \ {r.req}
  BY <1>1 DEF HaveFired, Waiting, IndInv, TableInv
<1>4. TypeOK'
  BY <1>1, <1>2 DEF IndInv, TypeOK, history
<1>5. TableInv'
  BY <1>1, <1>3 DEF IndInv, TableInv, history
<1>6. DrainInv'
  <2>1. due'[d] = due[d] \ {r} /\ hand'[d] = r /\ pc'[d] = "promote"
    BY <1>2 DEF IndInv, TypeOK
  <2>2. r.req <= requests' /\ r.req \notin (Waiting \cup HaveFired \cup replaced)'
    BY <1>1, <1>3 DEF IndInv, TableInv, history
  <2>3. due'[d] \subseteq {s \in deferred' : s.fire <= now'}
    BY <1>1, <2>1 DEF IndInv, DrainInv
  <2> QED
    BY <1>1, <1>2, <2>1, <2>2, <2>3 DEF DrainInv
<1>7. NeverDoubled' /\ NeverEarly' /\ OnePerGroup'
  BY <1>1 DEF IndInv, NeverDoubled, NeverEarly, OnePerGroup
<1> QED
  BY <1>4, <1>5, <1>6, <1>7 DEF IndInv

\* The event goes from the daemon's hand to the table of events.
LEMMA PromoteInv ==
  ASSUME SingleDaemon, IndInv, NEW d \in Daemons, Promote(d)
  PROVE  IndInv'
<1> DEFINE e == [req |-> hand[d].req, fire |-> hand[d].fire, at |-> now]
<1>1. /\ hand[d] \in Rows /\ hand[d].fire <= now /\ hand[d].req <= requests
      /\ e.req \notin Waiting \cup HaveFired \cup replaced
      /\ e \in Fired
  BY DEF Promote, IndInv, TypeOK, DrainInv, Rows, Fired
<1>2. /\ events' = Append(events, e)
      /\ hand' = [hand EXCEPT ![d] = NoGroup]
      /\ pc' = [pc EXCEPT ![d] = "drain"]
      /\ UNCHANGED <<now, deferred, due, requests, faults, history>>
      /\ \A f \in Daemons : f = d
  BY DEF Promote, SingleDaemon
<1>3. /\ HaveFired' = HaveFired \cup {e.req}
      /\ NeverDoubled' /\ NeverEarly'
  BY <1>1, <1>2, AppendFired DEF IndInv, Rows
<1>4. TypeOK'
  BY <1>1, <1>2 DEF IndInv, TypeOK, history
<1>5. TableInv'
  BY <1>1, <1>2, <1>3 DEF IndInv, TableInv, Waiting, history
<1>6. DrainInv' /\ OnePerGroup'
  BY <1>2 DEF IndInv, TypeOK, DrainInv, OnePerGroup
<1> QED
  BY <1>3, <1>4, <1>5, <1>6 DEF IndInv

\* The steps that change neither the rows nor the events.
LEMMA OtherInv ==
  ASSUME SingleDaemon, IndInv,
         \/ Tick \/ UNCHANGED vars
         \/ \E d \in Daemons : BeginDrain(d) \/ EndDrain(d) \/ Locked(d) \/ Crash(d) \/ Restart(d)
  PROVE  IndInv'
<1>1. UNCHANGED <<deferred, events, requests, replaced>> /\ now' >= now /\ now' \in Nat
  BY DEF Tick, BeginDrain, EndDrain, Locked, Crash, Restart, Forget, history, vars,
         IndInv, TypeOK
<1>2. HaveFired' = HaveFired /\ Waiting' = Waiting
  BY <1>1 DEF HaveFired, Waiting
<1>3. TypeOK' /\ DrainInv'
  <2>1. CASE Tick
    <3>1. TypeOK'
      BY <2>1 DEF IndInv, TypeOK, Tick, history
    <3>2. DrainInv'
      BY <1>1, <1>2, <2>1 DEF IndInv, TypeOK, DrainInv, Tick, history, Rows
    <3> QED
      BY <3>1, <3>2
  <2>2. CASE UNCHANGED vars
    BY <1>2, <2>2 DEF IndInv, TypeOK, DrainInv, vars, history
  <2>3. ASSUME NEW d \in Daemons, BeginDrain(d)
        PROVE  TypeOK' /\ DrainInv'
    BY <1>1, <1>2, <2>3 DEF IndInv, TypeOK, DrainInv, BeginDrain, history
  <2>4. ASSUME NEW d \in Daemons, EndDrain(d) \/ Restart(d)
        PROVE  TypeOK' /\ DrainInv'
    <3>1. /\ pc[d] \in {"drain", "down"} /\ due[d] = {}
          /\ pc' = [pc EXCEPT ![d] = "idle"]
          /\ UNCHANGED <<now, deferred, events, due, hand, requests, faults, history>>
      BY <2>4 DEF EndDrain, Restart, IndInv, DrainInv
    <3>2. TypeOK'
      BY <3>1 DEF IndInv, TypeOK, history
    <3>3. DrainInv'
      BY <1>2, <3>1 DEF IndInv, TypeOK, DrainInv, history
    <3> QED
      BY <3>2, <3>3
  <2>5. ASSUME NEW d \in Daemons, Locked(d) \/ Crash(d)
        PROVE  TypeOK' /\ DrainInv'
    <3>1. /\ pc' = [pc EXCEPT ![d] = "idle"] \/ pc' = [pc EXCEPT ![d] = "down"]
          /\ due' = [due EXCEPT ![d] = {}]
          /\ hand' = [hand EXCEPT ![d] = NoGroup]
          /\ lost' = lost \/ (pc[d] = "promote" /\ lost' = lost \cup {hand[d].req})
          /\ faults' = faults + 1
          /\ UNCHANGED <<now, deferred, events, requests, replaced, cancelled>>
      BY <2>5 DEF Locked, Crash, Forget
    <3>2. pc[d] = "promote" => hand[d].req \in Nat
      BY DEF IndInv, TypeOK, Rows
    <3>3. lost' \subseteq Nat /\ faults' \in Nat
      <4>1. lost \subseteq Nat /\ faults \in Nat
        BY DEF IndInv, TypeOK
      <4>2. lost' \subseteq Nat
        BY <3>1, <3>2, <4>1
      <4> QED
        BY <3>1, <4>1, <4>2
    <3>4. TypeOK'
      BY <3>1, <3>3 DEF IndInv, TypeOK
    <3>5. DrainInv'
      BY <1>2, <3>1 DEF IndInv, TypeOK, DrainInv
    <3> QED
      BY <3>4, <3>5
  <2> QED
    BY <2>1, <2>2, <2>3, <2>4, <2>5
<1>4. TableInv' /\ NeverDoubled' /\ OnePerGroup' /\ NeverEarly'
  BY <1>1, <1>2 DEF IndInv, TableInv, NeverDoubled, OnePerGroup, NeverEarly
<1> QED
  BY <1>3, <1>4 DEF IndInv

\* Every step of a single daemon and its environment keeps the invariant.
LEMMA NextInv ==
  ASSUME SingleDaemon, IndInv, [Next]_vars
  PROVE  IndInv'
  BY EmitDeferredInv, EmitNowInv, DeleteDeferredInv, PromoteInv, OtherInv
  DEF Next, Drain, Emit

\* The inductive invariant implies what is promised.
LEMMA InvPromises == IndInv => Promised
  BY DEF IndInv, Promised, TableInv, ReplacedNeverFires, HaveFired

\* The inductive invariant holds in every behaviour of a single daemon.
LEMMA Invariance ==
  ASSUME SingleDaemon
  PROVE  Spec => []IndInv
<1>1. Init => IndInv
  BY InitInv
<1>2. IndInv /\ [Next]_vars => IndInv'
  BY NextInv
<1> QED
  BY <1>1, <1>2, PTL DEF Spec

\* A single daemon never turns one request into two events, whatever crashes
\* and locked-database errors come between the delete and the insert.
THEOREM LostNotDoubled ==
  ASSUME SingleDaemon
  PROVE  Spec => []NeverDoubled
<1>1. IndInv => NeverDoubled
  BY DEF IndInv
<1> QED
  BY <1>1, Invariance, PTL

\* Last write wins: a replaced request never becomes an event, and a cancel
\* group never has two rows; no event is early.
THEOREM DeferredPromises ==
  ASSUME SingleDaemon
  PROVE  Spec => [](ReplacedNeverFires /\ OnePerGroup /\ NeverEarly)
<1>1. IndInv => ReplacedNeverFires /\ OnePerGroup /\ NeverEarly
  BY InvPromises DEF Promised
<1> QED
  BY <1>1, Invariance, PTL

-----------------------------------------------------------------------------
\* The types do not need the lock: they are kept by any number of daemons.
LEMMA TypeStep ==
  ASSUME TypeOK, [Next]_vars
  PROVE  TypeOK'
<1> USE DEF TypeOK, history
<1>1. CASE Tick
  BY <1>1 DEF Tick
<1>0. CASE UNCHANGED vars
  BY <1>0 DEF vars
<1>2. ASSUME NEW d \in Daemons, NEW g \in Groups \cup {NoGroup}, EmitDeferred(d, g)
      PROVE  TypeOK'
  <2>1. PICK delay \in Delays \ {0}, id \in 1 .. MaxRequests :
            deferred' = (deferred \ OfGroup(g))
                          \cup {[id |-> id, req |-> requests + 1, fire |-> now + delay, group |-> g]}
    BY <1>2 DEF EmitDeferred
  <2>2. [id |-> id, req |-> requests + 1, fire |-> now + delay, group |-> g] \in Rows
    <3>1. id \in Nat /\ requests + 1 \in Nat /\ now + delay \in Nat
      BY ParametersAssumption
    <3> QED
      BY <3>1 DEF Rows
  <2>3. deferred' \subseteq Rows
    BY <2>1, <2>2
  <2>4. replaced' \subseteq Nat
    BY <1>2, RequestType DEF EmitDeferred
  <2> QED
    BY <1>2, <2>3, <2>4 DEF EmitDeferred
<1>3. ASSUME NEW d \in Daemons, NEW g \in Groups \cup {NoGroup}, EmitNow(d, g)
      PROVE  TypeOK'
  <2>1. [req |-> requests + 1, fire |-> now, at |-> now] \in Fired
    BY DEF Fired
  <2>2. events' \in Seq(Fired)
    BY <1>3, <2>1, AppendFired DEF EmitNow
  <2>3. cancelled' \subseteq Nat
    BY <1>3, RequestType DEF EmitNow
  <2> QED
    BY <1>3, <2>2, <2>3 DEF EmitNow
<1>4. ASSUME NEW d \in Daemons, BeginDrain(d) \/ EndDrain(d) \/ Restart(d)
      PROVE  TypeOK'
  BY <1>4 DEF BeginDrain, EndDrain, Restart
<1>5. ASSUME NEW d \in Daemons, NEW r \in due[d], DeleteDeferred(d, r)
      PROVE  TypeOK'
  BY <1>5 DEF DeleteDeferred
<1>6. ASSUME NEW d \in Daemons, Promote(d)
      PROVE  TypeOK'
  <2>1. [req |-> hand[d].req, fire |-> hand[d].fire, at |-> now] \in Fired
    BY <1>6 DEF Promote, Rows, Fired
  <2>2. events' \in Seq(Fired)
    BY <1>6, <2>1, AppendFired DEF Promote
  <2> QED
    BY <1>6, <2>2 DEF Promote
<1>7. ASSUME NEW d \in Daemons, Locked(d) \/ Crash(d)
      PROVE  TypeOK'
  <2>1. pc[d] = "promote" => hand[d].req \in Nat
    BY DEF Rows
  <2>2. /\ lost' = lost \/ (pc[d] = "promote" /\ lost' = lost \cup {hand[d].req})
        /\ faults' = faults + 1
        /\ pc' \in [Daemons -> {"down", "idle", "drain", "promote"}]
        /\ due' = [due EXCEPT ![d] = {}] /\ hand' = [hand EXCEPT ![d] = NoGroup]
        /\ \A e \in Daemons : pc'[e] = "promote" => e # d /\ pc[e] = "promote"
        /\ UNCHANGED <<now, deferred, events, requests, replaced, cancelled>>
    BY <1>7 DEF Locked, Crash, Forget
  <2>3. lost' \subseteq Nat
    BY <2>1, <2>2
  <2> QED
    BY <2>2, <2>3
<1> QED
  BY <1>0, <1>1, <1>2, <1>3, <1>4, <1>5, <1>6, <1>7 DEF Next, Drain, Emit

\* The variables keep their types, however many daemons there are.
THEOREM TypeCorrectness == Spec => []TypeOK
<1>1. Init => TypeOK
  BY InitInv DEF IndInv
<1>2. TypeOK /\ [Next]_vars => TypeOK'
  BY TypeStep
<1> QED
  BY <1>1, <1>2, PTL DEF Spec

-----------------------------------------------------------------------------
(* Nothing vanishes                                                        *)

\* What is lost is nowhere else, and is finite, so that it can be counted.
VanishInv ==
    /\ NothingVanishes
    /\ IsFiniteSet(lost)
    /\ lost \cap (Waiting \cup InHand) = {}

\* With one daemon there is at most one request in hand.
LEMMA OneHand ==
  ASSUME SingleDaemon, NEW d \in Daemons
  PROVE  /\ InHand = IF pc[d] = "promote" THEN {hand[d].req} ELSE {}
         /\ InHand' = IF pc'[d] = "promote" THEN {hand'[d].req} ELSE {}
  BY DEF InHand, SingleDaemon

\* A new request takes the next number.
LEMMA NextRequest ==
  ASSUME requests \in Nat
  PROVE  1 .. (requests + 1) = (1 .. requests) \cup {requests + 1}
  OBVIOUS

\* A request with a delay: it waits, what it replaces is replaced.
LEMMA EmitDeferredVanish ==
  ASSUME SingleDaemon, IndInv, VanishInv, NEW d \in Daemons, NEW g \in Groups \cup {NoGroup},
         EmitDeferred(d, g)
  PROVE  VanishInv'
<1>1. PICK row : row.req = requests + 1 /\ deferred' = (deferred \ OfGroup(g)) \cup {row}
  BY DEF EmitDeferred
<1>2. /\ requests' = requests + 1 /\ requests \in Nat
      /\ replaced' = replaced \cup {r.req : r \in OfGroup(g)}
      /\ UNCHANGED <<events, pc, hand, faults, lost>> /\ pc[d] = "idle"
      /\ OfGroup(g) \subseteq deferred
  BY DEF EmitDeferred, OfGroup, IndInv, TypeOK
<1>3. HaveFired' = HaveFired /\ InHand' = InHand /\ InHand = {}
  BY <1>2, OneHand DEF HaveFired, InHand
<1>4. Waiting' \cup {r.req : r \in OfGroup(g)} = Waiting \cup {requests + 1}
  BY <1>1, <1>2 DEF Waiting
<1>5. requests + 1 \notin lost
  BY <1>2 DEF VanishInv, NothingVanishes
<1>6. lost' \cap Waiting' = {}
  BY <1>2, <1>4, <1>5 DEF VanishInv
<1>7. 1 .. requests' = (1 .. requests) \cup {requests + 1}
  BY <1>2, NextRequest
<1>8. 1 .. requests' = Waiting' \cup InHand' \cup HaveFired' \cup replaced' \cup lost'
  BY <1>2, <1>3, <1>4, <1>7 DEF VanishInv, NothingVanishes
<1> QED
  BY <1>2, <1>3, <1>6, <1>8 DEF VanishInv, NothingVanishes

\* A request without a delay has fired.
LEMMA EmitNowVanish ==
  ASSUME SingleDaemon, IndInv, VanishInv, NEW d \in Daemons, NEW g \in Groups \cup {NoGroup},
         EmitNow(d, g)
  PROVE  VanishInv'
<1> DEFINE e == [req |-> requests + 1, fire |-> now, at |-> now]
<1>1. /\ requests' = requests + 1 /\ requests \in Nat
      /\ events' = Append(events, e) /\ e \in Fired /\ e.req = requests + 1
      /\ UNCHANGED <<deferred, pc, hand, replaced, faults, lost>> /\ pc[d] = "idle"
  BY DEF EmitNow, IndInv, TypeOK, Fired
<1> HIDE DEF e
<1>2. HaveFired' = HaveFired \cup {requests + 1}
  BY <1>1, AppendFired DEF IndInv
<1>3. Waiting' = Waiting /\ InHand' = InHand
  BY <1>1 DEF Waiting, InHand
<1>4. requests + 1 \notin lost
  BY <1>1 DEF VanishInv, NothingVanishes
<1>5. 1 .. requests' = (1 .. requests) \cup {requests + 1}
  BY <1>1, NextRequest
<1>6. 1 .. requests' = Waiting' \cup InHand' \cup HaveFired' \cup replaced' \cup lost'
  BY <1>1, <1>2, <1>3, <1>5 DEF VanishInv, NothingVanishes
<1> QED
  BY <1>1, <1>2, <1>3, <1>4, <1>6 DEF VanishInv, NothingVanishes

\* Between the two commits the request is in hand.
LEMMA DeleteDeferredVanish ==
  ASSUME SingleDaemon, IndInv, VanishInv, NEW d \in Daemons, NEW r \in due[d],
         DeleteDeferred(d, r)
  PROVE  VanishInv'
<1>1. /\ r \in deferred /\ deferred' = deferred \ {r}
      /\ pc[d] = "drain" /\ pc'[d] = "promote" /\ hand'[d] = r
      /\ UNCHANGED <<events, requests, replaced, faults, lost>>
  BY DEF DeleteDeferred, IndInv, TypeOK, DrainInv, TableInv, history
<1>2. HaveFired' = HaveFired /\ InHand = {} /\ InHand' = {r.req}
  BY <1>1, OneHand DEF HaveFired
<1>3. Waiting = Waiting' \cup {r.req}
  BY <1>1 DEF Waiting
<1> QED
  BY <1>1, <1>2, <1>3 DEF VanishInv, NothingVanishes

\* ... and after the second one it has fired.
LEMMA PromoteVanish ==
  ASSUME SingleDaemon, IndInv, VanishInv, NEW d \in Daemons, Promote(d)
  PROVE  VanishInv'
<1> DEFINE e == [req |-> hand[d].req, fire |-> hand[d].fire, at |-> now]
<1>1. /\ pc[d] = "promote" /\ pc'[d] = "drain"
      /\ events' = Append(events, e) /\ e \in Fired /\ e.req = hand[d].req
      /\ UNCHANGED <<deferred, requests, replaced, faults, lost>>
  BY DEF Promote, IndInv, TypeOK, Rows, Fired, history
<1> HIDE DEF e
<1>2. HaveFired' = HaveFired \cup {hand[d].req}
  BY <1>1, AppendFired DEF IndInv
<1>3. InHand = {hand[d].req} /\ InHand' = {} /\ Waiting' = Waiting
  BY <1>1, OneHand DEF Waiting
<1> QED
  BY <1>1, <1>2, <1>3 DEF VanishInv, NothingVanishes

\* A fault loses what is in hand, which is one request at most.
LEMMA FaultVanish ==
  ASSUME SingleDaemon, IndInv, VanishInv, NEW d \in Daemons, Locked(d) \/ Crash(d)
  PROVE  VanishInv'
<1>1. /\ UNCHANGED <<deferred, events, requests, replaced>>
      /\ faults' = faults + 1 /\ faults \in Nat
      /\ pc'[d] # "promote"
      /\ lost' = lost \cup InHand
  BY OneHand DEF Locked, Crash, Forget, IndInv, TypeOK
<1>2. HaveFired' = HaveFired /\ Waiting' = Waiting /\ InHand' = {}
  BY <1>1, OneHand DEF HaveFired, Waiting
<1>3. InHand \cap (HaveFired \cup Waiting) = {}
  BY OneHand DEF IndInv, DrainInv
<1>4. IsFiniteSet(lost') /\ Cardinality(lost') <= faults'
  <2>1. CASE pc[d] = "promote"
    <3>1. lost' = lost \cup {hand[d].req}
      BY <1>1, <2>1, OneHand
    <3>2. /\ IsFiniteSet(lost')
          /\ Cardinality(lost') \in {Cardinality(lost), Cardinality(lost) + 1}
      BY <3>1, FS_AddElement DEF VanishInv
    <3>3. Cardinality(lost) \in Nat /\ Cardinality(lost) <= faults
      BY FS_CardinalityType DEF VanishInv, NothingVanishes
    <3> QED
      BY <1>1, <3>2, <3>3
  <2>2. CASE pc[d] # "promote"
    <3>1. lost' = lost
      BY <1>1, <2>2, OneHand
    <3>2. Cardinality(lost) \in Nat
      BY FS_CardinalityType DEF VanishInv
    <3> QED
      BY <1>1, <3>1, <3>2 DEF VanishInv, NothingVanishes
  <2> QED
    BY <2>1, <2>2
<1> QED
  BY <1>1, <1>2, <1>3, <1>4 DEF VanishInv, NothingVanishes

\* Every step keeps every request accounted for.
LEMMA VanishStep ==
  ASSUME SingleDaemon, IndInv, VanishInv, [Next]_vars
  PROVE  VanishInv'
<1>1. ASSUME UNCHANGED <<deferred, events, requests, faults, replaced, lost>>,
             InHand' = InHand
      PROVE  VanishInv'
  <2>1. HaveFired' = HaveFired /\ Waiting' = Waiting
    BY <1>1 DEF HaveFired, Waiting
  <2> QED
    BY <1>1, <2>1 DEF VanishInv, NothingVanishes
<1>2. CASE Tick \/ UNCHANGED vars
  BY <1>1, <1>2 DEF Tick, vars, history, InHand
<1>3. ASSUME NEW d \in Daemons, BeginDrain(d) \/ EndDrain(d) \/ Restart(d)
      PROVE  VanishInv'
  <2>1. pc[d] # "promote" /\ pc'[d] # "promote"
    BY <1>3 DEF BeginDrain, EndDrain, Restart, IndInv, TypeOK
  <2>2. InHand' = InHand
    BY <2>1, OneHand
  <2> QED
    BY <1>1, <1>3, <2>2 DEF BeginDrain, EndDrain, Restart, history
<1> QED
  BY <1>2, <1>3, EmitDeferredVanish, EmitNowVanish, DeleteDeferredVanish, PromoteVanish,
     FaultVanish
  DEF Next, Drain, Emit

\* Every request ever made is waiting, in the daemon's hand, an event, replaced
\* or lost; and no more are lost than there were crashes and lock errors.
THEOREM EveryRequestAccounted ==
  ASSUME SingleDaemon
  PROVE  Spec => []NothingVanishes
<1>1. Init => VanishInv
  <2>1. ASSUME Init PROVE lost = {} /\ requests = 0 /\ faults = 0 /\ events = <<>>
                          /\ Waiting = {} /\ InHand = {} /\ HaveFired = {} /\ replaced = {}
    BY <2>1 DEF Init, Waiting, InHand, HaveFired
  <2>2. 1 .. 0 = {}
    OBVIOUS
  <2> QED
    BY <2>1, <2>2, FS_EmptySet DEF VanishInv, NothingVanishes
<1>2. IndInv /\ VanishInv /\ [Next]_vars => VanishInv'
  BY VanishStep
<1>3. VanishInv => NothingVanishes
  BY DEF VanishInv
<1> QED
  BY <1>1, <1>2, <1>3, Invariance, PTL DEF Spec
=============================================================================
