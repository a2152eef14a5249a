--------------------------- MODULE SchedulerProofs --------------------------
(***************************************************************************)
(* Proofs about the scheduled trigger, for all plugins, crons and bounds.  *)
(*                                                                         *)
(* What the sweep has recorded for a plugin is its uncommitted stamp or,   *)
(* without one, the committed last_fired_at.  Every tick up to there has   *)
(* been enqueued, at most once more than there were crashes; a tick after  *)
(* it at most once per crash.                                              *)
(***************************************************************************)
EXTENDS Scheduler, WellFoundedInduction, TLAPS

At(p) == IF stamp[p] = None THEN last[p] ELSE stamp[p]

StampsPending ==
  /\ \A p \in sweep.todo : stamp[p] = None
  /\ ~Running => stamp = NoStamp

RecordGrows == \A p \in Plugins : last[p] <= At(p)

RecordFired == \A p \in Plugins : \A t \in Fires[p] : t <= At(p) => fired[p][t] > 0

CrashesCounted ==
  \A p \in Plugins : \A t \in Times :
    fired[p][t] <= faults + (IF t <= At(p) THEN 1 ELSE 0)

RunsClaimed ==
  \A p \in Plugins : \A t \in Times :
    runs[p][t] <= (IF <<p, t>> \in claims THEN 1 ELSE 0)

SchedulerInv ==
  /\ TypeOK /\ StampsPending /\ RecordGrows /\ RecordFired
  /\ CrashesCounted /\ RunsClaimed

-----------------------------------------------------------------------------
LEMMA MinOf ==
  ASSUME NEW S, S \subseteq Nat, S # {}
  PROVE  /\ Min(S) \in S
         /\ \A y \in S : Min(S) <= y
<1>1. \E x \in S : \A y \in S : ~(<<y, x>> \in OpToRel(<, Nat))
  BY NatLessThanWellFounded, WFMin
<1>2. PICK x \in S : \A y \in S : ~(<<y, x>> \in OpToRel(<, Nat))
  BY <1>1
<1>3. \A y \in S : x <= y
  <2> SUFFICES ASSUME NEW y \in S, y < x PROVE FALSE OBVIOUS
  <2>1. <<y, x>> \in Nat \X Nat OBVIOUS
  <2>2. <<y, x>> \in OpToRel(<, Nat) BY <2>1 DEF OpToRel
  <2>3. QED BY <2>2, <1>2
<1>4. QED BY <1>3 DEF Min

LEMMA StoredTypes ==
  ASSUME TypeOK, NEW p \in Plugins
  PROVE  /\ last[p] \in Nat /\ At(p) \in Nat
         /\ stamp[p] # None => stamp[p] \in Times
         /\ \A t \in Times : fired[p][t] \in Nat /\ runs[p][t] \in Nat
         /\ Fires[p] \subseteq Times /\ Times \subseteq Nat /\ faults \in Nat
<1>1. last[p] \in 0..MaxTime /\ stamp[p] \in Times \cup {None}
  BY DEF TypeOK
<1>2. fired[p] \in [Times -> Nat] /\ runs[p] \in [Times -> Nat]
  BY DEF TypeOK
<1>3. QED BY <1>1, <1>2, SchedulerAssumption DEF At, Times, TypeOK

LEMMA DueTypes ==
  ASSUME TypeOK, NEW p \in sweep.todo
  PROVE  /\ p \in Plugins /\ Running /\ sweep.at \in Nat
         /\ sweep \in [at : 0..MaxTime, todo : SUBSET Plugins]
         /\ Due(p) \subseteq Times
<1>1. sweep # Asleep BY DEF Asleep
<1>2. sweep \in [at : 0..MaxTime, todo : SUBSET Plugins] BY <1>1 DEF TypeOK
<1>3. p \in Plugins /\ sweep.at \in 0..MaxTime BY <1>2
<1>4. QED BY <1>2, <1>3, SchedulerAssumption DEF Running, Due

LEMMA InitHolds == ASSUME Init PROVE SchedulerInv
<1>1. TypeOK BY SchedulerAssumption DEF Init, TypeOK, NoStamp
<1>2. StampsPending BY DEF Init, StampsPending, Asleep
<1>3. \A p \in Plugins : At(p) = 0 /\ last[p] = 0 BY DEF Init, At, NoStamp
<1>4. RecordGrows BY <1>3 DEF RecordGrows
<1>5. RecordFired
  BY <1>3, SchedulerAssumption DEF RecordFired, Times
<1>6. CrashesCounted BY DEF Init, CrashesCounted
<1>7. RunsClaimed BY DEF Init, RunsClaimed
<1>8. QED BY <1>1, <1>2, <1>4, <1>5, <1>6, <1>7 DEF SchedulerInv

-----------------------------------------------------------------------------
(* A visit that records nothing. *)
LEMMA StartKeeps == ASSUME SchedulerInv, Start PROVE SchedulerInv'
<1> USE DEF SchedulerInv
<1>1. sweep'.at = now /\ sweep'.todo = enabled BY DEF Start
<1>2. TypeOK' BY DEF Start, TypeOK
<1>3. stamp = NoStamp /\ stamp' = stamp BY DEF Start, StampsPending
<1>4. now # None BY SchedulerAssumption DEF TypeOK
<1>5. StampsPending'
  BY <1>1, <1>3, <1>4 DEF StampsPending, NoStamp, TypeOK, Running
<1>6. \A p \in Plugins : At(p)' = At(p) BY DEF Start, At
<1>7. RecordGrows' BY <1>6 DEF Start, RecordGrows
<1>8. RecordFired' BY <1>6 DEF Start, RecordFired
<1>9. CrashesCounted' BY <1>6 DEF Start, CrashesCounted
<1>10. RunsClaimed' BY DEF Start, RunsClaimed
<1>11. QED BY <1>2, <1>5, <1>7, <1>8, <1>9, <1>10

LEMMA VisitedType ==
  ASSUME TypeOK, NEW p \in sweep.todo, Visited(p)
  PROVE  /\ sweep' \in [at : 0..MaxTime, todo : SUBSET Plugins]
         /\ sweep'.todo = sweep.todo \ {p} /\ sweep'.at = sweep.at
BY DueTypes DEF Visited

LEMMA NotDueKeeps ==
  ASSUME SchedulerInv, NEW p \in Plugins, NotDue(p) PROVE SchedulerInv'
<1> USE DEF SchedulerInv
<1>1. p \in sweep.todo /\ Visited(p) BY DEF NotDue
<1>2. /\ sweep' \in [at : 0..MaxTime, todo : SUBSET Plugins]
      /\ sweep'.todo \subseteq sweep.todo /\ sweep'.at = sweep.at
  BY <1>1, VisitedType
<1>3. TypeOK' BY <1>2 DEF NotDue, TypeOK
<1>4. StampsPending' BY <1>2 DEF NotDue, StampsPending, Running, NoStamp
<1>5. \A q \in Plugins : At(q)' = At(q) BY DEF NotDue, At
<1>6. RecordGrows' BY <1>5 DEF NotDue, RecordGrows
<1>7. RecordFired' BY <1>5 DEF NotDue, RecordFired
<1>8. CrashesCounted' BY <1>5 DEF NotDue, CrashesCounted
<1>9. RunsClaimed' BY DEF NotDue, RunsClaimed
<1>10. QED BY <1>3, <1>4, <1>6, <1>7, <1>8, <1>9

(* The oldest due tick lies right after the record, and becomes it. *)
LEMMA FireKeeps ==
  ASSUME SchedulerInv, NEW p \in Plugins, Fire(p) PROVE SchedulerInv'
<1> USE DEF SchedulerInv
<1> DEFINE t == Min(Due(p))
<1>1. p \in sweep.todo /\ Visited(p) /\ Due(p) # {} BY DEF Fire
<1>2. Due(p) \subseteq Times /\ Due(p) \subseteq Nat
  BY <1>1, DueTypes, StoredTypes
<1>3. t \in Due(p) /\ \A u \in Due(p) : t <= u BY <1>1, <1>2, MinOf
<1>4. /\ queue' = [queue EXCEPT ![t] = @ + 1]
      /\ fired' = [fired EXCEPT ![p][t] = @ + 1]
      /\ stamp' = [stamp EXCEPT ![p] = t]
  BY DEF Fire
<1> HIDE DEF t
<1>5. t \in Times /\ t \in Fires[p] /\ last[p] < t BY <1>2, <1>3 DEF Due
<1>6. /\ sweep' \in [at : 0..MaxTime, todo : SUBSET Plugins]
      /\ sweep'.todo = sweep.todo \ {p} /\ sweep'.at = sweep.at
  BY <1>1, VisitedType
<1>7. t # None BY <1>5, SchedulerAssumption DEF Times
<1>8. fired[p] \in [Times -> Nat] /\ queue[t] \in Nat BY <1>5 DEF TypeOK
<1>9. fired' \in [Plugins -> [Times -> Nat]] BY <1>4, <1>5, <1>8 DEF TypeOK
<1>10. TypeOK'
  BY <1>4, <1>5, <1>6, <1>8, <1>9 DEF Fire, TypeOK
<1>11. At(p) = last[p] BY <1>1 DEF StampsPending, At
<1>12. At(p)' = t BY <1>4, <1>7 DEF TypeOK, At
<1>13. \A q \in Plugins \ {p} : At(q)' = At(q) /\ fired'[q] = fired[q]
  BY <1>4 DEF Fire, TypeOK, At
<1>14. last' = last /\ faults' = faults BY DEF Fire
<1>15. /\ fired'[p][t] = fired[p][t] + 1
       /\ \A u \in Times \ {t} : fired'[p][u] = fired[p][u]
  BY <1>4, <1>5, <1>8 DEF TypeOK
<1>16. StampsPending'
  BY <1>1, <1>4, <1>6, DueTypes DEF StampsPending, TypeOK, Running
<1>17. RecordGrows'
  BY <1>5, <1>12, <1>13, <1>14, StoredTypes DEF RecordGrows
<1>18. RecordFired'
  <2> SUFFICES ASSUME NEW q \in Plugins, NEW u \in Fires[q], u <= At(q)'
               PROVE  fired'[q][u] > 0
    BY DEF RecordFired
  <2>1. CASE q # p BY <2>1, <1>13 DEF RecordFired
  <2>2. CASE q = p /\ u = t BY <2>2, <1>5, <1>15, StoredTypes
  <2>3. CASE q = p /\ u # t
    <3>1. u \in Times /\ u \in Nat /\ t \in Nat /\ u <= t
      BY <2>3, <1>5, <1>12, StoredTypes
    <3>2. u \notin Due(p) BY <2>3, <3>1, <1>3
    <3>3. sweep.at \in Nat /\ t <= sweep.at
      BY <1>1, <1>3, DueTypes DEF Due
    <3>4. u <= last[p] BY <2>3, <3>1, <3>2, <3>3, StoredTypes DEF Due
    <3>5. fired[p][u] > 0 BY <2>3, <3>4, <1>11 DEF RecordFired
    <3>6. QED BY <2>3, <3>1, <3>5, <1>15
  <2>4. QED BY <2>1, <2>2, <2>3
<1>19. CrashesCounted'
  <2> SUFFICES ASSUME NEW q \in Plugins, NEW u \in Times
               PROVE  fired'[q][u] <= faults + (IF u <= At(q)' THEN 1 ELSE 0)
    BY <1>14 DEF CrashesCounted
  <2>1. CASE q # p BY <2>1, <1>13 DEF CrashesCounted
  <2>2. CASE q = p /\ u = t
    <3>1. fired[p][t] <= faults
      BY <1>5, <1>11, StoredTypes DEF CrashesCounted
    <3>2. QED BY <2>2, <3>1, <1>5, <1>12, <1>15, StoredTypes
  <2>3. CASE q = p /\ u # t
    BY <2>3, <1>5, <1>11, <1>12, <1>15, StoredTypes DEF CrashesCounted
  <2>4. QED BY <2>1, <2>2, <2>3
<1>20. RunsClaimed' BY DEF Fire, RunsClaimed
<1>21. QED BY <1>10, <1>16, <1>17, <1>18, <1>19, <1>20

(* The commit changes where the record is kept, not what it says. *)
LEMMA EndKeeps == ASSUME SchedulerInv, End PROVE SchedulerInv'
<1> USE DEF SchedulerInv
<1>1. \A p \in Plugins : last'[p] = At(p) /\ At(p)' = At(p)
  BY DEF End, At, NoStamp
<1>2. last' \in [Plugins -> 0..MaxTime]
  <2>1. last' = [p \in Plugins |-> At(p)] BY DEF End, At
  <2>2. \A p \in Plugins : At(p) \in 0..MaxTime
    BY SchedulerAssumption DEF TypeOK, At, Times
  <2>3. QED BY <2>1, <2>2
<1>3. TypeOK' BY <1>2 DEF End, TypeOK, NoStamp
<1>4. StampsPending' BY DEF End, StampsPending, Asleep, NoStamp
<1>5. RecordGrows' BY <1>1, StoredTypes DEF RecordGrows
<1>6. RecordFired' BY <1>1 DEF End, RecordFired
<1>7. CrashesCounted' BY <1>1 DEF End, CrashesCounted
<1>8. RunsClaimed' BY DEF End, RunsClaimed
<1>9. QED BY <1>3, <1>4, <1>5, <1>6, <1>7, <1>8

(* A crash takes the record back to the commit, and is counted. *)
LEMMA CrashKeeps == ASSUME SchedulerInv, Crash PROVE SchedulerInv'
<1> USE DEF SchedulerInv
<1>1. faults \in Nat /\ faults' = faults + 1 /\ last' = last /\ fired' = fired
  BY SchedulerAssumption DEF Crash, TypeOK
<1>2. \A p \in Plugins : At(p)' = last[p] BY DEF Crash, At, NoStamp
<1>3. TypeOK' BY SchedulerAssumption DEF Crash, TypeOK, NoStamp
<1>4. StampsPending' BY DEF Crash, StampsPending, Asleep, NoStamp
<1>5. RecordGrows' BY <1>1, <1>2, StoredTypes DEF RecordGrows
<1>6. RecordFired'
  BY <1>1, <1>2, StoredTypes DEF RecordFired, RecordGrows
<1>7. CrashesCounted' BY <1>1, <1>2, StoredTypes DEF CrashesCounted
<1>8. RunsClaimed' BY DEF Crash, RunsClaimed
<1>9. QED BY <1>3, <1>4, <1>5, <1>6, <1>7, <1>8

LEMMA WorkKeeps ==
  ASSUME SchedulerInv, NEW t \in Times, Work(t) PROVE SchedulerInv'
<1> USE DEF SchedulerInv
<1>1. \A p \in Plugins : runs[p] \in [Times -> Nat] BY DEF TypeOK
<1>2. runs' \in [Plugins -> [Times -> Nat]] BY <1>1 DEF Work
<1>3. queue' \in [Times -> Nat] BY DEF Work, TypeOK
<1>4. claims' = claims \cup (Plugins \X {t}) BY DEF Work
<1>5. TypeOK' BY <1>2, <1>3, <1>4 DEF Work, TypeOK
<1>6. StampsPending' BY DEF Work, StampsPending, Running, NoStamp
<1>7. \A p \in Plugins : At(p)' = At(p) BY DEF Work, At
<1>8. RecordGrows' BY <1>7 DEF Work, RecordGrows
<1>9. RecordFired' BY <1>7 DEF Work, RecordFired
<1>10. CrashesCounted' BY <1>7 DEF Work, CrashesCounted
<1>11. RunsClaimed'
  <2> SUFFICES ASSUME NEW p \in Plugins, NEW u \in Times
               PROVE  runs'[p][u] <= (IF <<p, u>> \in claims' THEN 1 ELSE 0)
    BY DEF RunsClaimed
  <2>1. runs[p][u] \in Nat /\ runs[p][u] <= (IF <<p, u>> \in claims THEN 1 ELSE 0)
    BY <1>1 DEF RunsClaimed
  <2>2. CASE u # t
    <3>1. runs'[p][u] = runs[p][u] BY <2>2, <1>1 DEF Work
    <3>2. <<p, u>> \in claims' <=> <<p, u>> \in claims BY <2>2, <1>4
    <3>3. QED BY <2>1, <3>1, <3>2
  <2>3. CASE u = t
    <3>1. <<p, u>> \in claims' BY <2>3, <1>4
    <3>2. runs'[p][u] <= 1
      BY <2>1, <2>3, <1>1 DEF Work
    <3>3. QED BY <3>1, <3>2
  <2>4. QED BY <2>2, <2>3
<1>12. QED BY <1>5, <1>6, <1>8, <1>9, <1>10, <1>11

LEMMA OtherKeeps ==
  ASSUME SchedulerInv,
         Tick \/ (\E p \in Plugins : Toggle(p)) \/ UNCHANGED vars
  PROVE  SchedulerInv'
<1> USE DEF SchedulerInv
<1>1. /\ UNCHANGED <<last, stamp, sweep, queue, fired, claims, runs, faults>>
      /\ now' \in 0..MaxTime /\ enabled' \subseteq Plugins
      /\ toggles' \in 0..MaxToggles
  BY SchedulerAssumption DEF Tick, Toggle, vars, TypeOK
<1>2. TypeOK' BY <1>1 DEF TypeOK
<1>3. StampsPending' BY <1>1 DEF StampsPending, Running, NoStamp
<1>4. \A p \in Plugins : At(p)' = At(p) BY <1>1 DEF At
<1>5. RecordGrows' BY <1>1, <1>4 DEF RecordGrows
<1>6. RecordFired' BY <1>1, <1>4 DEF RecordFired
<1>7. CrashesCounted' BY <1>1, <1>4 DEF CrashesCounted
<1>8. RunsClaimed' BY <1>1 DEF RunsClaimed
<1>9. QED BY <1>2, <1>3, <1>5, <1>6, <1>7, <1>8

LEMMA StepKeeps == ASSUME SchedulerInv, [Next]_vars PROVE SchedulerInv'
<1>1. CASE Start BY <1>1, StartKeeps
<1>2. CASE End BY <1>2, EndKeeps
<1>3. ASSUME NEW p \in Plugins, Fire(p) PROVE SchedulerInv'
  BY <1>3, FireKeeps
<1>4. ASSUME NEW p \in Plugins, NotDue(p) PROVE SchedulerInv'
  BY <1>4, NotDueKeeps
<1>5. CASE Crash BY <1>5, CrashKeeps
<1>6. ASSUME NEW t \in Times, Work(t) PROVE SchedulerInv'
  BY <1>6, WorkKeeps
<1>7. CASE Tick \/ (\E p \in Plugins : Toggle(p)) \/ UNCHANGED vars
  BY <1>7, OtherKeeps
<1>8. QED
  BY <1>1, <1>2, <1>3, <1>4, <1>5, <1>6, <1>7 DEF Next, SweepStep

(* The clock, the records, the queue and the claims keep their types. *)
THEOREM SchedulerTypeCorrect == Spec => []TypeOK
<1>1. Init => SchedulerInv BY InitHolds
<1>2. SchedulerInv /\ [Next]_vars => SchedulerInv' BY StepKeeps
<1>3. SchedulerInv => TypeOK BY DEF SchedulerInv
<1>4. QED BY <1>1, <1>2, <1>3, PTL DEF Spec

(* Whatever dies between the queue and the commit, the record of a plugin  *)
(* never runs past a tick that was not enqueued.                           *)
THEOREM NoTickSkippedHolds == Spec => []NoTickSkipped
<1>1. Init => SchedulerInv BY InitHolds
<1>2. SchedulerInv /\ [Next]_vars => SchedulerInv' BY StepKeeps
<1>3. SchedulerInv => NoTickSkipped
  <2> SUFFICES ASSUME SchedulerInv, NEW p \in Plugins, NEW t \in Fires[p],
                      t <= last[p]
               PROVE  fired[p][t] > 0
    BY DEF NoTickSkipped
  <2>1. t \in Nat /\ last[p] <= At(p) /\ last[p] \in Nat /\ At(p) \in Nat
    BY StoredTypes DEF SchedulerInv, RecordGrows
  <2>2. t <= At(p) BY <2>1
  <2>3. QED BY <2>2 DEF SchedulerInv, RecordFired
<1>4. QED BY <1>1, <1>2, <1>3, PTL DEF Spec

(* A tick is enqueued at most once more than the sweep has died. *)
THEOREM DuplicatesExplainedHolds == Spec => []DuplicatesExplained
<1>1. Init => SchedulerInv BY InitHolds
<1>2. SchedulerInv /\ [Next]_vars => SchedulerInv' BY StepKeeps
<1>3. SchedulerInv => DuplicatesExplained
  BY StoredTypes DEF SchedulerInv, CrashesCounted, DuplicatesExplained
<1>4. QED BY <1>1, <1>2, <1>3, PTL DEF Spec

(* However often a tick is enqueued, and by however many plugins, no       *)
(* plugin runs twice for it.                                               *)
THEOREM OneRunPerTickHolds == Spec => []OneRunPerTick
<1>1. Init => SchedulerInv BY InitHolds
<1>2. SchedulerInv /\ [Next]_vars => SchedulerInv' BY StepKeeps
<1>3. SchedulerInv => OneRunPerTick
  <2> SUFFICES ASSUME SchedulerInv, NEW p \in Plugins, NEW t \in Times
               PROVE  runs[p][t] <= 1
    BY DEF OneRunPerTick
  <2>1. runs[p][t] \in Nat BY StoredTypes DEF SchedulerInv
  <2>2. runs[p][t] <= (IF <<p, t>> \in claims THEN 1 ELSE 0)
    BY DEF SchedulerInv, RunsClaimed
  <2>3. QED BY <2>1, <2>2
<1>4. QED BY <1>1, <1>2, <1>3, PTL DEF Spec
=============================================================================
