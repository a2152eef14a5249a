----------------------------- MODULE QueueProofs -----------------------------
(***************************************************************************)
(* Proofs about the plugin queue, for every number of plugins, events and  *)
(* workers.                                                                *)
(*                                                                         *)
(* That one claim admits one run rests on a ledger: for a slot with a      *)
(* token, the runs granted so far are the claims that expired and, if      *)
(* there is one, the claim that is live.  Granting a run adds a live claim *)
(* and an expiry turns it into an expired one; nothing else touches the    *)
(* three.                                                                  *)
(*                                                                         *)
(* That results do not outnumber runs rests on a second one: the results   *)
(* of a pair and the workers that serve it now are together no more than   *)
(* the runs it was granted.  A crash turns any of those workers into       *)
(* results at once, so the ledger counts them.                             *)
(***************************************************************************)
EXTENDS PluginQueue, FiniteSetTheorems, SequenceTheorems, TLAPS

Ledger ==
  \A x \in Pairs : x[2] \in KeyedSlots =>
    grants[x] = expired[x] + (IF x \in claims THEN 1 ELSE 0)

(* The workers that serve x at this moment. *)
RunsOf(x) == {w \in Workers : Running(w) /\ At(w) = x}

(* Every run granted is under way, or has left at most one result. *)
ResultsBacked ==
  \A x \in Pairs : results[x] + Cardinality(RunsOf(x)) <= grants[x]

QueueInv == TypeOK /\ Ledger /\ NothingLostSilently

-----------------------------------------------------------------------------
LEMMA SlotType == ASSUME NEW e \in Events PROVE Slot(e) \in Slots
BY DEF Slots

LEMMA LeftType ==
  ASSUME NEW e \in Events, NEW todo \in Seq(Plugins)
  PROVE  /\ Left(e, todo) \in Jobs
         /\ Left(e, todo).event = NoEvent <=> Left(e, todo).todo = <<>>
         /\ Left(e, todo).running = FALSE
<1>1. CASE todo = <<>>
  BY <1>1, EmptySeq DEF Left, Idle, Jobs
<1>2. CASE todo # <<>>
  BY <1>2, QueueAssumption DEF Left, Jobs
<1>3. QED BY <1>1, <1>2

(* What a worker with an event is about to serve. *)
LEMMA AtType ==
  ASSUME TypeOK, NEW w \in Workers, job[w].event # NoEvent
  PROVE  /\ job[w].event \in Events
         /\ job[w].todo \in Seq(Plugins) /\ job[w].todo # <<>>
         /\ Tail(job[w].todo) \in Seq(Plugins)
         /\ At(w) \in Pairs
         /\ At(w) \in InHand(w)
         /\ InHand(w) \subseteq Pairs
<1>1. job[w] \in Jobs /\ job[w].todo # <<>> BY DEF TypeOK
<1>2. job[w].event \in Events /\ job[w].todo \in Seq(Plugins)
  BY <1>1 DEF Jobs
<1>3. /\ Head(job[w].todo) \in Plugins
      /\ Tail(job[w].todo) \in Seq(Plugins)
  BY <1>1, <1>2
<1>4. 1 \in DOMAIN job[w].todo /\ Head(job[w].todo) = job[w].todo[1]
  BY <1>1, <1>2
<1>5. \A i \in DOMAIN job[w].todo : job[w].todo[i] \in Plugins
  BY <1>2
<1>6. Slot(job[w].event) \in Slots BY <1>2, SlotType
<1>7. At(w) \in Pairs BY <1>3, <1>6 DEF At, Pairs
<1>8. At(w) \in InHand(w) BY <1>4 DEF At, InHand, ToSet
<1>9. InHand(w) \subseteq Pairs
  BY <1>5, <1>6 DEF InHand, ToSet, Pairs
<1>10. QED BY <1>1, <1>2, <1>3, <1>7, <1>8, <1>9

LEMMA IdleHoldsNothing ==
  ASSUME TypeOK, NEW w \in Workers, job[w].event = NoEvent
  PROVE  InHand(w) = {}
BY DEF TypeOK, InHand, ToSet

LEMMA InitHolds == ASSUME Init PROVE QueueInv
<1>1. Idle \in Jobs /\ Idle.event = NoEvent /\ Idle.todo = <<>>
  BY EmptySeq DEF Idle, Jobs
<1>2. TypeOK BY <1>1, EmptySeq DEF Init, TypeOK
<1>3. Ledger BY DEF Init, Ledger
<1>4. NothingLostSilently BY DEF Init, NothingLostSilently
<1>5. QED BY <1>2, <1>3, <1>4 DEF QueueInv

-----------------------------------------------------------------------------
(* A step that gives worker w another job leaves the other workers' runs.  *)
LEMMA OtherRunsStay ==
  ASSUME TypeOK, NEW w \in Workers, NEW v \in Workers, v # w,
         NEW r, job' = [job EXCEPT ![w] = r]
  PROVE  /\ job'[v] = job[v]
         /\ Running(v)' = Running(v)
         /\ At(v)' = At(v)
<1>1. job'[v] = job[v] BY DEF TypeOK
<1>2. QED BY <1>1 DEF Running, At

LEMMA EnqueueKeeps ==
  ASSUME QueueInv, NEW e \in Events, Enqueue(e)
  PROVE  QueueInv'
<1> USE DEF QueueInv
<1>1. queue' \in Seq(Events)
  BY AppendProperties DEF Enqueue, TypeOK
<1>2. TypeOK' BY <1>1 DEF Enqueue, TypeOK
<1>3. Ledger' BY DEF Enqueue, Ledger
<1>4. NothingLostSilently'
  BY DEF Enqueue, NothingLostSilently, Running, At
<1>5. QED BY <1>2, <1>3, <1>4

LEMMA DequeueKeeps ==
  ASSUME QueueInv, NEW w \in Workers, Dequeue(w)
  PROVE  QueueInv'
<1> USE DEF QueueInv
<1> DEFINE r == Left(Head(queue), Listeners[Head(queue)])
<1>1. Head(queue) \in Events /\ Tail(queue) \in Seq(Events)
  BY DEF Dequeue, TypeOK
<1>2. Listeners[Head(queue)] \in Seq(Plugins) BY <1>1, QueueAssumption
<1>3. r \in Jobs /\ (r.event = NoEvent <=> r.todo = <<>>)
  BY <1>1, <1>2, LeftType
<1>4. job' = [job EXCEPT ![w] = r] /\ job[w].event = NoEvent
  BY DEF Dequeue
<1> HIDE DEF r
<1>5. TypeOK' BY <1>1, <1>3, <1>4 DEF Dequeue, TypeOK
<1>6. Ledger' BY DEF Dequeue, Ledger
<1>7. ~Running(w) BY <1>4 DEF Running
<1>8. NothingLostSilently'
  BY <1>4, <1>7, OtherRunsStay DEF Dequeue, NothingLostSilently
<1>9. QED BY <1>5, <1>6, <1>8

LEMMA ClaimKeeps ==
  ASSUME QueueInv, NEW w \in Workers, Claim(w)
  PROVE  QueueInv'
<1> USE DEF QueueInv
<1>1. job[w].event # NoEvent /\ ~job[w].running BY DEF Claim, Claiming
<1>2. At(w) \in Pairs BY <1>1, AtType
<1>3. job[w] \in Jobs BY DEF TypeOK
<1> DEFINE r == [job[w] EXCEPT !.running = TRUE]
<1>4. /\ r \in Jobs /\ r.event = job[w].event /\ r.todo = job[w].todo
      /\ r.running = TRUE
  BY <1>3 DEF Jobs
<1>5. job' = [job EXCEPT ![w] = r] BY DEF Claim
<1>6. job'[w] = r BY <1>5 DEF TypeOK
<1> HIDE DEF r
<1>7. At(w)' = At(w) /\ Running(w)'
  BY <1>1, <1>4, <1>6 DEF At, Running
<1>8. claims' \subseteq claims \cup {At(w)} /\ claims \subseteq claims'
  BY DEF Claim
<1>9. TypeOK'
  <2>1. job' \in [Workers -> Jobs] BY <1>4, <1>5 DEF TypeOK
  <2>2. \A v \in Workers : job'[v].event = NoEvent <=> job'[v].todo = <<>>
    BY <1>4, <1>5 DEF TypeOK
  <2>3. grants' \in [Pairs -> Nat] BY <1>2 DEF Claim, TypeOK
  <2>4. claims' \subseteq Pairs BY <1>2, <1>8 DEF TypeOK
  <2>5. QED BY <2>1, <2>2, <2>3, <2>4 DEF Claim, TypeOK
<1>10. Ledger'
  <2> SUFFICES ASSUME NEW x \in Pairs, x[2] \in KeyedSlots
               PROVE  grants'[x] = expired[x] + (IF x \in claims' THEN 1 ELSE 0)
    BY DEF Ledger, Claim
  <2>1. CASE x = At(w)
    <3>1. x \notin claims /\ claims' = claims \cup {x}
      BY <2>1 DEF Claim, Free
    <3>2. grants'[x] = grants[x] + 1 BY <2>1, <1>2 DEF Claim, TypeOK
    <3>3. expired[x] \in Nat BY DEF TypeOK
    <3>4. grants[x] = expired[x] + 0 BY <3>1 DEF Ledger
    <3>5. QED BY <3>1, <3>2, <3>3, <3>4
  <2>2. CASE x # At(w)
    <3>1. grants'[x] = grants[x] BY <2>2, <1>2 DEF Claim, TypeOK
    <3>2. x \in claims' <=> x \in claims BY <2>2, <1>8
    <3>3. QED BY <3>1, <3>2 DEF Ledger
  <2>3. QED BY <2>1, <2>2
<1>11. NothingLostSilently'
  <2> SUFFICES ASSUME NEW x \in claims'
               PROVE \/ \E v \in Workers : Running(v)' /\ At(v)' = x
                     \/ x \in ended'
                     \/ x \in cut'
    BY DEF NothingLostSilently
  <2>1. CASE x = At(w) BY <2>1, <1>7
  <2>2. CASE x \in claims
    <3>1. ended' = ended /\ cut' = cut BY DEF Claim
    <3>2. CASE \E v \in Workers : Running(v) /\ At(v) = x
      <4>1. PICK v \in Workers : Running(v) /\ At(v) = x BY <3>2
      <4>2. v # w BY <4>1, <1>1 DEF Running
      <4>3. Running(v)' /\ At(v)' = x
        BY <4>1, <4>2, <1>5, OtherRunsStay
      <4>4. QED BY <4>3
    <3>3. QED BY <2>2, <3>1, <3>2 DEF NothingLostSilently
  <2>3. QED BY <2>1, <2>2, <1>8
<1>12. QED BY <1>9, <1>10, <1>11

(* The worker moves on to the next plugin: what that leaves. *)
LEMMA AdvanceType ==
  ASSUME TypeOK, NEW w \in Workers, job[w].event # NoEvent,
         job' = [job EXCEPT ![w] = Left(job[w].event, Tail(job[w].todo))]
  PROVE  /\ job' \in [Workers -> Jobs]
         /\ \A v \in Workers : job'[v].event = NoEvent <=> job'[v].todo = <<>>
<1> DEFINE r == Left(job[w].event, Tail(job[w].todo))
<1>1. r \in Jobs /\ (r.event = NoEvent <=> r.todo = <<>>)
  BY AtType, LeftType
<1>2. job' = [job EXCEPT ![w] = r] OBVIOUS
<1> HIDE DEF r
<1>3. QED BY <1>1, <1>2 DEF TypeOK

LEMMA DedupedKeeps ==
  ASSUME QueueInv, NEW w \in Workers, Deduped(w)
  PROVE  QueueInv'
<1> USE DEF QueueInv
<1>1. job[w].event # NoEvent /\ ~Running(w)
  BY DEF Deduped, Claiming, Running
<1>2. job' = [job EXCEPT ![w] = Left(job[w].event, Tail(job[w].todo))]
  BY DEF Deduped
<1>3. TypeOK' BY <1>1, <1>2, AdvanceType DEF Deduped, TypeOK
<1>4. Ledger' BY DEF Deduped, Ledger
<1>5. NothingLostSilently'
  BY <1>1, <1>2, OtherRunsStay DEF Deduped, NothingLostSilently
<1>6. QED BY <1>3, <1>4, <1>5

LEMMA EndRunKeeps ==
  ASSUME QueueInv, NEW w \in Workers, Complete(w) \/ Skip(w) \/ Fail(w)
  PROVE  QueueInv'
<1> USE DEF QueueInv
<1>1. EndRun(w) /\ UNCHANGED <<claims, grants>>
  BY DEF Complete, Skip, Fail
<1>2. job[w].event # NoEvent BY <1>1 DEF EndRun, Running
<1>3. At(w) \in Pairs BY <1>2, AtType
<1>4. job' = [job EXCEPT ![w] = Left(job[w].event, Tail(job[w].todo))]
  BY <1>1 DEF EndRun
<1>5. results' \in [Pairs -> Nat] /\ faults' \in Nat
  BY <1>3 DEF Complete, Skip, Fail, TypeOK
<1>6. TypeOK'
  BY <1>1, <1>2, <1>3, <1>4, <1>5, AdvanceType DEF EndRun, TypeOK
<1>7. Ledger' BY <1>1 DEF EndRun, Ledger
<1>8. NothingLostSilently'
  <2> SUFFICES ASSUME NEW x \in claims
               PROVE \/ \E v \in Workers : Running(v)' /\ At(v)' = x
                     \/ x \in ended'
                     \/ x \in cut'
    BY <1>1 DEF NothingLostSilently
  <2>1. ended' = ended \cup {At(w)} /\ cut' = cut BY <1>1 DEF EndRun
  <2>2. CASE \E v \in Workers : Running(v) /\ At(v) = x
    <3>1. PICK v \in Workers : Running(v) /\ At(v) = x BY <2>2
    <3>2. CASE v = w BY <3>1, <3>2, <2>1
    <3>3. CASE v # w
      BY <3>1, <3>3, <1>4, OtherRunsStay
    <3>4. QED BY <3>2, <3>3
  <2>3. QED BY <2>1, <2>2 DEF NothingLostSilently
<1>9. QED BY <1>6, <1>7, <1>8

LEMMA IdleType == Idle \in Jobs /\ Idle.event = NoEvent /\ Idle.todo = <<>>
BY EmptySeq DEF Idle, Jobs

LEMMA AbandonKeeps ==
  ASSUME QueueInv, NEW w \in Workers, Abandon(w)
  PROVE  QueueInv'
<1> USE DEF QueueInv
<1>1. job[w].event # NoEvent /\ job' = [job EXCEPT ![w] = Idle]
  BY DEF Abandon
<1>2. At(w) \in Pairs /\ At(w) \in InHand(w) /\ InHand(w) \subseteq Pairs
  BY <1>1, AtType
<1>3. \/ /\ At(w)[2] \in KeyedSlots /\ At(w) \notin claims
         /\ claims' = claims \cup {At(w)}
         /\ grants' = [grants EXCEPT ![At(w)] = @ + 1]
      \/ UNCHANGED <<claims, grants>>
  BY DEF Abandon
<1>4. cut' = cut \cup InHand(w) /\ UNCHANGED <<expired, ended>>
  BY DEF Abandon
<1>5. TypeOK'
  <2>1. /\ job' \in [Workers -> Jobs]
        /\ \A v \in Workers : job'[v].event = NoEvent <=> job'[v].todo = <<>>
    BY <1>1, IdleType DEF TypeOK
  <2>2. claims' \subseteq Pairs /\ grants' \in [Pairs -> Nat]
    BY <1>2, <1>3 DEF TypeOK
  <2>3. cut' \subseteq Pairs BY <1>2, <1>4 DEF TypeOK
  <2>4. QED BY <2>1, <2>2, <2>3 DEF Abandon, TypeOK
<1>6. Ledger'
  <2> SUFFICES ASSUME NEW x \in Pairs, x[2] \in KeyedSlots
               PROVE  grants'[x] = expired[x] + (IF x \in claims' THEN 1 ELSE 0)
    BY <1>4 DEF Ledger
  <2>1. CASE claims' = claims /\ grants' = grants
    BY <2>1 DEF Ledger
  <2>2. CASE /\ At(w) \notin claims /\ claims' = claims \cup {At(w)}
             /\ grants' = [grants EXCEPT ![At(w)] = @ + 1]
    <3>1. CASE x = At(w)
      <4>1. grants'[x] = grants[x] + 1 BY <2>2, <3>1 DEF TypeOK
      <4>2. grants[x] = expired[x] + 0 /\ expired[x] \in Nat
        BY <2>2, <3>1 DEF Ledger, TypeOK
      <4>3. x \in claims' BY <2>2, <3>1
      <4>4. QED BY <4>1, <4>2, <4>3
    <3>2. CASE x # At(w)
      <4>1. grants'[x] = grants[x] BY <2>2, <3>2, <1>2 DEF TypeOK
      <4>2. x \in claims' <=> x \in claims BY <2>2, <3>2
      <4>3. QED BY <4>1, <4>2 DEF Ledger
    <3>3. QED BY <3>1, <3>2
  <2>3. QED BY <1>3, <2>1, <2>2
<1>7. NothingLostSilently'
  <2> SUFFICES ASSUME NEW x \in claims'
               PROVE \/ \E v \in Workers : Running(v)' /\ At(v)' = x
                     \/ x \in ended'
                     \/ x \in cut'
    BY DEF NothingLostSilently
  <2>1. CASE x = At(w) BY <2>1, <1>2, <1>4
  <2>2. CASE x \in claims
    <3>1. CASE \E v \in Workers : Running(v) /\ At(v) = x
      <4>1. PICK v \in Workers : Running(v) /\ At(v) = x BY <3>1
      <4>2. CASE v = w BY <4>1, <4>2, <1>2, <1>4
      <4>3. CASE v # w BY <4>1, <4>3, <1>1, OtherRunsStay
      <4>4. QED BY <4>2, <4>3
    <3>2. QED BY <2>2, <3>1, <1>4 DEF NothingLostSilently
  <2>3. QED BY <2>1, <2>2, <1>3
<1>8. QED BY <1>5, <1>6, <1>7

LEMMA CrashKeeps ==
  ASSUME QueueInv, Crash, IsFiniteSet(Workers)
  PROVE  QueueInv'
<1> USE DEF QueueInv
<1>1. job' = [w \in Workers |-> Idle] BY DEF Crash
<1>2. \A w \in Workers : InHand(w) \subseteq Pairs
  BY AtType, IdleHoldsNothing
<1>3. cut' = cut \cup UNION {InHand(w) : w \in Workers} BY DEF Crash
<1>4. results' \in [Pairs -> Nat]
  <2>1. PICK kept \in SUBSET {w \in Workers : Running(w)} :
          results' = [x \in Pairs |->
            results[x] + Cardinality({w \in kept : At(w) = x})]
    BY DEF Crash
  <2>2. ASSUME NEW x \in Pairs
        PROVE  Cardinality({w \in kept : At(w) = x}) \in Nat
    <3>1. {w \in kept : At(w) = x} \subseteq Workers OBVIOUS
    <3>2. IsFiniteSet({w \in kept : At(w) = x}) BY <3>1, FS_Subset
    <3>3. QED BY <3>2, FS_CardinalityType
  <2>3. \A x \in Pairs : results[x] \in Nat BY DEF TypeOK
  <2>4. QED BY <2>1, <2>2, <2>3
<1>5. TypeOK'
  <2>1. /\ job' \in [Workers -> Jobs]
        /\ \A v \in Workers : job'[v].event = NoEvent <=> job'[v].todo = <<>>
    BY <1>1, IdleType
  <2>2. cut' \subseteq Pairs BY <1>2, <1>3 DEF TypeOK
  <2>3. QED BY <1>4, <2>1, <2>2 DEF Crash, TypeOK
<1>6. Ledger' BY DEF Crash, Ledger
<1>7. NothingLostSilently'
  <2> SUFFICES ASSUME NEW x \in claims
               PROVE  x \in ended' \/ x \in cut'
    BY DEF NothingLostSilently, Crash
  <2>1. CASE \E v \in Workers : Running(v) /\ At(v) = x
    <3>1. PICK v \in Workers : Running(v) /\ At(v) = x BY <2>1
    <3>2. At(v) \in InHand(v) BY <3>1, AtType DEF Running
    <3>3. QED BY <3>1, <3>2, <1>3
  <2>2. QED BY <2>1 DEF NothingLostSilently, Crash
<1>8. QED BY <1>5, <1>6, <1>7

LEMMA ExpireKeeps ==
  ASSUME QueueInv, NEW x \in Pairs, Expire(x)
  PROVE  QueueInv'
<1> USE DEF QueueInv
<1>1. /\ x \in claims /\ claims' = claims \ {x}
      /\ expired' = [expired EXCEPT ![x] = @ + 1]
      /\ UNCHANGED <<job, grants, ended, cut>>
  BY DEF Expire
<1>2. TypeOK' BY <1>1 DEF Expire, TypeOK
<1>3. Ledger'
  <2> SUFFICES ASSUME NEW y \in Pairs, y[2] \in KeyedSlots
               PROVE  grants[y] = expired'[y] + (IF y \in claims' THEN 1 ELSE 0)
    BY <1>1 DEF Ledger
  <2>1. CASE y = x
    <3>1. expired'[y] = expired[y] + 1 /\ expired[y] \in Nat
      BY <2>1, <1>1 DEF TypeOK
    <3>2. grants[y] = expired[y] + 1 BY <2>1, <1>1 DEF Ledger
    <3>3. y \notin claims' BY <2>1, <1>1
    <3>4. QED BY <3>1, <3>2, <3>3
  <2>2. CASE y # x
    <3>1. expired'[y] = expired[y] BY <2>2, <1>1 DEF TypeOK
    <3>2. y \in claims' <=> y \in claims BY <2>2, <1>1
    <3>3. QED BY <3>1, <3>2 DEF Ledger
  <2>3. QED BY <2>1, <2>2
<1>4. NothingLostSilently'
  BY <1>1 DEF NothingLostSilently, Running, At
<1>5. QED BY <1>2, <1>3, <1>4

LEMMA StepKeeps ==
  ASSUME QueueInv, [Next]_vars, IsFiniteSet(Workers)
  PROVE  QueueInv'
<1>1. CASE Next
  BY <1>1, EnqueueKeeps, DequeueKeeps, ClaimKeeps, DedupedKeeps, EndRunKeeps,
     AbandonKeeps, CrashKeeps, ExpireKeeps
  DEF Next, Serve
<1>2. CASE UNCHANGED vars
  BY <1>2 DEF vars, QueueInv, TypeOK, Ledger, NothingLostSilently, Running, At
<1>3. QED BY <1>1, <1>2

-----------------------------------------------------------------------------
(* The inductive invariant of the plugin queue. *)
THEOREM QueueInvariant == Spec => []QueueInv
<1>1. IsFiniteSet(Workers) BY QueueAssumption
<1>2. Init => QueueInv BY InitHolds
<1>3. QueueInv /\ [Next]_vars => QueueInv' BY <1>1, StepKeeps
<1>4. QED BY <1>2, <1>3, PTL DEF Spec

(* The variables keep their types, and a worker holds an event exactly     *)
(* while it has plugins left to serve.                                     *)
THEOREM QueueTypeCorrect == Spec => []TypeOK
<1>1. QueueInv => TypeOK BY DEF QueueInv
<1>2. QED BY <1>1, QueueInvariant, PTL

(* A plugin starts again for the same message only after its claim has     *)
(* expired, however often the message is delivered.                        *)
THEOREM OneRunPerClaimHolds == Spec => []OneRunPerClaim
<1>1. ASSUME QueueInv PROVE OneRunPerClaim
  <2> SUFFICES ASSUME NEW x \in Pairs, x[2] \in KeyedSlots
               PROVE  grants[x] <= 1 + expired[x]
    BY DEF OneRunPerClaim
  <2>1. expired[x] \in Nat BY <1>1 DEF QueueInv, TypeOK
  <2>2. grants[x] = expired[x] \/ grants[x] = expired[x] + 1
    BY <1>1, <2>1 DEF QueueInv, Ledger
  <2>3. QED BY <2>1, <2>2
<1>2. QED BY <1>1, QueueInvariant, PTL

(* A claim is being served, was served to its end, or fell to a fault. *)
THEOREM NothingLostSilentlyHolds == Spec => []NothingLostSilently
<1>1. QueueInv => NothingLostSilently BY DEF QueueInv
<1>2. QED BY <1>1, QueueInvariant, PTL

-----------------------------------------------------------------------------
(* Results and the runs they come from.                                    *)

LEMMA RunsFinite ==
  ASSUME NEW x
  PROVE  /\ IsFiniteSet(RunsOf(x))
         /\ Cardinality(RunsOf(x)) \in Nat
<1>1. RunsOf(x) \subseteq Workers BY DEF RunsOf
<1>2. QED BY <1>1, QueueAssumption, FS_Subset, FS_CardinalityType

(* Fewer runs under way and as many results: still backed. *)
LEMMA BackedCarries ==
  ASSUME TypeOK, NEW x \in Pairs,
         results[x] + Cardinality(RunsOf(x)) <= grants[x],
         RunsOf(x)' \subseteq RunsOf(x),
         results'[x] = results[x],
         grants'[x] \in {grants[x], grants[x] + 1}
  PROVE  results'[x] + Cardinality(RunsOf(x)') <= grants'[x]
<1>1. /\ IsFiniteSet(RunsOf(x)) /\ Cardinality(RunsOf(x)) \in Nat
  BY RunsFinite
<1>2. /\ Cardinality(RunsOf(x)') \in Nat
      /\ Cardinality(RunsOf(x)') <= Cardinality(RunsOf(x))
  BY <1>1, FS_Subset, FS_CardinalityType
<1>3. results[x] \in Nat /\ grants[x] \in Nat BY DEF TypeOK
<1>4. QED BY <1>1, <1>2, <1>3

(* A step of worker w alone: who runs what afterwards. *)
LEMMA OneJobChanges ==
  ASSUME TypeOK, NEW w \in Workers, NEW r, job' = [job EXCEPT ![w] = r], NEW x
  PROVE  /\ RunsOf(x)' \ {w} = RunsOf(x) \ {w}
         /\ w \in RunsOf(x)' => r.running
<1>1. \A v \in Workers \ {w} : job'[v] = job[v]
  BY DEF TypeOK
<1>2. job'[w] = r
  BY DEF TypeOK
<1>3. QED BY <1>1, <1>2 DEF RunsOf, Running, At

LEMMA ResultsInit == Init => ResultsBacked
<1> SUFFICES ASSUME Init, NEW x \in Pairs
             PROVE  results[x] + Cardinality(RunsOf(x)) <= grants[x]
  BY DEF ResultsBacked
<1>1. RunsOf(x) = {} BY DEF Init, Idle, RunsOf, Running
<1>2. QED BY <1>1, FS_EmptySet DEF Init

LEMMA ResultsStep == TypeOK /\ ResultsBacked /\ [Next]_vars => ResultsBacked'
<1> SUFFICES ASSUME TypeOK, ResultsBacked, [Next]_vars, NEW x \in Pairs
             PROVE  results'[x] + Cardinality(RunsOf(x)') <= grants'[x]
  BY DEF ResultsBacked
<1> DEFINE Goal == results'[x] + Cardinality(RunsOf(x)') <= grants'[x]
<1>b. results[x] + Cardinality(RunsOf(x)) <= grants[x]
  BY DEF ResultsBacked
<1>t. results[x] \in Nat /\ grants[x] \in Nat /\ Cardinality(RunsOf(x)) \in Nat
  BY RunsFinite DEF TypeOK
<1>u. ASSUME UNCHANGED <<job, results, grants>> PROVE Goal
  BY <1>b, <1>u, BackedCarries DEF RunsOf, Running, At
<1>1. ASSUME NEW e \in Events, Enqueue(e) PROVE Goal
  BY <1>1, <1>u DEF Enqueue
<1>2. ASSUME NEW w \in Workers, Dequeue(w) \/ Deduped(w) PROVE Goal
  <2>1. PICK e, todo : job' = [job EXCEPT ![w] = Left(e, todo)]
    BY <1>2 DEF Dequeue, Deduped
  <2>2. ~Left(e, todo).running
    BY DEF Left, Idle
  <2>3. RunsOf(x)' \subseteq RunsOf(x)
    BY <2>1, <2>2, OneJobChanges
  <2>4. UNCHANGED <<results, grants>>
    BY <1>2 DEF Dequeue, Deduped
  <2>5. QED BY <1>b, <2>3, <2>4, BackedCarries
<1>3. ASSUME NEW w \in Workers, Claim(w) PROVE Goal
  <2>1. job[w].event # NoEvent /\ ~job[w].running
    BY <1>3 DEF Claim, Claiming
  <2>2. At(w) \in Pairs
    BY <2>1, AtType
  <2>3. /\ grants' = [grants EXCEPT ![At(w)] = @ + 1] /\ results' = results
        /\ job' = [job EXCEPT ![w] = [job[w] EXCEPT !.running = TRUE]]
    BY <1>3 DEF Claim
  <2>4. job[w] \in Jobs
    BY DEF TypeOK
  <2>5. At(w)' = At(w)
    <3>1. job'[w] = [job[w] EXCEPT !.running = TRUE]
      BY <2>3 DEF TypeOK
    <3>2. job'[w].todo = job[w].todo /\ job'[w].event = job[w].event
      BY <2>4, <3>1 DEF Jobs
    <3>3. QED BY <3>2 DEF At
  <2>6. RunsOf(x)' \ {w} = RunsOf(x) \ {w} /\ w \notin RunsOf(x)
    <3>1. PICK r : job' = [job EXCEPT ![w] = r]
      BY <2>3
    <3>2. RunsOf(x)' \ {w} = RunsOf(x) \ {w}
      BY <3>1, OneJobChanges
    <3>3. QED BY <2>1, <3>2 DEF RunsOf, Running
  <2>7. CASE x # At(w)
    <3>1. w \notin RunsOf(x)'
      BY <2>5, <2>7 DEF RunsOf
    <3>2. grants'[x] = grants[x]
      BY <2>2, <2>3, <2>7 DEF TypeOK
    <3>3. QED BY <1>b, <2>3, <2>6, <3>1, <3>2, BackedCarries
  <2>8. CASE x = At(w)
    <3>1. RunsOf(x)' \in {RunsOf(x), RunsOf(x) \cup {w}}
      BY <2>6
    <3>2. IsFiniteSet(RunsOf(x))
      BY RunsFinite
    <3>3. Cardinality(RunsOf(x)') <= Cardinality(RunsOf(x)) + 1
          /\ Cardinality(RunsOf(x)') \in Nat
      BY <2>6, <3>1, <3>2, <1>t, FS_AddElement
    <3>4. grants'[x] = grants[x] + 1
      BY <2>3, <2>8 DEF TypeOK
    <3>5. QED BY <1>b, <1>t, <2>3, <3>3, <3>4
  <2>9. QED BY <2>7, <2>8
<1>4. ASSUME NEW w \in Workers, Complete(w) \/ Skip(w) \/ Fail(w) PROVE Goal
  <2>1. Running(w) /\ job[w].event # NoEvent /\ grants' = grants
    BY <1>4 DEF Complete, Skip, Fail, EndRun, Running
  <2>2. At(w) \in Pairs
    BY <2>1, AtType
  <2>3. PICK e, todo : job' = [job EXCEPT ![w] = Left(e, todo)]
    BY <1>4 DEF Complete, Skip, Fail, EndRun
  <2>4. ~Left(e, todo).running
    BY DEF Left, Idle
  <2>5. RunsOf(x)' = RunsOf(x) \ {w}
    BY <2>3, <2>4, OneJobChanges
  <2>6. CASE x # At(w)
    <3>1. results'[x] = results[x]
      BY <1>4, <2>2, <2>6 DEF Complete, Skip, Fail, TypeOK
    <3>2. QED BY <1>b, <2>1, <2>5, <3>1, BackedCarries
  <2>7. CASE x = At(w)
    <3>1. w \in RunsOf(x)
      BY <2>1, <2>7 DEF RunsOf
    <3>2. Cardinality(RunsOf(x)') = Cardinality(RunsOf(x)) - 1
      BY <2>5, <3>1, RunsFinite, FS_RemoveElement
    <3>3. results'[x] \in {results[x], results[x] + 1}
      BY <1>4, <1>t, <2>7 DEF Complete, Skip, Fail, TypeOK
    <3>4. QED BY <1>b, <1>t, <2>1, <3>2, <3>3
  <2>8. QED BY <2>6, <2>7
<1>5. ASSUME NEW w \in Workers, Abandon(w) PROVE Goal
  <2>1. /\ job' = [job EXCEPT ![w] = Idle] /\ results' = results
        /\ job[w].event # NoEvent
        /\ grants' = grants \/ grants' = [grants EXCEPT ![At(w)] = @ + 1]
    BY <1>5 DEF Abandon
  <2>2. RunsOf(x)' \subseteq RunsOf(x)
    <3>1. ~Idle.running
      BY DEF Idle
    <3>2. QED BY <2>1, <3>1, OneJobChanges
  <2>3. grants'[x] \in {grants[x], grants[x] + 1}
    BY <2>1, AtType DEF TypeOK
  <2>4. QED BY <1>b, <2>1, <2>2, <2>3, BackedCarries
<1>6. CASE Crash
  <2>1. /\ job' = [w \in Workers |-> Idle] /\ grants' = grants
    BY <1>6 DEF Crash
  <2>2. PICK kept \in SUBSET {w \in Workers : Running(w)} :
          results' = [y \in Pairs |->
            results[y] + Cardinality({w \in kept : At(w) = y})]
    BY <1>6 DEF Crash
  <2>3. {w \in kept : At(w) = x} \subseteq RunsOf(x)
    BY DEF RunsOf
  <2>4. /\ Cardinality({w \in kept : At(w) = x}) <= Cardinality(RunsOf(x))
        /\ Cardinality({w \in kept : At(w) = x}) \in Nat
    BY <2>3, RunsFinite, FS_Subset, FS_CardinalityType
  <2>5. results'[x] = results[x] + Cardinality({w \in kept : At(w) = x})
    BY <2>2
  <2>6. RunsOf(x)' = {}
    BY <2>1 DEF RunsOf, Running, Idle
  <2>7. Cardinality(RunsOf(x)') = 0
    BY <2>6, FS_EmptySet
  <2>8. QED BY <1>b, <1>t, <2>1, <2>4, <2>5, <2>7
<1>7. ASSUME NEW y \in Pairs, Expire(y) PROVE Goal
  BY <1>7, <1>u DEF Expire
<1>8. CASE UNCHANGED vars
  BY <1>8, <1>u DEF vars
<1>9. QED
  BY <1>1, <1>2, <1>3, <1>4, <1>5, <1>6, <1>7, <1>8 DEF Next, Serve

(* However deliveries, errors and crashes interleave, a run leaves at most *)
(* one result, so a live claim stands for at most one reply.               *)
THEOREM OneResultPerRunHolds == Spec => []OneResultPerRun
<1>1. Init => ResultsBacked
  BY ResultsInit
<1>2. TypeOK /\ ResultsBacked /\ [Next]_vars => ResultsBacked'
  BY ResultsStep
<1>3. TypeOK /\ ResultsBacked => OneResultPerRun
  <2> SUFFICES ASSUME TypeOK, NEW x \in Pairs,
                      results[x] + Cardinality(RunsOf(x)) <= grants[x]
               PROVE  results[x] <= grants[x]
    BY DEF ResultsBacked, OneResultPerRun
  <2>1. results[x] \in Nat /\ grants[x] \in Nat
        /\ Cardinality(RunsOf(x)) \in Nat
    BY RunsFinite DEF TypeOK
  <2>2. QED BY <2>1
<1>4. QED BY <1>1, <1>2, <1>3, QueueTypeCorrect, PTL DEF Spec
=============================================================================
