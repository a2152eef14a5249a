----------------------------- MODULE PluginQueue -----------------------------
(***************************************************************************)
(* The plugin event queue and the workers that serve it.  Producers LPUSH  *)
(* events to a Redis list; each worker BRPOPs one and offers it to every   *)
(* plugin that listens to its trigger, in registry order.  Before a plugin *)
(* runs, the worker claims <<plugin, dedup key>> in Redis with SET NX EX.  *)
(* The event has left the queue by then and the claim is never given back, *)
(* so a crash or an error after either of them loses work; what must not   *)
(* happen is that a plugin runs twice under one claim, or that work        *)
(* disappears without such a fault.                                        *)
(***************************************************************************)
EXTENDS Naturals, SequencesExt

CONSTANTS Plugins,
          Events,       \* what producers enqueue; one may be sent repeatedly
          Listeners,    \* the plugins that listen to each event's trigger,
                        \* in registration order (filter_by_trigger)
          Keys,         \* dedup tokens
          KeyOf,        \* the dedup token of each event, or NoKey
          NoKey,
          Workers,      \* the BRPOP loops of one worker process
          NoEvent,
          MaxSent, MaxFaults, MaxExpiries     \* bounds

ASSUME QueueAssumption ==
  /\ Listeners \in [Events -> Seq(Plugins)]
  /\ KeyOf \in [Events -> Keys \cup {NoKey}]
  /\ NoKey \notin Keys /\ NoEvent \notin Events
  /\ IsFiniteSet(Workers)
  /\ MaxSent \in Nat /\ MaxFaults \in Nat /\ MaxExpiries \in Nat

VARIABLES
  queue,    \* the Redis list, oldest event first
  claims,   \* the live dedup keys, pairs of plugin and token
  job,      \* what each worker is doing
  grants,   \* history: runs begun, by plugin and slot
  results,  \* history: runs that left something in the database
  expired,  \* history: claims that reached their TTL
  ended,    \* history: the pairs whose run or skip came to its end
  cut,      \* history: the pairs an error or a crash took away
  sent,     \* deliveries so far
  faults

vars == <<queue, claims, job, grants, results, expired, ended, cut, sent, faults>>

(* Events with one token stand for one thing to react to. *)
Slot(e) == IF KeyOf[e] = NoKey THEN <<"event", e>> ELSE <<"key", KeyOf[e]>>
Slots == {Slot(e) : e \in Events}
KeyedSlots == {Slot(e) : e \in {d \in Events : KeyOf[d] # NoKey}}
Pairs == Plugins \X Slots

Idle == [event |-> NoEvent, todo |-> <<>>, running |-> FALSE]

(* A worker with a list of plugins left, about to claim the first. *)
Left(e, todo) ==
  IF todo = <<>> THEN Idle ELSE [event |-> e, todo |-> todo, running |-> FALSE]

Init ==
  /\ queue = <<>>
  /\ claims = {}
  /\ job = [w \in Workers |-> Idle]
  /\ grants = [x \in Pairs |-> 0]
  /\ results = [x \in Pairs |-> 0]
  /\ expired = [x \in Pairs |-> 0]
  /\ ended = {}
  /\ cut = {}
  /\ sent = 0
  /\ faults = 0

-----------------------------------------------------------------------------
Enqueue(e) ==
  /\ sent < MaxSent
  /\ sent' = sent + 1
  /\ queue' = Append(queue, e)
  /\ UNCHANGED <<claims, job, grants, results, expired, ended, cut, faults>>

Dequeue(w) ==
  /\ job[w].event = NoEvent /\ queue # <<>>
  /\ queue' = Tail(queue)
  /\ job' = [job EXCEPT ![w] = Left(Head(queue), Listeners[Head(queue)])]
  /\ UNCHANGED <<claims, grants, results, expired, ended, cut, sent, faults>>

Claiming(w) == job[w].event # NoEvent /\ ~job[w].running
Running(w) == job[w].event # NoEvent /\ job[w].running
At(w) == <<Head(job[w].todo), Slot(job[w].event)>>

(* Mutant: one claim per event, whichever plugin took it. *)
FreePerEvent(x) ==
  x[2] \notin KeyedSlots \/ \A p \in Plugins : <<p, x[2]>> \notin claims

(* An event without a dedup token is never refused. *)
Free(x) == x[2] \notin KeyedSlots \/ x \notin claims

(* Mutant: the first claim on an event claims it for every plugin left. *)
ClaimAhead(w) ==
  /\ Claiming(w) /\ Free(At(w))
  /\ claims' = claims \cup
       {<<p, At(w)[2]>> : p \in IF At(w)[2] \in KeyedSlots
                                THEN ToSet(job[w].todo) ELSE {}}
  /\ grants' = [grants EXCEPT ![At(w)] = @ + 1]
  /\ job' = [job EXCEPT ![w].running = TRUE]
  /\ UNCHANGED <<queue, results, expired, ended, cut, sent, faults>>

(* SET NX EX succeeds: the run is this worker's. *)
Claim(w) ==
  /\ Claiming(w) /\ Free(At(w))
  /\ claims' = IF At(w)[2] \in KeyedSlots THEN claims \cup {At(w)} ELSE claims
  /\ grants' = [grants EXCEPT ![At(w)] = @ + 1]
  /\ job' = [job EXCEPT ![w].running = TRUE]
  /\ UNCHANGED <<queue, results, expired, ended, cut, sent, faults>>

(* Another delivery claimed it first: skipped as "deduped". *)
Deduped(w) ==
  /\ Claiming(w) /\ ~Free(At(w))
  /\ job' = [job EXCEPT ![w] = Left(@.event, Tail(@.todo))]
  /\ UNCHANGED <<queue, claims, grants, results, expired, ended, cut, sent, faults>>

(* The run is over and the worker turns to the next plugin. *)
EndRun(w) ==
  /\ Running(w)
  /\ ended' = ended \cup {At(w)}
  /\ job' = [job EXCEPT ![w] = Left(@.event, Tail(@.todo))]
  /\ UNCHANGED <<queue, expired, cut, sent>>

Complete(w) ==
  /\ EndRun(w)
  /\ results' = [results EXCEPT ![At(w)] = @ + 1]
  /\ UNCHANGED <<claims, grants, faults>>

(* Not installed, disabled or misconfigured: found out under the claim. *)
Skip(w) ==
  /\ EndRun(w)
  /\ UNCHANGED <<claims, grants, results, faults>>

(* Mutant: a failed run gives its claim back, for a redelivery to retry. *)
FailReleases(w) ==
  /\ faults < MaxFaults
  /\ EndRun(w)
  /\ \E kept \in {0, 1} : results' = [results EXCEPT ![At(w)] = @ + kept]
  /\ claims' = claims \ {At(w)}
  /\ faults' = faults + 1
  /\ UNCHANGED grants

(* Mutant: a run that raised is tried again in place. *)
FailRetries(w) ==
  /\ faults < MaxFaults
  /\ Running(w)
  /\ \E kept \in {0, 1} : results' = [results EXCEPT ![At(w)] = @ + kept]
  /\ faults' = faults + 1
  /\ UNCHANGED <<queue, claims, job, grants, expired, ended, cut, sent>>

(* The plugin raised: the rollback leaves what a connector call in the     *)
(* middle of the run had already committed.                                *)
Fail(w) ==
  /\ faults < MaxFaults
  /\ EndRun(w)
  /\ \E kept \in {0, 1} : results' = [results EXCEPT ![At(w)] = @ + kept]
  /\ faults' = faults + 1
  /\ UNCHANGED <<claims, grants>>

(* The pairs a worker still had to serve. *)
InHand(w) == {<<p, Slot(job[w].event)>> : p \in ToSet(job[w].todo)}

(* Redis or the database fails outside the try block, while claiming or    *)
(* before execute_plugin: the exception ends the whole event.  A claim     *)
(* whose answer was lost may have been set.                                *)
Abandon(w) ==
  /\ faults < MaxFaults
  /\ job[w].event # NoEvent
  /\ \E set \in BOOLEAN :
       IF set /\ Claiming(w) /\ At(w)[2] \in KeyedSlots /\ At(w) \notin claims
       THEN /\ claims' = claims \cup {At(w)}
            /\ grants' = [grants EXCEPT ![At(w)] = @ + 1]
       ELSE UNCHANGED <<claims, grants>>
  /\ cut' = cut \cup InHand(w)
  /\ job' = [job EXCEPT ![w] = Idle]
  /\ faults' = faults + 1
  /\ UNCHANGED <<queue, results, expired, ended, sent>>

(* The worker process dies and systemd starts it again.  What a run had    *)
(* committed stays.                                                        *)
Crash ==
  /\ faults < MaxFaults
  /\ \E w \in Workers : job[w].event # NoEvent
  /\ \E kept \in SUBSET {w \in Workers : Running(w)} :
       results' = [x \in Pairs |->
         results[x] + Cardinality({w \in kept : At(w) = x})]
  /\ cut' = cut \cup UNION {InHand(w) : w \in Workers}
  /\ job' = [w \in Workers |-> Idle]
  /\ faults' = faults + 1
  /\ UNCHANGED <<queue, claims, grants, expired, ended, sent>>

(* A claim reaches its TTL of a day. *)
Expire(x) ==
  /\ x \in claims /\ expired[x] < MaxExpiries
  /\ claims' = claims \ {x}
  /\ expired' = [expired EXCEPT ![x] = @ + 1]
  /\ UNCHANGED <<queue, job, grants, results, ended, cut, sent, faults>>

Serve(w) == Dequeue(w) \/ Claim(w) \/ Deduped(w) \/ Complete(w) \/ Skip(w)

Next ==
  \/ \E e \in Events : Enqueue(e)
  \/ \E w \in Workers : Serve(w) \/ Fail(w) \/ Abandon(w)
  \/ Crash
  \/ \E x \in Pairs : Expire(x)

Spec == Init /\ [][Next]_vars

(* The worker loops keep running: systemd restarts the process.  A worker  *)
(* blocked on Redis is handed an event in its turn.                        *)
FairSpec == Spec /\ \A w \in Workers : WF_vars(Serve(w))

-----------------------------------------------------------------------------
Jobs == [event : Events \cup {NoEvent}, todo : Seq(Plugins), running : BOOLEAN]

(* The values of the variables; a worker has an event exactly while it has *)
(* plugins left to serve.                                                  *)
TypeOK ==
  /\ queue \in Seq(Events)
  /\ claims \subseteq Pairs
  /\ job \in [Workers -> Jobs]
  /\ grants \in [Pairs -> Nat]
  /\ results \in [Pairs -> Nat]
  /\ expired \in [Pairs -> Nat]
  /\ ended \subseteq Pairs /\ cut \subseteq Pairs
  /\ sent \in Nat /\ faults \in Nat
  /\ \A w \in Workers : job[w].event = NoEvent <=> job[w].todo = <<>>

(* One claim admits one run: with deliveries repeated, workers racing and  *)
(* errors in between, a plugin starts again for the same message only      *)
(* after its claim has expired.                                            *)
OneRunPerClaim ==
  \A x \in Pairs : x[2] \in KeyedSlots => grants[x] <= 1 + expired[x]

(* No more results than runs: a message whose claim has not expired gets   *)
(* at most one reply from a plugin.                                        *)
OneResultPerRun == \A x \in Pairs : results[x] <= grants[x]

(* Work disappears only in a fault: a claim is being served, has been      *)
(* served to its end, or fell to an error or a crash.                      *)
NothingLostSilently ==
  \A x \in claims :
    \/ \E w \in Workers : Running(w) /\ At(w) = x
    \/ x \in ended
    \/ x \in cut

(* Every listening plugin gets its turn at a queued event, under this      *)
(* delivery or under one that came before it, unless a fault cut it off.   *)
Served(p, e) == grants[<<p, Slot(e)>>] > 0 \/ <<p, Slot(e)>> \in cut

EveryPluginGetsItsTurn ==
  \A e \in Events : \A p \in ToSet(Listeners[e]) :
    (\E i \in DOMAIN queue : queue[i] = e) ~> Served(p, e)
=============================================================================
