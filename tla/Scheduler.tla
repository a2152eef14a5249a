------------------------------ MODULE Scheduler ------------------------------
(***************************************************************************)
(* The scheduled trigger of one firm.  A one-shot sweep, started by a      *)
(* timer, enqueues for every enabled installation the oldest tick of its   *)
(* cron expression after the one it fired last, and records it; the queue  *)
(* is written at once, the records are committed together at the end.      *)
(* Every scheduled event goes to every plugin with the scheduled trigger.  *)
(* The plugins are installed at time 0.  The life of a claim is longer     *)
(* than the horizon of the model.                                          *)
(***************************************************************************)
EXTENDS Naturals, FiniteSetsExt

CONSTANTS Plugins,      \* those with the scheduled trigger and a cron
          Fires,        \* the times each cron expression names
          None,
          MaxTime, MaxToggles, MaxFaults    \* bounds

Times == 1..MaxTime

ASSUME SchedulerAssumption ==
  /\ MaxTime \in Nat /\ MaxToggles \in Nat /\ MaxFaults \in Nat
  /\ Fires \in [Plugins -> SUBSET Times]
  /\ None \notin Nat

VARIABLES
  now,
  enabled,  \* the plugins with is_enabled set
  last,     \* last_fired_at or installed_at, as committed
  stamp,    \* the last_fired_at the sweep has yet to commit
  sweep,    \* the sweep: its clock and the installations left to visit
  queue,    \* how many events of each tick are queued
  fired,    \* history: how often each plugin's tick was enqueued
  claims,   \* the claims <<plugin, tick>>
  runs,     \* history: how often each plugin ran for each tick
  toggles, faults

vars == <<now, enabled, last, stamp, sweep, queue, fired, claims, runs,
          toggles, faults>>

Asleep == [at |-> None, todo |-> {}]
NoStamp == [p \in Plugins |-> None]
Running == sweep.at # None

Init ==
  /\ now = 0
  /\ enabled = Plugins
  /\ last = [p \in Plugins |-> 0]
  /\ stamp = NoStamp
  /\ sweep = Asleep
  /\ queue = [t \in Times |-> 0]
  /\ fired = [p \in Plugins |-> [t \in Times |-> 0]]
  /\ claims = {}
  /\ runs = [p \in Plugins |-> [t \in Times |-> 0]]
  /\ toggles = 0
  /\ faults = 0

-----------------------------------------------------------------------------
(* The sweep takes its clock and reads the enabled installations. *)
Start ==
  /\ ~Running
  /\ sweep' = [at |-> now, todo |-> enabled]
  /\ UNCHANGED <<now, enabled, last, stamp, queue, fired, claims, runs,
                 toggles, faults>>

(* Mutant: a tick is due once it lies in the past. *)
DueBefore(p) == {t \in Fires[p] : last[p] < t /\ t < sweep.at}

(* The ticks after the last one fired that have come. *)
Due(p) == {t \in Fires[p] : last[p] < t /\ t <= sweep.at}

Visited(p) == sweep' = [sweep EXCEPT !.todo = @ \ {p}]

(* Mutant: the record is the time of the sweep, not of the tick. *)
FireStampsNow(p) ==
  /\ p \in sweep.todo /\ Due(p) # {}
  /\ LET t == Min(Due(p)) IN
     /\ queue' = [queue EXCEPT ![t] = @ + 1]
     /\ fired' = [fired EXCEPT ![p][t] = @ + 1]
  /\ stamp' = [stamp EXCEPT ![p] = sweep.at]
  /\ Visited(p)
  /\ UNCHANGED <<now, enabled, last, claims, runs, toggles, faults>>

(* The oldest due tick is enqueued and recorded. *)
Fire(p) ==
  /\ p \in sweep.todo /\ Due(p) # {}
  /\ LET t == Min(Due(p)) IN
     /\ queue' = [queue EXCEPT ![t] = @ + 1]
     /\ fired' = [fired EXCEPT ![p][t] = @ + 1]
     /\ stamp' = [stamp EXCEPT ![p] = t]
  /\ Visited(p)
  /\ UNCHANGED <<now, enabled, last, claims, runs, toggles, faults>>

NotDue(p) ==
  /\ p \in sweep.todo /\ Due(p) = {}
  /\ Visited(p)
  /\ UNCHANGED <<now, enabled, last, stamp, queue, fired, claims, runs,
                 toggles, faults>>

(* Mutant: one installation's record is committed, the others are lost. *)
EndKeepsOne ==
  /\ Running /\ sweep.todo = {}
  /\ last' \in {[last EXCEPT ![p] = IF stamp[p] = None THEN @ ELSE stamp[p]] :
                  p \in Plugins}
  /\ stamp' = NoStamp
  /\ sweep' = Asleep
  /\ UNCHANGED <<now, enabled, queue, fired, claims, runs, toggles, faults>>

(* One commit for the firm. *)
End ==
  /\ Running /\ sweep.todo = {}
  /\ last' = [p \in Plugins |-> IF stamp[p] = None THEN last[p] ELSE stamp[p]]
  /\ stamp' = NoStamp
  /\ sweep' = Asleep
  /\ UNCHANGED <<now, enabled, queue, fired, claims, runs, toggles, faults>>

(* The process dies, or Redis fails in enqueue and the sweep raises: what  *)
(* is queued stays queued, nothing is recorded.                            *)
Crash ==
  /\ faults < MaxFaults /\ Running
  /\ faults' = faults + 1
  /\ stamp' = NoStamp
  /\ sweep' = Asleep
  /\ UNCHANGED <<now, enabled, last, queue, fired, claims, runs, toggles>>

-----------------------------------------------------------------------------
(* Mutant: scheduled events have no dedup key. *)
WorkUnclaimed(t) ==
  /\ queue[t] > 0
  /\ queue' = [queue EXCEPT ![t] = @ - 1]
  /\ runs' = [p \in Plugins |->
       IF p \in enabled THEN [runs[p] EXCEPT ![t] = @ + 1] ELSE runs[p]]
  /\ UNCHANGED <<now, enabled, last, stamp, sweep, fired, claims, toggles, faults>>

(* A worker offers the event to every scheduled plugin; a disabled one is  *)
(* turned away after it has been claimed.  PluginQueue has the detail.     *)
Work(t) ==
  /\ queue[t] > 0
  /\ queue' = [queue EXCEPT ![t] = @ - 1]
  /\ claims' = claims \cup (Plugins \X {t})
  /\ runs' = [p \in Plugins |->
       IF p \in enabled /\ <<p, t>> \notin claims
       THEN [runs[p] EXCEPT ![t] = @ + 1] ELSE runs[p]]
  /\ UNCHANGED <<now, enabled, last, stamp, sweep, fired, toggles, faults>>

(* An operator turns a plugin off or on. *)
Toggle(p) ==
  /\ toggles < MaxToggles
  /\ toggles' = toggles + 1
  /\ enabled' = IF p \in enabled THEN enabled \ {p} ELSE enabled \cup {p}
  /\ UNCHANGED <<now, last, stamp, sweep, queue, fired, claims, runs, faults>>

(* Time passes, with the timer stopped or a sweep under way or not. *)
Tick ==
  /\ now < MaxTime
  /\ now' = now + 1
  /\ UNCHANGED <<enabled, last, stamp, sweep, queue, fired, claims, runs,
                 toggles, faults>>

SweepStep == Start \/ End \/ \E p \in Plugins : Fire(p) \/ NotDue(p)

Next ==
  \/ SweepStep \/ Crash \/ Tick
  \/ \E t \in Times : Work(t)
  \/ \E p \in Plugins : Toggle(p)

Spec == Init /\ [][Next]_vars

(* The timer keeps starting the sweep. *)
FairSpec == Spec /\ WF_vars(SweepStep)

-----------------------------------------------------------------------------
TypeOK ==
  /\ now \in 0..MaxTime
  /\ enabled \subseteq Plugins
  /\ last \in [Plugins -> 0..MaxTime]
  /\ stamp \in [Plugins -> Times \cup {None}]
  /\ sweep \in [at : 0..MaxTime, todo : SUBSET Plugins] \cup {Asleep}
  /\ queue \in [Times -> Nat]
  /\ fired \in [Plugins -> [Times -> Nat]]
  /\ claims \subseteq Plugins \X Times
  /\ runs \in [Plugins -> [Times -> Nat]]
  /\ toggles \in 0..MaxToggles /\ faults \in 0..MaxFaults

(* The record never runs past a tick that was not enqueued, whatever sweep *)
(* died on the way and however long the timer stood still.                 *)
NoTickSkipped ==
  \A p \in Plugins : \A t \in Fires[p] : t <= last[p] => fired[p][t] > 0

(* A tick is enqueued again only after a crash between its enqueue and the *)
(* firm's commit, once for each.                                           *)
DuplicatesExplained ==
  \A p \in Plugins : \A t \in Times : fired[p][t] <= 1 + faults

(* Although a tick may be enqueued twice, and two plugins may enqueue the  *)
(* same one, no plugin runs twice for it.                                  *)
OneRunPerTick == \A p \in Plugins : \A t \in Times : runs[p][t] <= 1

(* Every tick of an enabled plugin is enqueued in the end, those missed    *)
(* while the timer was off or the sweep kept dying included.               *)
EveryTickFires ==
  \A p \in Plugins : \A t \in Fires[p] :
    (now >= t /\ p \in enabled) ~> (fired[p][t] > 0 \/ p \notin enabled)
=============================================================================
