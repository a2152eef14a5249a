---------------------------- MODULE Subscriptions ----------------------------
(***************************************************************************)
(* Change-notification subscriptions of one firm: what Microsoft Graph     *)
(* holds, the rows of graph_subscriptions, the sweep that creates, renews  *)
(* and deletes them, and the webhook's lifecycle notifications.            *)
(*                                                                         *)
(* A box is one resource of one user (inbox or calendar).  Time is counted *)
(* in sweep periods: a lifetime is the number of periods left.  The sweep  *)
(* is a one-shot process; every Graph call commits the sweep's session     *)
(* with its audit entry, and the row that records the call's outcome is    *)
(* written after that commit, so it rides on the next one.                 *)
(***************************************************************************)
EXTENDS Naturals, FiniteSets

CONSTANTS Boxes,
          Users,
          OwnerOf,      \* the user each box belongs to
          Subs,         \* subscription ids
          Nothing,
          Same, Deleted, \* a flushed row: as committed, or deleted
          TTL,          \* DEFAULT_SUBSCRIPTION_TTL, in sweep periods
          Buffer,       \* DEFAULT_RENEWAL_BUFFER, in sweep periods
          MaxFaults     \* bound on failures, drops and crashes

(* A row of graph_subscriptions, and a subscription as Graph holds it. *)
Row == [sub : Subs, left : 0..TTL]
Remote == [box : Boxes, left : 1..TTL]

(* The sweep runs more often than the buffer is long. *)
ASSUME SubscriptionAssumption ==
  /\ OwnerOf \in [Boxes -> Users]
  /\ {Nothing, Same, Deleted} \cap (Boxes \cup Subs \cup Row \cup Remote) = {}
  /\ Nothing # Same /\ Same # Deleted /\ Deleted # Nothing
  /\ TTL \in Nat /\ Buffer \in Nat \ {0} /\ Buffer < TTL
  /\ MaxFaults \in Nat

VARIABLES
  graph,    \* Microsoft's side: the box and lifetime of each subscription
  row,      \* the committed row of each box
  pend,     \* rows the sweep has flushed and not committed
  active,   \* the users with is_active_processor set
  sweep,    \* the running sweep
  swept,    \* whether a sweep ended in this period
  notices,  \* lifecycle notifications on their way
  faults

subVars == <<graph, row, pend, active, sweep, swept, notices, faults>>

Asleep == [step |-> "off", todo |-> {}, orphans |-> {},
           box |-> Nothing, sub |-> Nothing]

SubInit ==
  /\ graph = [s \in Subs |-> Nothing]
  /\ row = [b \in Boxes |-> Nothing]
  /\ pend = [b \in Boxes |-> Same]
  /\ active = Users
  /\ sweep = Asleep
  /\ swept = FALSE
  /\ notices = {}
  /\ faults = 0

Live(s) == graph[s] # Nothing
Fault == faults < MaxFaults /\ faults' = faults + 1

(* The rows after a commit of the sweep's session. *)
Committed ==
  [b \in Boxes |-> CASE pend[b] = Same -> row[b]
                     [] pend[b] = Deleted -> Nothing
                     [] OTHER -> pend[b]]
Clean == [b \in Boxes |-> Same]
CommitRows == row' = Committed /\ pend' = Clean
RollbackRows == row' = row /\ pend' = Clean

(* A commit, after which the row of b is flushed as r. *)
CommitRowsThen(b, r) == row' = Committed /\ pend' = [Clean EXCEPT ![b] = r]

-----------------------------------------------------------------------------
(* The sweep.                                                              *)

(* It lists the active users' boxes and the rows of the inactive ones. *)
Start ==
  /\ sweep.step = "off" /\ ~swept
  /\ sweep' = [Asleep EXCEPT
       !.step = "next",
       !.todo = {b \in Boxes : OwnerOf[b] \in active},
       !.orphans =
         {b \in Boxes : OwnerOf[b] \notin active /\ row[b] # Nothing}]
  /\ UNCHANGED <<graph, row, pend, active, swept, notices, faults>>

At(step) == sweep.step = step
(* On to the next box. *)
NextBox == [sweep EXCEPT !.step = "next", !.box = Nothing, !.sub = Nothing]

(* Mutant: a row is reused until it has expired. *)
FreshToTheEnd(r) == r.left > 0

(* The row is not due for renewal. *)
Fresh(r) == r.left > Buffer

(* ensure_subscription reads the row of a box. *)
Visit(b) ==
  /\ At("next") /\ b \in sweep.todo
  /\ LET rest == [sweep EXCEPT !.todo = @ \ {b}] IN
     CASE row[b] = Nothing ->
            sweep' = [rest EXCEPT !.step = "create", !.box = b]
       [] row[b] # Nothing /\ Fresh(row[b]) -> sweep' = rest
       [] OTHER ->
            sweep' = [rest EXCEPT !.step = "patch", !.box = b,
                                  !.sub = row[b].sub]
  /\ UNCHANGED <<graph, row, pend, active, swept, notices, faults>>

(* Graph extends the subscription. *)
Patch ==
  /\ At("patch") /\ Live(sweep.sub)
  /\ graph' = [graph EXCEPT ![sweep.sub].left = TTL]
  /\ sweep' = [sweep EXCEPT !.step = "patched"]
  /\ UNCHANGED <<row, pend, active, swept, notices, faults>>

(* The audit entry is committed, then the row takes the new expiration.    *)
(* If the webhook has deleted it meanwhile, the UPDATE matches nothing:    *)
(* the flush raises, and the session refuses everything that follows, the  *)
(* final commit included.                                                  *)
PatchDone ==
  /\ At("patched")
  /\ IF Committed[sweep.box] # Nothing
     THEN /\ CommitRowsThen(sweep.box, [sub |-> sweep.sub, left |-> TTL])
          /\ sweep' = NextBox
     ELSE /\ CommitRows
          /\ sweep' = [Asleep EXCEPT !.step = "broken", !.todo = sweep.todo]
  /\ UNCHANGED <<graph, active, swept, notices, faults>>

(* Mutant: a 404 on renewal is an error like any other. *)
PatchNotFoundGivesUp ==
  /\ At("patch") /\ ~Live(sweep.sub)
  /\ CommitRows
  /\ sweep' = NextBox
  /\ UNCHANGED <<graph, active, swept, notices, faults>>

(* Graph does not know it: the failure is audited, the row deleted. *)
PatchNotFound ==
  /\ At("patch") /\ ~Live(sweep.sub)
  /\ CommitRowsThen(sweep.box, Deleted)
  /\ sweep' = [sweep EXCEPT !.step = "create", !.sub = Nothing]
  /\ UNCHANGED <<graph, active, swept, notices, faults>>

(* An id nobody refers to. *)
Unused(s) ==
  /\ ~Live(s) /\ s # sweep.sub
  /\ \A b \in Boxes : \A r \in {row[b], pend[b]} :
       r \in Row => r.sub # s
  /\ \A n \in notices : n.sub # s

(* Graph creates a subscription under an id that stands nowhere yet.  Ids  *)
(* have no meaning, so one of the unused stands for all of them.           *)
FreshId == CHOOSE s \in Subs : Unused(s)

Create ==
  /\ At("create") /\ \E s \in Subs : Unused(s)
  /\ graph' = [graph EXCEPT ![FreshId] = [box |-> sweep.box, left |-> TTL]]
  /\ sweep' = [sweep EXCEPT !.step = "created", !.sub = FreshId]
  /\ UNCHANGED <<row, pend, active, swept, notices, faults>>

(* Mutant: the answer to a creation is not recorded. *)
CreateDoneForgotten ==
  /\ At("created")
  /\ CommitRows
  /\ sweep' = NextBox
  /\ UNCHANGED <<graph, active, swept, notices, faults>>

CreateDone ==
  /\ At("created")
  /\ CommitRowsThen(sweep.box, [sub |-> sweep.sub, left |-> TTL])
  /\ sweep' = NextBox
  /\ UNCHANGED <<graph, active, swept, notices, faults>>

(* A 429, a 5xx, a refused token or no answer, before or after Graph did   *)
(* what was asked: audited and committed, and on to the next box.          *)
CallFails ==
  /\ Fault
  /\ \/ At("patch") \/ At("patched") \/ At("create") \/ At("created")
  /\ CommitRows
  /\ sweep' = NextBox
  /\ UNCHANGED <<graph, active, swept, notices>>

-----------------------------------------------------------------------------
(* Orphans: rows of users who are no longer active.                        *)

Orphan(b) == At("next") /\ sweep.todo = {} /\ b \in sweep.orphans
RestOrphans(b) == [sweep EXCEPT !.orphans = @ \ {b}]

(* Mutant: a row is only dropped when Graph still knew the subscription. *)
OrphanGoneIfLive(b) ==
  /\ Orphan(b)
  /\ row[b] # Nothing => Live(row[b].sub)
  /\ graph' = IF row[b] # Nothing
              THEN [graph EXCEPT ![row[b].sub] = Nothing] ELSE graph
  /\ CommitRowsThen(b, IF row[b] # Nothing THEN Deleted ELSE Same)
  /\ sweep' = RestOrphans(b)
  /\ UNCHANGED <<active, swept, notices, faults>>

(* Graph deletes it or never heard of it; then the row goes. *)
OrphanGone(b) ==
  /\ Orphan(b)
  /\ graph' = IF row[b] # Nothing
              THEN [graph EXCEPT ![row[b].sub] = Nothing] ELSE graph
  /\ CommitRowsThen(b, IF row[b] # Nothing THEN Deleted ELSE Same)
  /\ sweep' = RestOrphans(b)
  /\ UNCHANGED <<active, swept, notices, faults>>

(* Any error keeps the row: a 5xx as well as a 401, 403, 429 or other 4xx. *)
OrphanKept(b) ==
  /\ Fault /\ Orphan(b) /\ row[b] # Nothing
  /\ CommitRows
  /\ sweep' = RestOrphans(b)
  /\ UNCHANGED <<graph, active, swept, notices>>

End ==
  /\ At("next") /\ sweep.todo = {} /\ sweep.orphans = {}
  /\ CommitRows
  /\ sweep' = Asleep
  /\ swept' = TRUE
  /\ UNCHANGED <<graph, active, notices, faults>>

(* The sweep raises: nothing else of this firm, or of the firms after it,  *)
(* is visited in this period.                                              *)
Break ==
  /\ At("broken")
  /\ RollbackRows
  /\ sweep' = Asleep
  /\ swept' = TRUE
  /\ UNCHANGED <<graph, active, notices, faults>>

(* The process dies anywhere; systemd's timer starts the next one. *)
Crash ==
  /\ Fault /\ ~At("off")
  /\ RollbackRows
  /\ sweep' = Asleep
  /\ UNCHANGED <<graph, active, swept, notices>>

-----------------------------------------------------------------------------
(* Microsoft, the webhook, the administrator and the clock.                *)

(* Graph drops a subscription and may say so. *)
Drop(s) ==
  /\ Fault /\ Live(s)
  /\ graph' = [graph EXCEPT ![s] = Nothing]
  /\ notices' \in
       {notices, notices \cup {[kind |-> "subscriptionRemoved", sub |-> s]}}
  /\ UNCHANGED <<row, pend, active, sweep, swept>>

AskReauthorization(s) ==
  /\ Fault /\ Live(s)
  /\ notices' = notices \cup {[kind |-> "reauthorizationRequired", sub |-> s]}
  /\ UNCHANGED <<graph, row, pend, active, sweep, swept>>

(* The sweep has flushed its write of the row.  An orphan's delete is only *)
(* flushed by the commit.                                                  *)
Locked(b) == pend[b] # Same /\ ~(pend[b] = Deleted /\ At("next"))

(* The webhook finds the row by the subscription's id and writes it, after *)
(* waiting for the sweep's lock on it.  Unknown ids are dropped.           *)
Deliver(n) ==
  /\ n \in notices
  /\ notices' = notices \ {n}
  /\ LET known == {b \in Boxes : row[b] # Nothing /\ row[b].sub = n.sub} IN
     /\ \A b \in known : ~Locked(b)
     /\ row' = [b \in Boxes |->
          IF b \notin known THEN row[b]
          ELSE IF n.kind = "subscriptionRemoved" THEN Nothing
          ELSE [row[b] EXCEPT !.left = 0]]
  /\ UNCHANGED <<graph, pend, active, sweep, swept, faults>>

(* A notification that never arrives. *)
Lose(n) ==
  /\ n \in notices
  /\ notices' = notices \ {n}
  /\ UNCHANGED <<graph, row, pend, active, sweep, swept, faults>>

SetActive(u) ==
  /\ Fault
  /\ active' = IF u \in active THEN active \ {u} ELSE active \cup {u}
  /\ UNCHANGED <<graph, row, pend, sweep, swept, notices>>

Older(n) == IF n = 0 THEN 0 ELSE n - 1

(* A sweep period passes; expired subscriptions are gone.  A sweep takes   *)
(* seconds and a period half an hour, so no sweep is running.              *)
Tick ==
  /\ At("off") /\ swept
  /\ graph' = [s \in Subs |->
       IF ~Live(s) \/ graph[s].left = 1 THEN Nothing
       ELSE [graph[s] EXCEPT !.left = Older(@)]]
  /\ row' = [b \in Boxes |->
       IF row[b] = Nothing THEN Nothing ELSE [row[b] EXCEPT !.left = Older(@)]]
  /\ swept' = FALSE
  /\ UNCHANGED <<pend, active, sweep, notices, faults>>

SweepStep ==
  \/ Start \/ Patch \/ PatchDone \/ PatchNotFound
  \/ Create \/ CreateDone \/ End \/ Break
  \/ \E b \in Boxes : Visit(b) \/ OrphanGone(b)

SubNext ==
  \/ SweepStep \/ Tick \/ CallFails \/ Crash
  \/ \E b \in Boxes : OrphanKept(b)
  \/ \E s \in Subs : Drop(s) \/ AskReauthorization(s)
  \/ \E n \in notices : Deliver(n) \/ Lose(n)
  \/ \E u \in Users : SetActive(u)

SubSpec == SubInit /\ [][SubNext]_subVars

(* The timer starts the sweep and time passes. *)
FairSubSpec == SubSpec /\ WF_subVars(SweepStep) /\ WF_subVars(Tick)

-----------------------------------------------------------------------------
Steps == {"off", "next", "patch", "patched", "create", "created", "broken"}

Sweeps == [step : Steps, todo : SUBSET Boxes, orphans : SUBSET Boxes,
           box : Boxes \cup {Nothing}, sub : Subs \cup {Nothing}]

(* The values of the variables. *)
SubTypeOK ==
  /\ graph \in [Subs -> Remote \cup {Nothing}]
  /\ row \in [Boxes -> Row \cup {Nothing}]
  /\ pend \in [Boxes -> Row \cup {Same, Deleted}]
  /\ active \subseteq Users
  /\ sweep \in Sweeps
  /\ swept \in BOOLEAN
  /\ notices \subseteq
       [kind : {"subscriptionRemoved", "reauthorizationRequired"}, sub : Subs]
  /\ faults \in 0..MaxFaults

(* The subscriptions the database knows or the sweep is about to record. *)
Recorded(s) ==
  \/ \E b \in Boxes : Committed[b] # Nothing /\ Committed[b].sub = s
  \/ sweep.sub = s

(* A subscription nobody has a row for, whose notifications the webhook    *)
(* throws away, is the mark of a fault.  One crash can leave two: the one  *)
(* whose row waits for its commit and the one just created.                *)
StraysExplained ==
  Cardinality({s \in Subs : Live(s) /\ ~Recorded(s)}) <= 2 * faults

(* Without faults no subscription on record dies: the renewal buffer is    *)
(* wide enough for one sweep a period.                                     *)
NoGaps ==
  faults = 0 => \A b \in Boxes :
    Committed[b] # Nothing /\ At("off") => Live(Committed[b].sub)

(* Once the faults stop, every box of an active user is subscribed, with   *)
(* the row that lets the webhook accept its notifications.                 *)
Covered(b) == row[b] # Nothing /\ Live(row[b].sub) /\ graph[row[b].sub].box = b

EveryBoxCovered ==
  \A b \in Boxes :
    OwnerOf[b] \in active ~> Covered(b) \/ OwnerOf[b] \notin active

(* A deactivated user's mailbox is left alone in the end: no row, and no   *)
(* subscription, not even a stray one.                                     *)
Silent(b) == row[b] = Nothing /\ \A s \in Subs : Live(s) => graph[s].box # b

DeactivatedFallSilent ==
  \A b \in Boxes :
    OwnerOf[b] \notin active ~> Silent(b) \/ OwnerOf[b] \in active
=============================================================================
