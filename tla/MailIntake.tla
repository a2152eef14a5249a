------------------------------ MODULE MailIntake ------------------------------
(***************************************************************************)
(* How the mail and the events of one user reach the plugins: by a change  *)
(* notification or, when Microsoft reports notifications it dropped, by    *)
(* the backfill sweep, which lists the mailbox since the subscription was  *)
(* last renewed and enqueues what it finds.  Only the claims of            *)
(* PluginQueue stand between the two ways and a second run.                *)
(*                                                                         *)
(* One plugin, one user, a row per subscribed folder.  A tick is a stretch *)
(* of time longer than the grace of five minutes that the backfill's       *)
(* window gives, so a message of the tick of the renewal is inside it.     *)
(***************************************************************************)
EXTENDS Naturals, FiniteSets

CONSTANTS Items,
          FolderOf,     \* where each item lies: "inbox", "calendar" or, a
                        \* draft or sent mail, "other"
          Folders,      \* the folders with a subscription
          Never, None,
          ClaimTTL,     \* dedup.DEFAULT_TTL, in ticks
          Top,          \* how many messages one backfill lists
          MaxTime, MaxUpdates, MaxFaults  \* bounds

ASSUME IntakeAssumption ==
  /\ IsFiniteSet(Items)
  /\ Folders \subseteq {"inbox", "calendar"} /\ "inbox" \in Folders
  /\ FolderOf \in [Items -> {"inbox", "calendar", "other"}]
  /\ Never \notin Nat /\ None \notin Folders
  /\ ClaimTTL \in Nat \ {0} /\ Top \in Nat \ {0}
  /\ MaxTime \in Nat /\ MaxUpdates \in Nat /\ MaxFaults \in Nat

VARIABLES
  now,
  received, \* when each item came into the mailbox
  dropped,  \* items whose notification Microsoft never delivered
  due,      \* folders Microsoft has yet to report as missed
  row,      \* the subscription row of each folder
  queue,    \* how often each item is queued
  claimed,  \* when each item was last claimed
  runs,     \* history: how often the plugin ran for each item
  cut,      \* history: items a fault of a worker took
  outrun,   \* history: items a renewal moved out of the window unrecovered
  sweep,    \* the running backfill
  updates, faults

vars == <<now, received, dropped, due, row, queue, claimed, runs, cut, outrun,
          sweep, updates, faults>>

Mail == {i \in Items : FolderOf[i] \in {"inbox", "other"}}
Inbox == {i \in Items : FolderOf[i] = "inbox"}

Asleep == [at |-> Never, rows |-> {}, since |-> [f \in Folders |-> 0],
           folder |-> None, listed |-> {}, todo |-> {}]

Init ==
  /\ now = 0
  /\ received = [i \in Items |-> Never]
  /\ dropped = {}
  /\ due = {}
  /\ row = [f \in Folders |-> [renewed |-> 0, missed |-> FALSE]]
  /\ queue = [i \in Items |-> 0]
  /\ claimed = [i \in Items |-> Never]
  /\ runs = [i \in Items |-> 0]
  /\ cut = {}
  /\ outrun = {}
  /\ sweep = Asleep
  /\ updates = 0
  /\ faults = 0

Fault == faults < MaxFaults /\ faults' = faults + 1
Here(i) == received[i] # Never
Running == sweep.at # Never

(* A dropped item nothing has brought back yet. *)
Unrecovered(i) ==
  i \in dropped /\ runs[i] = 0 /\ queue[i] = 0 /\ i \notin cut

-----------------------------------------------------------------------------
(* Microsoft and the webhook.                                              *)

(* A new item, announced and enqueued. *)
Arrive(i) ==
  /\ ~Here(i) /\ FolderOf[i] \in Folders
  /\ received' = [received EXCEPT ![i] = now]
  /\ queue' = [queue EXCEPT ![i] = @ + 1]
  /\ UNCHANGED <<now, dropped, due, row, claimed, runs, cut, outrun, sweep,
                 updates, faults>>

(* A draft or sent mail: no subscription announces it. *)
File(i) ==
  /\ ~Here(i) /\ FolderOf[i] = "other"
  /\ received' = [received EXCEPT ![i] = now]
  /\ UNCHANGED <<now, dropped, due, row, queue, claimed, runs, cut, outrun,
                 sweep, updates, faults>>

(* A new item whose notification is dropped; a "missed" will follow. *)
ArriveUnseen(i) ==
  /\ ~Here(i) /\ FolderOf[i] \in Folders
  /\ received' = [received EXCEPT ![i] = now]
  /\ dropped' = dropped \cup {i}
  /\ due' = due \cup {FolderOf[i]}
  /\ UNCHANGED <<now, row, queue, claimed, runs, cut, outrun, sweep, updates,
                 faults>>

(* The item is read, flagged or announced again: the subscription asks for *)
(* updates too, and nothing looks at the change type. *)
Update(i) ==
  /\ Here(i) /\ FolderOf[i] \in Folders /\ updates < MaxUpdates
  /\ queue' = [queue EXCEPT ![i] = @ + 1]
  /\ updates' = updates + 1
  /\ UNCHANGED <<now, received, dropped, due, row, claimed, runs, cut, outrun,
                 sweep, faults>>

(* The announcement of an update is dropped: nothing to recover, but       *)
(* Microsoft will report it all the same.                                  *)
UpdateUnseen(f) ==
  /\ updates < MaxUpdates
  /\ due' = due \cup {f}
  /\ updates' = updates + 1
  /\ UNCHANGED <<now, received, dropped, row, queue, claimed, runs, cut, outrun,
                 sweep, faults>>

(* The webhook marks the row. *)
Missed(f) ==
  /\ f \in due
  /\ due' = due \ {f}
  /\ row' = [row EXCEPT ![f].missed = TRUE]
  /\ UNCHANGED <<now, received, dropped, queue, claimed, runs, cut, outrun,
                 sweep, updates, faults>>

(* The subscription sweep renews, at a time Subscriptions decides. *)
Renew(f) ==
  /\ row[f].renewed < now
  /\ row' = [row EXCEPT ![f].renewed = now]
  /\ outrun' = outrun \cup
       {i \in Items : FolderOf[i] = f /\ Unrecovered(i) /\ received[i] < now}
  /\ UNCHANGED <<now, received, dropped, due, queue, claimed, runs, cut, sweep,
                 updates, faults>>

Tick ==
  /\ now < MaxTime
  /\ now' = now + 1
  /\ UNCHANGED <<received, dropped, due, row, queue, claimed, runs, cut, outrun,
                 sweep, updates, faults>>

-----------------------------------------------------------------------------
(* The workers: PluginQueue's Dequeue, Claim, Deduped and run as one step. *)

Claimed(i) == claimed[i] # Never /\ now < claimed[i] + ClaimTTL

Work(i) ==
  /\ queue[i] > 0
  /\ queue' = [queue EXCEPT ![i] = @ - 1]
  /\ IF Claimed(i) THEN UNCHANGED <<claimed, runs>>
     ELSE /\ claimed' = [claimed EXCEPT ![i] = now]
          /\ runs' = [runs EXCEPT ![i] = @ + 1]
  /\ UNCHANGED <<now, received, dropped, due, row, cut, outrun, sweep, updates,
                 faults>>

(* A crash or an error between the dequeue and the run. *)
WorkFails(i) ==
  /\ Fault
  /\ queue[i] > 0
  /\ queue' = [queue EXCEPT ![i] = @ - 1]
  /\ cut' = cut \cup {i}
  /\ claimed' \in {claimed, [claimed EXCEPT ![i] = IF Claimed(i) THEN @ ELSE now]}
  /\ UNCHANGED <<now, received, dropped, due, row, runs, outrun, sweep, updates>>

-----------------------------------------------------------------------------
(* The backfill sweep.  A row's outcome is flushed, and committed by the   *)
(* next Graph call or the final commit; a crash in between leaves the row  *)
(* as a crash before the flush does, so Clear is both.                     *)

(* It reads the marked rows and takes its clock once. *)
Start ==
  /\ ~Running /\ \E f \in Folders : row[f].missed
  /\ sweep' = [Asleep EXCEPT
       !.at = now,
       !.rows = {f \in Folders : row[f].missed},
       !.since = [f \in Folders |-> row[f].renewed]]
  /\ UNCHANGED <<now, received, dropped, due, row, queue, claimed, runs, cut,
                 outrun, updates, faults>>

(* Mutant: no grace before the subscription's time. *)
WindowWithoutGrace(f) == {i \in Mail : Here(i) /\ received[i] > sweep.since[f]}

(* The messages after the cutoff, all folders of the mailbox alike. *)
Window(f) == {i \in Mail : Here(i) /\ received[i] >= sweep.since[f]}

(* The Top most recent of S. *)
Newest(S, L) ==
  /\ Cardinality(L) = IF Cardinality(S) < Top THEN Cardinality(S) ELSE Top
  /\ \A i \in L, j \in S \ L : received[i] >= received[j]

(* list_inbox: whichever row is marked, it is mail that is listed. *)
List(f) ==
  /\ Running /\ sweep.folder = None /\ f \in sweep.rows
  /\ \E L \in SUBSET Window(f) :
       /\ Newest(Window(f), L)
       /\ sweep' = [sweep EXCEPT !.rows = @ \ {f}, !.folder = f,
                                 !.listed = L, !.todo = L]
  /\ UNCHANGED <<now, received, dropped, due, row, queue, claimed, runs, cut,
                 outrun, updates, faults>>

Post(i) ==
  /\ Running /\ i \in sweep.todo
  /\ queue' = [queue EXCEPT ![i] = @ + 1]
  /\ sweep' = [sweep EXCEPT !.todo = @ \ {i}]
  /\ UNCHANGED <<now, received, dropped, due, row, claimed, runs, cut, outrun,
                 updates, faults>>

RowDone == [sweep EXCEPT !.folder = None, !.listed = {}, !.todo = {}]

(* Mutant: the next window starts when the row is written, not when the    *)
(* sweep began. *)
ClearAtTheEnd ==
  /\ Running /\ sweep.folder # None /\ sweep.todo = {}
  /\ row' = [row EXCEPT ![sweep.folder] =
       [renewed |-> IF sweep.listed = {} THEN @.renewed ELSE now,
        missed |-> FALSE]]
  /\ sweep' = RowDone
  /\ UNCHANGED <<now, received, dropped, due, queue, claimed, runs, cut, outrun,
                 updates, faults>>

(* The marker goes, a newer one included; the next window starts where the *)
(* sweep did, or stays when nothing was found. *)
Clear ==
  /\ Running /\ sweep.folder # None /\ sweep.todo = {}
  /\ row' = [row EXCEPT ![sweep.folder] =
       [renewed |-> IF sweep.listed = {} THEN @.renewed ELSE sweep.at,
        missed |-> FALSE]]
  /\ sweep' = RowDone
  /\ UNCHANGED <<now, received, dropped, due, queue, claimed, runs, cut, outrun,
                 updates, faults>>

(* Mutant: a row whose listing failed counts as caught up. *)
ListFailsAndClears(f) ==
  /\ Fault
  /\ Running /\ sweep.folder = None /\ f \in sweep.rows
  /\ sweep' = [sweep EXCEPT !.rows = @ \ {f}]
  /\ row' = [row EXCEPT ![f].missed = FALSE]
  /\ UNCHANGED <<now, received, dropped, due, queue, claimed, runs, cut, outrun,
                 updates>>

(* No token, no user or a Graph error: the marker stays for the next one. *)
ListFails(f) ==
  /\ Fault
  /\ Running /\ sweep.folder = None /\ f \in sweep.rows
  /\ sweep' = [sweep EXCEPT !.rows = @ \ {f}]
  /\ UNCHANGED <<now, received, dropped, due, row, queue, claimed, runs, cut,
                 outrun, updates>>

End ==
  /\ Running /\ sweep.folder = None /\ sweep.rows = {}
  /\ sweep' = Asleep
  /\ UNCHANGED <<now, received, dropped, due, row, queue, claimed, runs, cut,
                 outrun, updates, faults>>

(* The sweep dies; systemd's timer starts another. *)
Crash ==
  /\ Fault /\ Running
  /\ sweep' = Asleep
  /\ UNCHANGED <<now, received, dropped, due, row, queue, claimed, runs, cut,
                 outrun, updates>>

SweepStep ==
  \/ Start \/ Clear \/ End
  \/ \E f \in Folders : List(f)
  \/ \E i \in Items : Post(i)

Next ==
  \/ SweepStep \/ Tick \/ Crash
  \/ \E i \in Items : Arrive(i) \/ File(i) \/ ArriveUnseen(i) \/ Update(i)
                      \/ Work(i) \/ WorkFails(i)
  \/ \E f \in Folders : UpdateUnseen(f) \/ Missed(f) \/ Renew(f) \/ ListFails(f)

Spec == Init /\ [][Next]_vars

(* The timer starts the backfill, a started one goes on, and the workers   *)
(* serve the queue in the order of its list. *)
FairSpec == Spec /\ WF_vars(SweepStep) /\ \A i \in Items : WF_vars(Work(i))

-----------------------------------------------------------------------------
Times == 0..MaxTime

TypeOK ==
  /\ now \in Times
  /\ received \in [Items -> Times \cup {Never}]
  /\ dropped \subseteq Items
  /\ due \subseteq Folders
  /\ row \in [Folders -> [renewed : Times, missed : BOOLEAN]]
  /\ queue \in [Items -> Nat]
  /\ claimed \in [Items -> Times \cup {Never}]
  /\ runs \in [Items -> Nat]
  /\ cut \subseteq Items /\ outrun \subseteq Items
  /\ sweep \in [at : Times \cup {Never}, rows : SUBSET Folders,
                since : [Folders -> Times], folder : Folders \cup {None},
                listed : SUBSET Mail, todo : SUBSET Mail]
  /\ updates \in 0..MaxUpdates /\ faults \in 0..MaxFaults

(* A message that is still to be recovered stays inside the window of the  *)
(* next backfill: the backfill itself, which moves the window too, never   *)
(* steps over one, as long as one listing holds what the window holds.  A  *)
(* renewal may; see MissedMailRecoverable.                                 *)
BackfillKeepsWindow ==
  \A i \in Inbox :
    Unrecovered(i) /\ i \notin outrun /\ i \notin sweep.todo
      => received[i] >= row["inbox"].renewed

(* A marker is cleared only when what was missed up to the start of that   *)
(* sweep has been enqueued, whatever failed or crashed on the way; again   *)
(* as long as one listing holds the window.                                *)
ClearedAfterCatchUp ==
  [][row["inbox"].missed /\ ~row'["inbox"].missed =>
       /\ Running
       /\ \A i \in Inbox :
            Unrecovered(i) /\ received[i] < sweep.at => i \in outrun]_vars

(* A missed message that lies in the window of a marked row when no sweep  *)
(* runs is recovered, unless a renewal overtakes it or a worker loses it.  *)
Waiting(i) ==
  /\ Unrecovered(i) /\ ~Running
  /\ row["inbox"].missed /\ received[i] >= row["inbox"].renewed

MarkedMailRuns ==
  \A i \in Inbox : Waiting(i) ~> runs[i] > 0 \/ i \in outrun \cup cut

-----------------------------------------------------------------------------
(* What a comment says and the code does not keep.                         *)

(* webhooks.py: the backfill "reconciles by listing messages received      *)
(* since the last known good window and re-enqueueing them".  A message    *)
(* whose loss was reported is still within reach of a backfill.            *)
MissedMailRecoverable ==
  \A i \in Inbox :
    Unrecovered(i) /\ i \notin sweep.todo /\ row["inbox"].missed /\ ~Running
      => received[i] >= row["inbox"].renewed
=============================================================================
