---------------------------- MODULE ApprovalQueue ----------------------------
(***************************************************************************)
(* The approval queue: rows of approval_items, the HTTP requests that      *)
(* approve, reject and edit them, and the sweep that turns approved        *)
(* e-mail items into Outlook drafts.                                       *)
(*                                                                         *)
(* Every request runs in a session of its own under READ COMMITTED and     *)
(* reads its row without a lock or a version, so a request is two steps:   *)
(* the read with its checks, and the commit, which writes the columns the  *)
(* handler assigned and leaves the others to whoever wrote them last.  The *)
(* sweep loads a firm's items once, and its own writes stay uncommitted    *)
(* until the next Graph call commits the session.                          *)
(***************************************************************************)
EXTENDS Naturals, SequencesExt

CONSTANTS Items,        \* rows of approval_items
          Users,        \* principals of the firm
          Requests,     \* HTTP request slots, one session each
          Payloads,     \* versions of a payload
          Categories,   \* the categories plugins propose
          TwoPerson,    \* TWO_PERSON_REQUIRED_CATEGORIES
          Overrides,    \* explicit required_approvals values
          SYSTEM,       \* the synthetic signature of an auto-approval
          None,         \* no value
          MaxFaults     \* bound on failed dispatches, lost answers, crashes

ASSUME ConstAssumption ==
  /\ SYSTEM \notin Users
  /\ IsFiniteSet(Users)
  /\ Categories # {} /\ Payloads # {}
  /\ TwoPerson \subseteq Categories
  /\ Overrides \subseteq Nat
  /\ None \notin Items \cup Overrides
  /\ MaxFaults \in Nat

EmailDraft == "email_draft"
Statuses == {"absent", "pending", "approved", "rejected", "sent",
             "dispatch_failed"}
(* Mutant: the sweep also selects items it has already sent. *)
DispatchableAndSent == {"approved", "dispatch_failed", "sent"}

(* Mutant: the sweep does not pick up failed items again. *)
DispatchableOnce == {"approved"}

Dispatchable == {"approved", "dispatch_failed"}

Rows == [status : Statuses, category : Categories, required : Nat,
         confident : BOOLEAN, sigs : Seq(Users \cup {SYSTEM}),
         payload : Payloads]

Calls == [op : {"approve"}, user : Users, item : Items,
          sigs : Seq(Users \cup {SYSTEM})]
         \cup [op : {"reject"}, user : Users, item : Items]
         \cup [op : {"edit"}, user : Users, item : Items, payload : Payloads]

VARIABLES
  row,        \* the committed rows
  call,       \* the request each slot is serving, with what it read
  batch,      \* the rows the running sweep loaded; {} when none runs
  loaded,     \* each loaded row as the sweep read it
  todo,       \* items of the batch not yet dispatched
  posting,    \* the item whose draft Graph has created, or None
  pend,       \* the sweep's uncommitted outcomes
  locked,     \* rows the sweep has flushed and so holds locked
  faults,     \* failures so far
  drafts,     \* Outlook: the payloads of the drafts created per item
  approvers,  \* history: whose approve() has committed
  excess      \* history: reasons for a further draft of an item

rowVars == <<row, approvers>>
sweepVars == <<batch, loaded, todo, posting, pend, locked>>
vars == <<row, call, batch, loaded, todo, posting, pend, locked, faults,
          drafts, approvers, excess>>

AnyRow == [status |-> "absent", category |-> CHOOSE c \in Categories : TRUE,
           required |-> 0, confident |-> FALSE, sigs |-> <<>>,
           payload |-> CHOOSE p \in Payloads : TRUE]

Init ==
  /\ row = [i \in Items |-> AnyRow]
  /\ call = [r \in Requests |-> None]
  /\ batch = {} /\ todo = {} /\ locked = {}
  /\ loaded = [i \in Items |-> AnyRow]
  /\ pend = [i \in Items |-> "none"]
  /\ posting = None
  /\ faults = 0
  /\ drafts = [i \in Items |-> <<>>]
  /\ approvers = [i \in Items |-> {}]
  /\ excess = [i \in Items |-> 0]

-----------------------------------------------------------------------------
(* Creation and the three requests of a principal.                         *)

RequiredFor(c) == IF c \in TwoPerson THEN 2 ELSE 1

(* Mutant: create_approval auto-approves whatever the category requires. *)
CreateAnyConfident(i, c, override, confident, p) ==
  LET required == IF override = None THEN RequiredFor(c) ELSE override
  IN /\ row[i].status = "absent"
     /\ row' = [row EXCEPT ![i] =
          [status |-> IF confident THEN "approved" ELSE "pending",
           category |-> c, required |-> required, confident |-> confident,
           sigs |-> IF confident THEN <<SYSTEM>> ELSE <<>>, payload |-> p]]
     /\ UNCHANGED <<call, sweepVars, faults, drafts, approvers, excess>>

(* create_approval: born approved when one signature suffices and the      *)
(* plugin's confidence reaches the threshold, pending otherwise.           *)
Create(i, c, override, confident, p) ==
  LET required == IF override = None THEN RequiredFor(c) ELSE override
      auto == required = 1 /\ confident
  IN /\ row[i].status = "absent"
     /\ row' = [row EXCEPT ![i] =
          [status |-> IF auto THEN "approved" ELSE "pending",
           category |-> c, required |-> required, confident |-> confident,
           sigs |-> IF auto THEN <<SYSTEM>> ELSE <<>>, payload |-> p]]
     /\ UNCHANGED <<call, sweepVars, faults, drafts, approvers, excess>>

(* Mutant: a request does not check that its item is still pending. *)
BeginAnyStatus(r, c) ==
  /\ call[r] = None
  /\ row[c.item].status # "absent"
  /\ call' = [call EXCEPT ![r] = c]
  /\ UNCHANGED <<rowVars, sweepVars, faults, drafts, excess>>

(* Each request reads its row and checks it; a failed check answers 409    *)
(* and changes nothing, so it is no step.                                  *)
Begin(r, c) ==
  /\ call[r] = None
  /\ row[c.item].status = "pending"
  /\ call' = [call EXCEPT ![r] = c]
  /\ UNCHANGED <<rowVars, sweepVars, faults, drafts, excess>>

(* Mutant: approve lets one user sign twice. *)
BeginApproveAgain(r, u, i) ==
  Begin(r, [op |-> "approve", user |-> u, item |-> i, sigs |-> row[i].sigs])

BeginApprove(r, u, i) ==
  /\ u \notin Range(row[i].sigs)
  /\ Begin(r, [op |-> "approve", user |-> u, item |-> i, sigs |-> row[i].sigs])

BeginReject(r, u, i) == Begin(r, [op |-> "reject", user |-> u, item |-> i])

BeginEdit(r, u, i, p) ==
  Begin(r, [op |-> "edit", user |-> u, item |-> i, payload |-> p])

(* The UPDATE of a request waits for a row the sweep has locked. *)
Ready(r, op) ==
  /\ call[r] # None
  /\ call[r].op = op
  /\ call[r].item \notin locked

(* approve: one more signature than was read; approved when they suffice. *)
CommitApprove(r) ==
  /\ Ready(r, "approve")
  /\ LET i == call[r].item
         sigs == Append(call[r].sigs, call[r].user)
         enough == Len(sigs) >= row[i].required
         status == IF enough THEN "approved" ELSE row[i].status
     IN /\ row' = [row EXCEPT ![i] = [row[i] EXCEPT !.sigs = sigs,
                                                   !.status = status]]
        /\ approvers' = [approvers EXCEPT ![i] = @ \cup {call[r].user}]
        /\ excess' = IF enough /\ row[i].status \in {"sent", "rejected"}
                     THEN [excess EXCEPT ![i] = @ + 1] ELSE excess
  /\ call' = [call EXCEPT ![r] = None]
  /\ UNCHANGED <<sweepVars, faults, drafts>>

CommitReject(r) ==
  /\ Ready(r, "reject")
  /\ row' = [row EXCEPT ![call[r].item].status = "rejected"]
  /\ call' = [call EXCEPT ![r] = None]
  /\ UNCHANGED <<approvers, sweepVars, faults, drafts, excess>>

CommitEdit(r) ==
  /\ Ready(r, "edit")
  /\ row' = [row EXCEPT ![call[r].item].payload = call[r].payload]
  /\ call' = [call EXCEPT ![r] = None]
  /\ UNCHANGED <<approvers, sweepVars, faults, drafts, excess>>

(* The client goes away or the API stops: the session is rolled back. *)
Abandon(r) ==
  /\ call[r] # None
  /\ call' = [call EXCEPT ![r] = None]
  /\ UNCHANGED <<rowVars, sweepVars, faults, drafts, excess>>

-----------------------------------------------------------------------------
(* The dispatch sweep over one firm.                                       *)

(* What a commit of the sweep's session writes.  The unit of work sends    *)
(* only columns that differ from what was loaded: a second failure of the  *)
(* same item does not write its status again.                              *)
Flushed(i) ==
  CASE pend[i] = "sent" -> [row[i] EXCEPT !.status = "sent"]
    [] pend[i] = "failed" /\ loaded[i].status # "dispatch_failed"
         -> [row[i] EXCEPT !.status = "dispatch_failed"]
    [] OTHER -> row[i]

CommitPend == row' = [i \in Items |-> Flushed(i)]
NothingPending == [i \in Items |-> "none"]
NothingLoaded == [i \in Items |-> AnyRow]

SweepStart ==
  LET due == {i \in Items : /\ row[i].status \in Dispatchable
                            /\ row[i].category = EmailDraft}
  IN /\ batch = {}
     /\ due # {}
     /\ batch' = due /\ todo' = due
     /\ loaded' = [i \in Items |-> IF i \in due THEN row[i] ELSE AnyRow]
     /\ UNCHANGED <<rowVars, call, posting, pend, locked, faults, drafts,
                    excess>>

(* Mutant: an item that failed is recorded as if it had been sent. *)
DispatchFailAsSent(i, audited) ==
  /\ posting = None /\ i \in todo /\ faults < MaxFaults
  /\ faults' = faults + 1
  /\ todo' = todo \ {i}
  /\ CommitPend
  /\ pend' = [NothingPending EXCEPT ![i] = "sent"]
  /\ locked' = {}
  /\ UNCHANGED <<approvers, call, batch, loaded, posting, drafts, excess>>

(* The row is marked failed.  A failure that is audited first commits its  *)
(* audit row, and with it what is pending.                                 *)
MarkFailed(i, audited) ==
  IF audited
  THEN /\ CommitPend
       /\ pend' = [NothingPending EXCEPT ![i] = "failed"] /\ locked' = {}
  ELSE pend' = [pend EXCEPT ![i] = "failed"] /\ UNCHANGED <<row, locked>>

(* The item fails before Graph has created anything.  A bad payload, a     *)
(* missing user or token is not audited; a shadow-mode block or a Graph    *)
(* error is.                                                               *)
DispatchFail(i, audited) ==
  /\ posting = None /\ i \in todo /\ faults < MaxFaults
  /\ faults' = faults + 1
  /\ todo' = todo \ {i}
  /\ MarkFailed(i, audited)
  /\ UNCHANGED <<approvers, call, batch, loaded, posting, drafts, excess>>

(* Graph creates the draft, from the payload the sweep loaded.  Renewing   *)
(* the sender's token first commits the session.                           *)
PostDraft(i, renewed) ==
  /\ posting = None /\ i \in todo
  /\ posting' = i
  /\ drafts' = [drafts EXCEPT ![i] = Append(@, loaded[i].payload)]
  /\ IF renewed
     THEN CommitPend /\ pend' = NothingPending /\ locked' = {}
     ELSE UNCHANGED <<row, pend, locked>>
  /\ UNCHANGED <<approvers, call, batch, loaded, todo, faults, excess>>

(* The answer arrives: the audit row commits, then the row is flushed as   *)
(* sent and stays locked until the next commit.                            *)
DraftDone ==
  /\ posting # None
  /\ CommitPend
  /\ pend' = [NothingPending EXCEPT ![posting] = "sent"]
  /\ locked' = {posting}
  /\ todo' = todo \ {posting}
  /\ posting' = None
  /\ UNCHANGED <<approvers, call, batch, loaded, faults, drafts, excess>>

(* The answer is lost, or the PATCH after createReply fails, and this is   *)
(* audited; or the answer cannot be read, which is not.  The draft stays   *)
(* in Outlook and the row is marked failed.                                *)
DraftLost(audited) ==
  /\ posting # None /\ faults < MaxFaults
  /\ faults' = faults + 1
  /\ MarkFailed(posting, audited)
  /\ excess' = [excess EXCEPT ![posting] = @ + 1]
  /\ todo' = todo \ {posting}
  /\ posting' = None
  /\ UNCHANGED <<approvers, call, batch, loaded, drafts>>

SweepEnd ==
  /\ batch # {} /\ todo = {} /\ posting = None
  /\ CommitPend
  /\ batch' = {} /\ locked' = {} /\ pend' = NothingPending
  /\ loaded' = NothingLoaded
  /\ UNCHANGED <<approvers, call, todo, posting, faults, drafts, excess>>

(* The one-shot process dies: its uncommitted outcomes are rolled back. *)
SweepCrash ==
  /\ batch # {} /\ faults < MaxFaults
  /\ faults' = faults + 1
  /\ excess' = [i \in Items |->
       IF i = posting \/ pend[i] = "sent" THEN excess[i] + 1 ELSE excess[i]]
  /\ batch' = {} /\ todo' = {} /\ locked' = {} /\ posting' = None
  /\ pend' = NothingPending /\ loaded' = NothingLoaded
  /\ UNCHANGED <<rowVars, call, drafts>>

-----------------------------------------------------------------------------
SweepStep ==
  \/ SweepStart \/ DraftDone \/ SweepEnd
  \/ \E i \in Items, renewed \in BOOLEAN : PostDraft(i, renewed)

SweepFault ==
  \/ SweepCrash
  \/ \E audited \in BOOLEAN :
       DraftLost(audited) \/ \E i \in Items : DispatchFail(i, audited)

Request ==
  \E r \in Requests :
    \/ CommitApprove(r) \/ CommitReject(r) \/ CommitEdit(r) \/ Abandon(r)
    \/ \E u \in Users, i \in Items :
         \/ BeginApprove(r, u, i) \/ BeginReject(r, u, i)
         \/ \E p \in Payloads : BeginEdit(r, u, i, p)

Propose ==
  \E i \in Items, c \in Categories, o \in Overrides \cup {None},
     confident \in BOOLEAN, p \in Payloads : Create(i, c, o, confident, p)

Next == Propose \/ Request \/ SweepStep \/ SweepFault

Spec == Init /\ [][Next]_vars

(* systemd starts the sweep every minute and the process runs on. *)
FairSpec == Spec /\ WF_vars(SweepStep)
-----------------------------------------------------------------------------
(***************************************************************************)
(* Properties                                                              *)
(***************************************************************************)

(* The values of the columns, requests and sweep state. *)
TypeOK ==
  /\ row \in [Items -> Rows]
  /\ call \in [Requests -> Calls \cup {None}]
  /\ batch \in SUBSET Items /\ todo \in SUBSET batch /\ locked \in SUBSET batch
  /\ loaded \in [Items -> Rows]
  /\ posting \in todo \cup {None}
  /\ pend \in [Items -> {"none", "failed", "sent"}]
  /\ faults \in 0..MaxFaults
  /\ drafts \in [Items -> Seq(Payloads)]
  /\ approvers \in [Items -> SUBSET Users]
  /\ excess \in [Items -> Nat]

AutoApproved(i) == row[i].required = 1 /\ row[i].confident

Authorised(i) ==
  AutoApproved(i) \/ Cardinality(approvers[i]) >= row[i].required

(* However requests and sweeps interleave, an item that is approved, was   *)
(* tried or is sent, and every draft in Outlook, has approve() calls of as *)
(* many distinct users behind it as the item requires, unless one          *)
(* signature suffices and the plugin's confidence reached the threshold.   *)
EnoughSigners ==
  \A i \in Items :
    row[i].status \in {"approved", "sent", "dispatch_failed"}
      \/ drafts[i] # <<>> => Authorised(i)

(* A list of signatures that stands for that many committed approvals. *)
Signed(sigs, i) ==
  /\ Range(sigs) \subseteq approvers[i]
  /\ Len(sigs) = Cardinality(Range(sigs))

SigsSigned == \A i \in Items : AutoApproved(i) \/ Signed(row[i].sigs, i)

AbsentClean ==
  \A i \in Items :
    row[i].status = "absent" => approvers[i] = {} /\ drafts[i] = <<>>

(* An item on its way out. *)
Leaving(i) ==
  \/ row[i].status \in {"approved", "sent", "dispatch_failed"}
  \/ i \in batch
  \/ drafts[i] # <<>>

LeavingAuthorised ==
  \A i \in Items : Leaving(i) => Authorised(i) /\ row[i].status # "absent"

PendInBatch == \A i \in Items : pend[i] # "none" => i \in batch

CallSigned(c) ==
  /\ row[c.item].status # "absent"
  /\ c.op = "approve" =>
       \/ AutoApproved(c.item)
       \/ Signed(c.sigs, c.item) /\ c.user \notin Range(c.sigs)

CallsSigned == \A r \in Requests : call[r] # None => CallSigned(call[r])

(* The inductive form of EnoughSigners: what requests and the sweep carry  *)
(* over from earlier reads is backed by committed approvals too, although  *)
(* the list in the row may have lost some of them since.                   *)
GateInv ==
  SigsSigned /\ AbsentClean /\ LeavingAuthorised /\ PendInBatch /\ CallsSigned

(* A row says sent only when a draft of it is in Outlook. *)
SentHasDraft ==
  \A i \in Items : row[i].status = "sent" => drafts[i] # <<>>

(* An item gets a second draft only for a reason: a crash before the row   *)
(* was committed as sent, an answer of Graph that was lost, or an approve  *)
(* request that had read the row as pending and overwrote its later state. *)
ExtraDraftsExplained ==
  \A i \in Items : Len(drafts[i]) <= 1 + excess[i]

(* The ways an item has to a further draft that no reason has been counted *)
(* for yet: the sweep has still to dispatch it, its failure is about to be *)
(* written, or its row is neither final nor about to become sent.          *)
Draftable(i) ==
  \/ i \in todo /\ posting # i
  \/ pend[i] = "failed"
  \/ /\ row[i].status \notin {"sent", "rejected"}
     /\ posting # i /\ pend[i] # "sent"

Accounted(i) ==
  /\ row[i].status = "sent" \/ pend[i] = "sent" \/ posting = i
       => drafts[i] # <<>>
  /\ pend[i] # "none" => i \notin todo
  /\ Len(drafts[i]) <= 1 + excess[i]
  /\ Draftable(i) => Len(drafts[i]) <= excess[i]

(* The inductive form of SentHasDraft and ExtraDraftsExplained: whatever   *)
(* makes a row sent later has a draft already, and as long as an item can  *)
(* be drafted every draft of it so far is accounted for.                   *)
DraftInv == \A i \in Items : Accounted(i)

(* Nobody holds an older read of the item. *)
Settled(i) ==
  /\ i \notin batch
  /\ \A r \in Requests : call[r] # None => call[r].item # i

(* A rejection is final from the moment no request and no sweep is still   *)
(* working from a read made before it: no step changes the row or drafts   *)
(* it, and no new request or sweep picks it up.                            *)
SettledRejectionIsFinal ==
  [][\A i \in Items : row[i].status = "rejected" /\ Settled(i)
       => row'[i] = row[i] /\ drafts'[i] = drafts[i] /\ Settled(i)']_vars

(* Every approved e-mail item gets its draft, unless a racing rejection    *)
(* takes it back: dispatch_failed rows are retried on the next tick.       *)
ApprovedReachesOutlook ==
  \A i \in Items :
    (row[i].status \in {"approved", "dispatch_failed"}
       /\ row[i].category = EmailDraft)
    ~> (drafts[i] # <<>> \/ row[i].status = "rejected")

(* The queue implements the gate: votes are the committed approve() calls, *)
(* and an auto-approved item needs none.                                   *)
Gate == INSTANCE DraftGate WITH
  proposed <- {i \in Items : row[i].status # "absent"},
  needed <- [i \in Items |-> IF AutoApproved(i) THEN 0 ELSE row[i].required],
  votes <- approvers,
  emitted <- [i \in Items |-> Len(drafts[i])]

GateImplemented == Gate!GateSpec

(* items.py says of a rejection that it is terminal: any one reviewer can  *)
(* veto.                                                                   *)
RejectionIsTerminal ==
  [][\A i \in Items : row[i].status = "rejected"
                        => row'[i].status = "rejected"]_vars
=============================================================================
