--------------------------- MODULE ConnectorCalls ---------------------------
(***************************************************************************)
(* Calls of the connectors: shadow mode, the token, the slot of a mailbox, *)
(* the request and what may become of it, the audit entry.  One call per   *)
(* session, on a firm row and a token row read when the session began.     *)
(* The global bucket of the rate limiter lets a call through in the end    *)
(* and is left out; the data read is too.                                  *)
(***************************************************************************)
EXTENDS Tokens

CONSTANTS Slots,                    \* the limit per mailbox
          MaxPages, MaxToggles      \* bounds

-----------------------------------------------------------------------------
(* The methods: which credential they need, whether they write, whether    *)
(* the guard stands before them, and what reaches a client of the firm     *)
(* when the firm is a sandbox.                                             *)
ListInbox == [via |-> "graph", write |-> FALSE, guarded |-> FALSE,
              pages |-> FALSE, client |-> "none"]
GetAttachment == ListInbox
ListCalendar == ListInbox
ListDriveItems == ListInbox
DownloadDriveItem == ListInbox
MarkAsRead == [ListInbox EXCEPT !.write = TRUE, !.guarded = TRUE]

ListClients == [ListInbox EXCEPT !.via = "xero", !.pages = TRUE]
ListJobs == ListClients
ListInvoices == ListClients
ListRelationships == ListClients
GetClient == [ListClients EXCEPT !.pages = FALSE]
GetInvoice == GetClient
CreateClientNote == [GetClient EXCEPT !.write = TRUE, !.guarded = TRUE]

ListEnvelopes == [ListInbox EXCEPT !.via = "key"]
GetEnvelope == ListEnvelopes
CreateEnvelope == [ListEnvelopes EXCEPT !.write = TRUE, !.guarded = TRUE,
                                        !.client = "rerouted"]
SendReminder == [CreateEnvelope EXCEPT !.client = "skipped"]
RegisterWebhook == [ListEnvelopes EXCEPT !.write = TRUE]
SendTeamsMessage == [RegisterWebhook EXCEPT !.guarded = TRUE]

Ops == {ListInbox, GetAttachment, ListCalendar, ListDriveItems,
        DownloadDriveItem, MarkAsRead, ListClients, ListJobs, ListInvoices,
        ListRelationships, GetClient, GetInvoice, CreateClientNote,
        ListEnvelopes, GetEnvelope, CreateEnvelope, SendReminder,
        RegisterWebhook, SendTeamsMessage}

ASSUME ConnectorAssumption ==
  /\ Slots \in Nat \ {0} /\ MaxPages \in Nat \ {0} /\ MaxToggles \in Nat
  /\ None \notin Ops

VARIABLES
  mode,       \* the flags that are set for the firm
  toggles,
  acts        \* history: sessions whose write has no committed entry yet

callVars == <<mode, toggles, acts>>
vars == <<tokenVars, callVars>>

Modes == SUBSET (IF via = "key" THEN {"shadow", "sandbox"} ELSE {"shadow"})

Init ==
  /\ TokenInit
  /\ mode \in Modes /\ toggles = 0
  /\ acts = {}

(* The step of a session that changes nothing of its token. *)
Keep == UNCHANGED <<Provider, SignIns, stored, users, lock, faults>>

-----------------------------------------------------------------------------
(* The firm and the token row are read. *)
Load(s, op) ==
  /\ At(s, "idle") /\ op.via = via /\ users > 0
  /\ sess' = [sess EXCEPT ![s] =
       [@ EXCEPT !.pc = IF via = "graph" THEN "token" ELSE "guard",
                 !.op = op, !.mode = mode, !.seen = toggles, !.row = stored]]
  /\ Keep /\ UNCHANGED callVars

(* Or the session serves the callback of a sign-in. *)
LoadSignIn(s) ==
  /\ At(s, "idle") /\ via = "graph" /\ starts > 0
  /\ Goto(s, "state")
  /\ Keep /\ UNCHANGED callVars

Called(s, pc) == At(s, pc) /\ sess[s].op # None

(* Mutant: the guard looks at the sandbox flag. *)
BlockedInSandbox(s) == sess[s].op.guarded /\ "sandbox" \in sess[s].mode

(* By the flag the session read. *)
Blocked(s) == sess[s].op.guarded /\ "shadow" \in sess[s].mode

GuardBlocks(s) ==
  /\ Called(s, "guard") /\ Blocked(s)
  /\ AuditThen(s, "over")
  /\ Keep /\ UNCHANGED callVars

(* A reminder of a sandbox firm ends here. *)
GuardPasses(s) ==
  /\ Called(s, "guard") /\ ~Blocked(s)
  /\ Goto(s, IF sess[s].op.client = "skipped" /\ "sandbox" \in sess[s].mode
             THEN "over"
             ELSE IF via = "graph" THEN "slot" ELSE "token")
  /\ Keep /\ UNCHANGED callVars

TakeSlot(s) ==
  /\ Called(s, "slot")
  /\ Cardinality({o \in Sessions : sess[o].slot}) < Slots
  /\ sess' = [sess EXCEPT ![s].pc = "send", ![s].slot = TRUE]
  /\ Keep /\ UNCHANGED callVars

-----------------------------------------------------------------------------
(* A write is carried out; a client hears of it unless the recipients were *)
(* replaced.                                                               *)
Acts(s) == acts' = IF sess[s].op.write THEN acts \cup {s} ELSE acts
Reaches(s) ==
  sess[s].op.write /\ sess[s].op.client # "none" /\ "sandbox" \notin sess[s].mode

(* The service answers, and the slot is free. *)
Served(s) ==
  /\ Called(s, "send")
  /\ Acts(s)
  /\ sess' = [sess EXCEPT ![s].pc = "parse", ![s].slot = FALSE,
                          ![s].client = Reaches(s),
                          ![s].page = IF sess[s].op.pages THEN @ + 1 ELSE @]
  /\ Keep /\ UNCHANGED <<mode, toggles>>

(* An error status: not found, not authorised, too many, server error. *)
Refused(s) ==
  /\ Called(s, "send")
  /\ sess' = [sess EXCEPT ![s].pc = "audit", ![s].then = "over", ![s].slot = FALSE]
  /\ Keep /\ UNCHANGED callVars

(* Mutant: only an answer is audited. *)
NetworkFailsUnheard(s) ==
  /\ Called(s, "send")
  /\ sess' = [sess EXCEPT ![s] = Ended]
  /\ \/ acts' = acts
     \/ sess[s].op.write /\ Acts(s)
  /\ Keep /\ UNCHANGED <<mode, toggles>>

(* The network fails, before the service has acted or after.  The failure  *)
(* is audited with the slot still held.                                    *)
NetworkFails(s) ==
  /\ Called(s, "send")
  /\ \/ AuditThen(s, "over") /\ acts' = acts
     \/ /\ sess[s].op.write /\ Acts(s)
        /\ sess' = [sess EXCEPT ![s].pc = "audit", ![s].then = "over",
                                ![s].client = Reaches(s)]
  /\ Keep /\ UNCHANGED <<mode, toggles>>

(* The answer makes sense: another page is asked for, with the token       *)
(* looked at again, or the call is audited.                                *)
Parsed(s) ==
  /\ Called(s, "parse")
  /\ \/ AuditThen(s, "over")
     \/ /\ sess[s].op.pages /\ sess[s].page < MaxPages
        /\ Goto(s, "token")
  /\ Keep /\ UNCHANGED callVars

(* It does not, or there are too many pages: an error nobody audits. *)
Unparsed(s) ==
  /\ Called(s, "parse")
  /\ Goto(s, "over")
  /\ acts' = acts \ {s}
  /\ Keep /\ UNCHANGED <<mode, toggles>>

(* The entry of a call that acted is on record with its commit. *)
Recorded(s) ==
  acts' = IF At(s, "commit") THEN acts \ {s} ELSE acts

Die(s) ==
  /\ TokenDie(s)
  /\ acts' = acts \ {s}
  /\ UNCHANGED <<mode, toggles>>

(* The firm graduates from shadow mode, goes back, or becomes a sandbox. *)
Toggle ==
  /\ toggles < MaxToggles
  /\ toggles' = toggles + 1
  /\ mode' \in Modes \ {mode}
  /\ UNCHANGED <<tokenVars, acts>>

CallStep(s) ==
  \/ \E op \in Ops : Load(s, op)
  \/ LoadSignIn(s) \/ GuardBlocks(s) \/ GuardPasses(s) \/ TakeSlot(s)
  \/ Served(s) \/ Refused(s) \/ NetworkFails(s) \/ Parsed(s) \/ Unparsed(s)

Step(s) ==
  \/ CallStep(s)
  \/ TokenStep(s) /\ Recorded(s) /\ UNCHANGED <<mode, toggles>>

Next ==
  \/ \E s \in Sessions : Step(s) \/ Die(s)
  \/ World /\ UNCHANGED callVars
  \/ Toggle

Spec == Init /\ [][Next]_vars

-----------------------------------------------------------------------------
Pcs == {"idle", "token", "flush", "audit", "commit", "state", "exchange",
        "guard", "slot", "send", "parse", "over"}

SessionStates ==
  [pc : Pcs, op : Ops \cup {None}, mode : SUBSET {"shadow", "sandbox"},
   seen : 0..MaxToggles, row : Rows, new : Rows, then : Pcs, page : Nat,
   holds : BOOLEAN, slot : BOOLEAN, client : BOOLEAN]

TypeOK ==
  /\ via \in Vias /\ mode \in Modes /\ toggles \in 0..MaxToggles
  /\ stored \in Rows /\ users \in Nat
  /\ dead \subseteq Issued /\ issued \in Issued /\ broken \in BOOLEAN
  /\ starts \in Nat /\ states \in Nat /\ exchanges \in Nat
  /\ sess \in [Sessions -> SessionStates]
  /\ lock \in Sessions \cup {None} /\ faults \in 0..MaxFaults
  /\ acts \subseteq Sessions

(* Every write a service carried out ends up in the audit log, as done or  *)
(* as failed, unless its session died in between or could not make sense   *)
(* of the answer.                                                          *)
ActsAudited == \A s \in acts : sess[s].pc \in {"parse", "audit", "commit"}

(* Nothing is written for a firm in shadow mode but the registration of    *)
(* the webhook, and no client hears from a sandbox firm, unless the flag   *)
(* was set after the session had read it.                                  *)
ModeRespected ==
  [][\A s \in Sessions : At(s, "send") /\ sess[s].seen = toggles =>
       /\ s \in acts' /\ "shadow" \in mode => sess[s].op = RegisterWebhook
       /\ sess'[s].client => "sandbox" \notin mode]_vars

(* A session that waits for the slot, the token row or the audit log waits *)
(* for one that holds it.  Circles of locks are broken by PostgreSQL; none *)
(* goes through the slot of a mailbox, which nothing would break.          *)
Full == Cardinality({o \in Sessions : sess[o].slot}) >= Slots
WaitsFor(s, o) ==
  \/ At(s, "audit") /\ lock = o /\ o # s
  \/ At(s, "flush") /\ Blocks(o, s)
  \/ At(s, "slot") /\ Full /\ sess[o].slot

SlotsNeverInCircle ==
  \A s, o \in Sessions : WaitsFor(s, o) /\ WaitsFor(o, s) => ~At(s, "slot")
=============================================================================
