# Coworker v3: a TLA+ verification project

Coworker is a service for accounting firms. It watches the mailboxes and calendars of a firm's staff through Microsoft
Graph, runs plugins (an agent loop around a language model) on what arrives, and puts what the plugins want to send into an
approval queue; approved e-mails become drafts in Outlook. Staff also chat with the model, which consults specialists. An
API process, a worker process and several one-shot sweeps started by systemd timers share a PostgreSQL database and a Redis
server.

The project models the parts whose correctness depends on interleavings, crashes, stale reads and lost messages. TLC checks
small instances; TLAPS proves the central invariants for every value of the constants. All paths below are under
`src/backend/coworker/` unless they say otherwise.

Contents: [inventory](#inventory), [modules](#modules-and-how-they-correspond-to-the-code), [runs](#runs-and-bounds),
[divergences](#where-code-and-documentation-disagree), [fairness](#fairness), [proofs](#proofs),
[left out](#what-is-not-modelled), [plan](#plan), [running](#running-it).

## Inventory

| Component | State it keeps | Operations | What makes it correct |
|---|---|---|---|
| Approval queue (`approval/items.py`, `api/routes/approval.py`) | rows of `approval_items`: status, required approvals, signatures, payload | create, approve, reject, edit, each in its own session | nothing leaves without the distinct signatures its policy asks for; a rejection is final |
| Dispatch sweep (`approval/dispatch.py`, `graph/mail.py`) | its loaded list, uncommitted outcomes, drafts in Outlook | load, create draft, record, fail | one draft per item unless a fault explains another; an approved item gets out |
| Audit log (`security/audit.py`) | hash chain per firm, advisory locks | append, commit, roll back, verify | one unbroken chain per firm, whatever sessions write to it |
| Plugin queue and workers (`workers/`) | Redis list, dedup claims, the worker loops | enqueue, BRPOP, claim, run | at most one run per message and claim; nothing lost without a fault |
| Agent loop and trace (`orchestrator/`), built-in tools and plugins (`orchestrator/builtin_tools/`, `plugins/`) | messages, totals, trace rows in the session's transaction | model call, tool call, budget and iteration stops | a final trace is complete, writes are traced and allowed, the budget is kept to a round, a run ends |
| Subscriptions (`graph/subscription_*.py`, `graph/subscriptions.py`) | `graph_subscriptions` rows, and what Microsoft holds | sweep: create, renew, delete; webhook: lifecycle events | active mailboxes are covered, deactivated ones fall silent, strays come from faults |
| Mail intake (`api/routes/webhooks.py`, `graph/missed_sweep.py`, `graph/subscription_backfill.py`) | missed marker and window of each row | notification, missed, backfill | what Microsoft failed to announce is recovered, once |
| Scheduled trigger (`plugins/scheduler.py`) | `last_fired_at` per installation | one sweep a minute | every tick fires, no plugin runs twice for one |
| Tokens (`graph/auth.py`, `graph/user_context.py`, `connectors/xpm_client.py`) | refresh and access token per user and per firm | read, refresh, rotate, store | the stored refresh token is the live one; rows and log are locked without a lasting circle |
| Sign-in (`api/routes/auth.py`, `security/oauth_state.py`) | OAuth states in Redis, user rows | start, callback, exchange, insert or update | a state buys one exchange, a person has one user row |
| Connectors (`connectors/`, `graph/mail.py`, `graph/calendar.py`, `graph/drive.py`), shadow mode, mailbox slots | the firm's flags, slots per mailbox, audit entries | guard, token, slot, request, pages, audit | every write is audited; shadow and sandbox mode hold; nobody waits in a circle for a slot |
| Chat and specialists (`chat/`, `api/routes/chat.py`, `api/routes/specialist.py`) | messages and traces of a turn, prompt versions | stream a turn, consult, edit a prompt | what a turn stores is complete and true; one version is active |
| Delivery tracking (`approval/delivery.py`) | `delivery_status` per item | bounce, four-hour confirmation | a bounced item stays failed |
| Rate limiting (`graph/rate_limit.py`, `connectors/rate_limit_redis.py`) | token bucket and semaphore per mailbox, sliding windows in Redis | acquire | never above the limits, a refusal's advice is right |
| Model client (`connectors/anthropic_client.py`) | none | call, stream, scrub | an answer or one of its errors, never half of each |
| Token meter | a counter in Redis | add | nothing passes it to the model client |
| Memory and knowledge graph, scrubbing and encryption, CLI, migrations, frontend | tables, texts, vectors | batch jobs, functions, views | see [what is not modelled](#what-is-not-modelled) |

**How they interact.** The webhook and the backfill and scheduler sweeps push events on the Redis list. Workers pop them and
run plugins; a plugin's approval tool inserts an approval item in the run's transaction. Requests of principals decide items.
The dispatch sweep posts the approved ones to Graph. The subscription sweep keeps the notifications coming that start it all.
Everything that talks to a service resolves a token first, which may refresh and store it. Nearly every such call appends
to the audit log and **commits the caller's session**, which is why outcomes that a sweep or a run has only flushed become
durable at the next call, or are lost with it. This coupling is in every module that has a session.

**What is hard here.** Reads without locks or versions under READ COMMITTED; writes that ride on a later commit; calls to a
service whose answer is lost after they took effect; row locks and advisory locks taken in different orders; refresh tokens that
work once, refreshed by sessions that read them long ago; at-most-once queueing (BRPOP before processing); claims that are never
released and expire; windows computed from a column that other processes move; streams that break after half an answer; one-shot
processes that die anywhere. `PROJECT.json` lists each hazard at its line.

## Modules and how they correspond to the code

| Module | Models | Abstracts |
|---|---|---|
| `DraftGate` | the promise of the approval queue: a draft leaves only with enough distinct votes | |
| `ApprovalQueue` | rows, requests as a read step and a commit step, the sweep with `pend` (flushed, uncommitted outcomes) and `locked` rows | payload texts to versions; confidence to whether it reaches the threshold |
| `AuditLog` | `append_audit` in three steps (ask, lock, insert), commit and rollback, `verify_chain` | SHA-256 to an operator `Hash` |
| `PluginQueue` | `enqueue`, `dequeue`, `claim`, the outcomes of `_run_one_plugin`, errors outside its `try`, crashes, expiry | a run to its outcome |
| `AgentRun` | the engine's loop, the executor around it, the filtered tool registry, every built-in tool and plugin by class, the trace in its transaction | texts and tokens to the cost of a reply; a tool to what it does: read, query, record, write |
| `Subscriptions` | `ensure_subscription` call by call, orphans, lifecycle notifications, the clock | time to sweep periods; a user's resource to a box |
| `MailIntake` | notifications delivered and dropped, the missed marker, `list_inbox`'s window, the backfill and its clearing of the marker | time to ticks longer than the grace; the queue and the workers to PluginQueue's outcome |
| `Scheduler` | `_sweep_firm`, `_maybe_fire`, `_fire`, the fan-out to all scheduled plugins | a cron expression to the set of times it names |
| `Tokens` | the refresh of a Graph and of a Xero token, sign-in, row lock, audit lock and PostgreSQL's victim | a token to the number of its issue |
| `ConnectorCalls` | the methods of the Graph, XPM, FuseSign and Teams clients: guard, token, slot, request, pages, audit | a method to a record of what tells it apart (`Ops`); data to good or bad |
| `ChatTurns` | `stream_chat` with its rounds, calls, consultations and one commit; prompt edits by the route and the seed command | texts; token counts to one per answer |
| `MC*` | instances for TLC | |
| `ApprovalProofs`, `QueueProofs`, `SessionProofs` (audit log and subscriptions), `SchedulerProofs`, `AgentProofs`, `ChatProofs`, `ConnectorProofs`, `IntakeProofs` | theorems and proofs | |

`ConnectorCalls` extends `Tokens`: a session there is one API request or one step of a run, from the rows it read when it began to
its last commit, and `Tokens` says what it may do to get its credential. The other modules meet at a state of their own
(`MailIntake` has a short version of `PluginQueue`'s workers, `AgentRun` is what `PluginQueue` calls a run).

Correspondence in detail is the `map` of `PROJECT.json`, definition by definition. Some conventions hold throughout:

* *Uncommitted state is a variable.* `pend` in `ApprovalQueue` and `Subscriptions`, `own` in `AuditLog`, `stamp` in `Scheduler`,
  `new` and `holds` of a session of `Tokens`, the `turn` of `ChatTurns` and what is flushed in `AgentRun` hold what a session has
  written and not committed. A crash drops it; another session does not see it. In `Subscriptions`, `CommitRowsThen(b, r)` is the
  pattern of the code: the Graph function commits the session with its audit entry, and the caller then flushes the new row.
* *A read that is used later is a step of its own.* A request of `ApprovalQueue` first copies the columns it checks into `call`,
  and commits later only the columns the handler assigns. The dispatch and the backfill sweeps keep the rows they loaded
  (`loaded`, `since`), a session of `Tokens` its token row (`row`) and the flags of its firm (`mode`), an editor the version it
  saw active (`prev`).
* *History variables* (`approvers`, `excess`, `grants`, `ended`, `cut`, `outrun`, `fired`, `runs`, `acts`, `broken`, `exchanges`,
  `chat`, `told`) record what happened for the properties. No guard reads them, apart from bounds.
* *Faults are counted.* Crashes, refused calls and lost answers need a fault each, up to `MaxFaults`; liveness then says what
  happens once they stop. `Fire`, `Claim` and the like are never bounded themselves.
* *Mutants.* Definitions introduced with "Mutant:" are the plausible bugs `PROJECT.json` tries on each property. No specification
  uses them.

Modelling decisions worth knowing:

* `MailIntake` keeps its own short version of the workers (`Work`, `WorkFails`) and lets `Renew` happen at any time, because
  `reauthorizationRequired` brings a renewal forward at any time. It never deletes a subscription row; `Subscriptions` does.
  `Clear` is the flush of a row's outcome and its commit in one: a crash between them leaves the row as a crash
  before the flush, and a marker written meanwhile waits for the row's lock.
* In `Subscriptions` a renewal whose row the webhook has deleted ends in the state `broken`: SQLAlchemy raises on an UPDATE that
  matches no row and the session then refuses every statement until it is rolled back, which the sweep never does.
* `Scheduler` assumes that a claim outlives the horizon (ticks that are enqueued twice are a minute apart, a claim lives a day).
* `/me/messages` covers all folders of a mailbox; that is Microsoft's behaviour and the reason for the `"other"` folder of
  `MailIntake`.
* The two providers differ in `Tokens` as they do in life: Xero redeems a refresh token once, Microsoft goes on redeeming the old
  one. One module serves both because the code paths differ only in the order in which they take the row and the log.
* `ConnectorCalls` has one kind of credential per behaviour (`via`, chosen in `Init`), since sessions that use different
  services share nothing but the audit lock, whose fairness `AuditLog` covers.
* The editors of `ChatTurns` lock as PostgreSQL does: retiring a version takes its row until the transaction ends, and an insert of a
  number waits for the transaction that has inserted it. The seed command (`Commands`) may find nothing to do and ends its
  transaction when its insert fails; the route always goes on and answers a conflict. The command goes through the specialists in one
  order and the route edits one, so the prompts of several specialists add no circle of waits.
* A dispatch of `ApprovalQueue` that fails commits what is pending only where the failure is audited (`MarkFailed`): an answer or a
  payload that cannot be read is not.
* `AgentRun` looks at one run. Its session commits in the middle whenever a tool calls Graph; a rollback afterwards takes only
  what came after the last of these commits.

## Runs and bounds

| Run | Instance | Shows |
|---|---|---|
| `approval_races` | 1 item, 3 requests, two principals, all categories and overrides, two faults | no interleaving gets a draft out without its signers; further drafts are explained; the queue implements `DraftGate` |
| `approval_batch` | 2 items in one sweep, 2 requests, one fault | with outcomes that commit with each other's calls, approved items still get out |
| `audit_chain` | 3 firms, two of them with one lock key, 3 sessions, 3 entries | one chain per firm, accepted by `verify_chain`; later commits sort later; every waiter is served |
| `queue_runs` | 2 plugins, 2 workers, a message announced twice, a manual event, a fault and an expiry | one run per claim, one result per run, nothing lost silently, every listener gets its turn |
| `agent_runs` | the built-in plugins, all tools, 2 iterations of 2 tool uses, 1 switch of shadow mode or dry run | a final trace is complete, every draft is traced, the budget is kept to a round, flags hold, the run ends |
| `subscription_sweep` | 2 boxes of 2 users, 8 ids, 3 faults | strays and gaps come from faults; coverage and silence in the end |
| `intake_recovery` | 1 message, 1 draft, 4 ticks, 1 update (announced or dropped), 1 fault | a backfill steps over no missed message and clears no marker early; a marked message is recovered |
| `scheduler_ticks` | 2 plugins that share a tick, 2 toggles, 1 crash | no tick skipped, none run twice, every tick fires |
| `connector_calls` | 2 sessions, 1 slot, a user's or the firm's tokens or a key, 3 refresh tokens, 2 sign-ins, 1 fault, 1 switch | writes are audited, the stored token works, a state buys one exchange, no circle through a slot, shadow and sandbox mode hold |
| `chat_turns` | 1 turn of 2 rounds of 2 calls, 2 edits by the route and 1 by the seed command, a prompt that has a version or not, 1 fault | stored turns are complete and true, the prompt keeps one active version, no editor waits for ever |

`approval_veto` and `intake_renewal` must be found violated; see the next section. One run per component checks safety and
liveness together, so each uses the fair specification and, but for `approval_races`, no symmetry. `connector_calls` has no
liveness property and no fairness.

Why the bounds are enough.

* The races of the approval queue need an earlier read and two other steps on the same row: three request slots beside the sweep,
  or two for the batch.
* A chain breaks with two writers; the third shows the lock handed on, and two firms under one lock key beside a third firm give
  writers that wait for another firm and writers that do not. Duplicate deliveries need two workers.
* A run of `AgentRun` differs from a longer one after two iterations only in its counters; with two tool uses per reply a write is
  followed by a query that commits it, or preceded by one. The budgets are cut to 3, 9, 1 and 0, so that two replies of up to 2
  cents use one up exactly, overshoot it, or leave it.
* A stray subscription needs one crash and a crash leaves two at most, so eight ids never run out under three faults; a new
  subscription takes one chosen id of the unused ones, since ids carry no meaning (`FreshId`). `TTL = 3` and `Buffer = 1` keep the
  order `0 < Buffer < TTL` of 70 hours and 12 hours, with a period in which nothing is due.
* `ClaimTTL = 2` of `MaxTime = 3` lets a claim expire within the window, and the grace stays shorter than it, as five minutes to a
  day; the draft is the other item that moves the backfill's window, and a dropped update marks the row while the message is still
  to come. `Top` is the number of messages: with `Top = 1` TLC finds `BackfillKeepsWindow` violated, see the divergences.
* Two sessions make every circle of waits that `SlotsNeverInCircle` speaks of, one slot makes them compete for it, and two tokens
  after the first let both refresh, or one refresh and a sign-in overlap. The second sign-in is the double callback and the second
  first sign-in of one person.
* Two editors race for a number; the third commits between the read and the commit of both. One turn is enough since turns share
  nothing with each other but the database, to which each writes only rows of its own.

Every constant that bounds a run is named `Max...` in its module. The theorems hold for all values of these constants.

`CHECK_DEADLOCK FALSE` is given where the system comes to rest: all items decided, the run over, all counted faults used, the clock
at its bound.

## Where code and documentation disagree

Two of these are runs that TLC must find violated; `PROJECT.json` quotes the lines.

| Run | Property | The code |
|---|---|---|
| `approval_veto` | `RejectionIsTerminal` | an approve that read the row as pending overwrites a committed rejection |
| `intake_renewal` | `MissedMailRecoverable` | a renewal moves the window past a missed message |

What nevertheless holds is stated beside each: a stale approve can undo a rejection, but only while it is in flight
(`SettledRejectionIsFinal`), and never gets a draft out without its signers (`EnoughSigners`); a renewal is the only thing that
overtakes a missed message (`BackfillKeepsWindow`).

The models have further divergences in their actions, without a run of their own.

Approvals and sweeps:

* two concurrent approvals keep one signature, though `db/models/approval.py:102` says that each `approve()` appends (`CommitApprove` of
  `ApprovalQueue` writes the list it read);
* an edit that read the item as pending lands after its approval, or between two signatures (`approval/items.py:343` against `:357`);
* an orphan's delete that Graph refuses with a 4xx keeps the row, which `graph/subscription_sweep.py:285` says is dropped
  (`OrphanKept`);
* a failed flush stops the sweep for everyone after it, against `graph/subscription_sweep.py:10` (`PatchDone` and `Break`);
* the backfill's window may be longer than the life of a claim, so a message served a day earlier runs again, against
  `workers/dedup.py:14-22`; so does one that is read or flagged a day later (`Window`, `Update` and `Claimed` of `MailIntake`);
* the marker of a calendar subscription is cleared after a listing of mail, against `db/models/graph_subscriptions.py:88` (`List`);
* the backfill takes drafts and sent mail for received mail, against `graph/mail.py:216` (`Window`), and lists at most 100 messages
  before it clears the marker;
* after a gap the oldest tick fires, and then each of the others in its own minute (`Due` of `Scheduler`, `EveryTickFires`), as the
  comment in `tests/integration/test_plugin_scheduler.py:317-319` has it, against "ONE event for the most recent eligible tick" in
  `plugins/scheduler.py:17-19` and in that test's docstring.

The agent loop and its plugins:

* `meeting_prep` has the triggers `scheduled` and `manual`, but `workers/processor.py:201` makes a Graph context only for mail and
  calendar events: its calendar tools always return an error (`Calls` of `AgentRun`);
* `plugins/builtin/delivery_status_handler.py:50-53` wants e-mail read-only, but the filter goes by category: it is offered the tools
  that draft, propose and mark as well (`Offered`);
* an error of the database in a tool leaves a session that refuses every statement, and the run dies with its trace, though tool
  errors are said to go back to the model (`Die`);
* `connectors/shadow_mode.py` promises the live row and "no stale snapshot", but the firm is loaded once per run or request
  (`Load` of `ConnectorCalls`, `Begin` of `AgentRun`); and its lines 17-22 let every published write method call the guard first, which
  FuseSign's `register_webhook` does not (`RegisterWebhook`);
* the token meter is never wired: neither `chat/orchestrator.py:253` nor `workers/processor.py:62` passes one, against the comment at
  `connectors/anthropic_client.py:173`.

Tokens, sign-in, connectors:

* a Graph refresh locks the log and then the row, a sign-in the row and then the log; PostgreSQL aborts one of the two, whose failure
  nobody audits although `graph/context.py` says the helper has committed its audit entry (`Victim` of `Tokens`);
* two first sign-ins of one person at once end in the 409 that is meant for a person of another firm (`api/routes/auth.py:303-320`,
  `Conflict`);
* of two XPM sessions that refresh at once, the loser presents a used token and reports that the firm has to connect again
  (`Rejected`);
* an answer that cannot be parsed and a list of too many pages are errors nobody audits (`Unparsed`), as is a key that is missing
  (`NoKey`).

Chat:

* the text of a round whose stream breaks is dropped, though the docstring at
  `src/backend/tests/integration/test_chat_orchestrator.py:918-920` has "whatever was assembled" stored (`ModelFails` of `ChatTurns`);
* the tokens of a failed consultation are not counted, against `chat/orchestrator.py:25-26` (`ConsultationFails`);
* the messages of the user and of the assistant share `created_at` and have no defined order (`db/models/chat.py:98`); an empty answer is
  left out of the history, so two messages of the user may follow each other;
* a client that disconnects takes the whole turn with it, its own message included (`Drop`);
* a prompt edit made on an old text overwrites another's (`specialist` routes, `Save`), and a turn has no bound on its rounds
  (`chat/orchestrator.py:297`).

## Fairness

* `ApprovalQueue`, `Subscriptions`, `MailIntake`, `Scheduler`: weak fairness of the sweep's steps as a whole. systemd timers (1, 30, 5
  and 1 minutes, `infra/systemd/*.timer`) start the process again whatever became of the last one, and a started process runs on. It
  is not assumed that a Graph call succeeds; the number of failures is bounded instead, and a liveness property says what happens
  after the last one.
* `Subscriptions` also: the clock goes on.
* `PluginQueue`, `MailIntake`: weak fairness of each worker, or of serving each queued item. The loop never ends by itself and systemd
  restarts it; the list is first in, first out.
* `AgentRun`: the run goes on until it ends or dies; model and tool calls time out.
* `AuditLog`: a session ends its transaction, and a waiter whose lock keeps coming free gets it, since PostgreSQL queues waiters in
  order.
* `ChatTurns`: weak fairness of each editor, for the steps after its read. PostgreSQL wakes the one that waits for a row or for a
  number as soon as the other transaction ends, and an editor that runs has nothing else to wait for. There is none of turns: the
  loop of a turn has no bound (`chat/orchestrator.py:297`; `MaxRounds` only bounds the model), so nothing is claimed of its end.

No fairness is assumed of requests, Microsoft, operators or faults, and none at all in `ConnectorCalls`.

## Proofs

The theorems state every invariant and every action property that a passing run checks, and the refinement of `DraftGate`; only
liveness is left to TLC. Each proof module extends the module it is about (`SessionProofs` two of them) and has the same outline:
the invariant holds initially, one lemma per action (or per kind of action) says that it is kept, and a theorem combines them; the
properties follow from the invariant.

* `ApprovalProofs`: `TypeCorrect`; `GateInvariant`, the inductive strengthening of `EnoughSigners`; `EnoughSignersHolds`;
  `QueueImplementsGate`, the refinement of `DraftGate`, step by step. `EnoughSigners` is not inductive: a request in flight carries
  a list of signatures it read earlier, and the sweep carries items it loaded earlier. `GateInv` adds that every list read or stored
  stands for committed approvals of distinct users (`SigsSigned`, `CallsSigned`) and that what a sweep loaded was authorised then
  (`LeavingAuthorised`). That authorisation lasts, although signatures can be lost, is `AuthorisationLasts`: the history of
  committed approvals only grows. `SentHasDraftHolds` and `ExtraDraftsHold` need another strengthening, `DraftInv`: whatever is
  sent, about to be, or just posted has a draft, and as long as an item can still be drafted without a new reason (`Draftable`: the
  sweep has still to dispatch it, its failure is about to be written, or its row is neither final nor about to become sent) every
  draft it has so far is accounted for, where the property alone would allow one more (`Accounted`). `RejectionFinal` proves the
  action property `SettledRejectionIsFinal`.
* `SessionProofs`, the audit log: `LogTypeCorrect`, `OneWriterHolds`, `ChainIntactHolds`, `HistoryClosedHolds`,
  `VerifyAcceptsHolds`, for any sessions, firms and lock keys. The invariant adds that a session with entries holds its firm's lock,
  that ids committed and inserted lie below the sequence, and that the entries a session would commit extend the chain. Nothing is
  assumed of `Hash`. `VerifyChain` states the loop of `verify_chain` by what each round compares, over any walk (`Walks`) through
  the entries in id order; `WalkLinked` shows that the newest of the older entries, which the chain speaks of, is the one before on
  the walk, for a finite log (`FiniteInvariant`). `WalkThere` shows that there is such a walk at every moment. It is the one proof
  by induction: a smallest log without a walk is refuted by the walk of all its entries but the oldest, where the least element
  comes from the library's theorem on well-founded relations (`LeastNatural`), which takes no operator.
* `SessionProofs`, the subscriptions: `SubInvariant`, `StraysExplainedHolds`, `NoGapsHolds`, for any boxes, users, ids, lifetimes
  and faults. The bound on strays is not inductive, since a commit might drop the record of a live subscription. `SubIInv` adds
  `SweepShape` (what the sweep has in hand at each step), `PendShape` (one row at a time waits for its commit, and never one still
  to be read) and `WorkSound` (while the sweep renews, the row names the subscription in hand, or is gone because Graph has dropped
  it; while it creates, there is no row). From these, a step without a fault adds no stray (`SweepStrays`), a failed call at most
  the subscription in hand, a crash that one and the one in the uncommitted row. `Steady` is the invariant behind `NoGaps`, under
  `faults = 0`: Graph's lifetime of a subscription is at least its row's, and a row the sweep is done with has more than the buffer
  left. `NoGaps` needs a buffer of at least one period, which `SubscriptionAssumption` states and `graph/subscription_sweep.py:7`
  asks of the deployment (12 hours against 30 minutes). `RowsNameTheirBoxHolds` says that a row never names a live subscription of
  another box, so that the webhook attributes a notification to the right user; its invariant (`RowsNamed`) covers committed and
  flushed rows and the subscription in hand.
* `QueueProofs`: `QueueTypeCorrect`, `OneRunPerClaimHolds`, `NothingLostSilentlyHolds`, `OneResultPerRunHolds`, for any workers,
  plugins and deliveries. The invariant is a ledger: for a slot with a token, the runs granted so far are the claims that have
  expired and, if there is one, the claim that is live. For `OneResultPerRun` the results of a pair and the workers that are running
  it now are together at most the runs granted (`ResultsBacked`).
* `SchedulerProofs`: `SchedulerTypeCorrect`, `NoTickSkippedHolds`, `DuplicatesExplainedHolds`, `OneRunPerTickHolds`. What the sweep
  has recorded for a plugin is its uncommitted stamp or, without one, `last_fired_at`; ticks up to there have been enqueued, at most
  once more than there were crashes, and ticks after it at most once per crash.
* `AgentProofs`: `AgentTypeCorrect`, `FinalTraceCompleteHolds`, `WritesTracedHolds`, `SpendBoundedHolds`, `WritesAllowedHolds`, for
  any plugin classes, iterations and costs. The session's trace has an order for every write Graph carried out and one more while a
  write is asked for; the audit entry of a write brings the committed trace up to it.
* `ChatProofs`: `ChatTypeCorrect`, `OneActiveVersionHolds`, `TurnRecordedHolds`, `ConsultedWasActiveHolds`, `DoneIsStoredHolds`, for
  any turns and editors. `OneActiveVersion` is not inductive: an editor retires what it read as active. `EditsNumbered` adds that
  its number lies in `1..n+1` for `n` versions, and that `n+1` means nobody has committed since; the unique number lets no other
  save.
* `ConnectorProofs`: `ConnectorTypeCorrect`, `DeadTokenExplainedHolds`, `StateUsedOnceHolds`, `ActsAuditedHolds`,
  `SlotsNeverInCircleHolds`, `ModeRespectedHolds`, for any sessions, slots and tokens. The centre of the invariant is that a token a
  session has been given and not committed is known to nobody else, so nobody can have used it up; that a session with a slot has
  nothing left to flush; and that whoever holds the row or the log is at one of a few steps.
* `IntakeProofs`: `IntakeTypeCorrect`, `BackfillKeepsWindowHolds`, `ClearedAfterCatchUpHolds`, for any items and folders. The latter
  two assume `OneListing`, that one listing holds the mailbox. The invariant orders the clocks (what the sweep read of a row is not
  ahead of the row, nor of the sweep's own time) and says that an open message the running backfill does not have on its list came
  after it began.

Assumptions are the named `ASSUME`s of the component modules; TLC evaluates them on every run. They say that special values differ
from the others, that sets counted with `Cardinality` are finite, and that the renewal buffer is at least one sweep period.

Only model-checked is liveness (`ApprovedReachesOutlook`, `WaiterServed`, `EveryPluginGetsItsTurn`, `RunEnds`, `EveryBoxCovered`,
`DeactivatedFallSilent`, `MarkedMailRuns`, `EveryTickFires`, `EditsEnd`), since fairness and `ENABLED` are out of the prover's
reach.

## What is not modelled

* Text and bytes: prompts, scrubbing of personal data, sanitising, encryption, MIME, the language model's answers. What matters in them
  is content.
* Memory and the knowledge graph: batch indexing and retrieval by embeddings, single-process jobs over texts and vectors.
* The token bucket and the sliding windows of the rate limiters: arithmetic over a clock that delays a call and changes no state
  elsewhere. The slots of a mailbox are modelled.
* Row-level security, which belongs to PostgreSQL; each module is one firm, `AuditLog` several.
* The four-hour confirmation sweep of delivery tracking, the session cookie, the JSON round trip of an audit payload, the check of a
  notification's `clientState`, conversations apart from their turns.
* Command line, deployment, migrations, frontend and the token meter that nothing calls.

`PROJECT.json` gives the reason for each component. Its `hazards` name with a note what no property covers: an edit that lands after
or between approvals, more than 100 messages in a backfill's window, the confirmation sweep against a bounce. Others it has no
property for and does not list: a session poisoned by a failed flush in the backfill (`graph/missed_sweep.py:197`), a message run again
because it is read a day later (`graph/subscription_bootstrap.py:93`), the sliding window's advice, which names the first full window
and not the one that frees last (`connectors/rate_limit_redis.py:78`), the order of chat messages (`db/models/chat.py:98`) and a turn's
unbounded rounds.

## Plan

Done, in this order: `DraftGate` and `ApprovalQueue` (the promise the product makes), `AuditLog` (what everything writes to),
`PluginQueue`, `Subscriptions`, `MailIntake`, `Scheduler`, then `AgentRun`, `Tokens` with `ConnectorCalls`, and `ChatTurns`; proofs for all
of them.

Left, most important first:

1. `DeliveryTracking`: `mark_delivery_failed` inside a long run against `sweep_delivery_confirmation`, two items, a bounce at any time.
   Property: a bounced item stays failed; every sent item settles.
2. `EventFlow`: `MailIntake` over an `INSTANCE` of `PluginQueue`, showing that the short workers of `MailIntake` are what `PluginQueue`
   promises; an abstract `Inbox` (each message is reacted to, at most once per claim) that it refines outside the listed divergences.
3. `SlidingWindow` (the Lua script as an operator over event lists, checked against "no window ever above its capacity" and
   "waiting the advised time is enough") and the token bucket of a mailbox with its waiters.
4. The cursors of the memory indexer and of the knowledge graph's sync, if a job may overlap with itself.

Extensions: the payload's version at each signature in `ApprovalQueue`; deletion of the row in `MailIntake`.

Theorems to come: `BackfillKeepsWindow` and `ClearedAfterCatchUp` for mailboxes of several listings, with the divergence of
`List` as the exception; a refinement of `PluginQueue` to an abstract at-most-once queue.

## Running it

    tlc -config ApprovalRaces.cfg MCApprovalQueue.tla
    tlapm ApprovalProofs.tla

Each `.cfg` names what it instantiates in its first line; `PROJECT.json` pairs configurations with modules.
