------------------------------ MODULE AgentRun ------------------------------
(***************************************************************************)
(* One run of a plugin: the loop that calls the model and the tools it     *)
(* asks for, and the trace it keeps.  The steps of the trace and the       *)
(* approval items live in the transaction of the run's session; the audit  *)
(* entry of a Graph call commits that transaction in the middle of the     *)
(* run, and a draft posted to Outlook belongs to no transaction at all.    *)
(* Token counts are folded into the cost of a reply, texts are left out,   *)
(* and one read, one proposal and one Graph write stand for the tools.     *)
(***************************************************************************)
EXTENDS Naturals

CONSTANTS Classes,          \* the plugin classes that may run
          MaxIterations,    \* of the loop
          MaxCost,          \* cents: the dearest reply
          MaxUses,          \* tool uses in one reply
          None,
          MaxToggles        \* bound on the operator's switches

-----------------------------------------------------------------------------
(* The built-in tools by what they do: read the firm's tables, query Graph *)
(* with an audit entry, record rows in the session, or write to Graph.     *)
GetTodayDate == [category |-> "reasoning", effect |-> FALSE,
                 graph |-> FALSE, does |-> "read"]
GetFirmInfo == GetTodayDate
KgLookup == [GetTodayDate EXCEPT !.category = "kg"]
KgRelationships == KgLookup
MemoryQuery == [GetTodayDate EXCEPT !.category = "memory"]
EmailGetMessage == [category |-> "email", effect |-> FALSE,
                    graph |-> TRUE, does |-> "query"]
CalendarListEvents == [EmailGetMessage EXCEPT !.category = "calendar"]
EmailProposeDraft == [category |-> "email", effect |-> TRUE,
                      graph |-> TRUE, does |-> "record"]
MeetingBriefPropose == [EmailProposeDraft EXCEPT !.category = "calendar"]
MarkDeliveryFailed == [category |-> "approval", effect |-> TRUE,
                       graph |-> FALSE, does |-> "record"]
EmailCreateDraft == [category |-> "email", effect |-> TRUE,
                     graph |-> TRUE, does |-> "write"]
EmailMarkAsRead == EmailCreateDraft

Tools == {GetTodayDate, GetFirmInfo, KgLookup, KgRelationships, MemoryQuery,
          EmailGetMessage, CalendarListEvents, EmailProposeDraft,
          MeetingBriefPropose, MarkDeliveryFailed, EmailCreateDraft,
          EmailMarkAsRead}

(* The built-in plugins; mail says that a trigger of theirs may bring the  *)
(* Graph context of a user.                                                *)
SmartResponder == [categories |-> {"memory", "kg", "email", "reasoning"},
                   effects |-> TRUE, mail |-> TRUE, budget |-> 20]
DeliveryStatusHandler == [categories |-> {"email", "approval"},
                          effects |-> TRUE, mail |-> TRUE, budget |-> 5]
MeetingPrep == [categories |-> {"calendar", "memory", "kg", "reasoning"},
                effects |-> TRUE, mail |-> FALSE, budget |-> 30]
IndividualReturnPrep == [categories |-> {}, effects |-> FALSE,
                         mail |-> FALSE, budget |-> 0]

PluginClasses == [categories : SUBSET {t.category : t \in Tools},
                  effects : BOOLEAN, mail : BOOLEAN, budget : Nat]

ASSUME AgentAssumption ==
  /\ Classes \subseteq PluginClasses
  /\ None \notin Tools
  /\ MaxIterations \in Nat \ {0} /\ MaxCost \in Nat \ {0}
  /\ MaxUses \in Nat \ {0} /\ MaxToggles \in Nat

Final == {"completed", "max_iterations", "budget_exhausted", "failed"}

(* agent_traces with its steps: what each kind of step adds up to. *)
Traces == [status : {"none", "running"} \cup Final,
           cost : Nat,      \* total_cost_cents
           calls : Nat,     \* tool_call steps
           answers : Nat,   \* tool_result steps
           orders : Nat,    \* the tool_call steps that ask for a Graph write
           rows : Nat]      \* the approval rows made or marked by the run

NoTrace == [status |-> "none", cost |-> 0, calls |-> 0, answers |-> 0,
            orders |-> 0, rows |-> 0]

VARIABLES
  shadow,   \* firms.shadow_mode, as committed
  plugin,   \* the class, and of its installation: is it enabled and valid,
            \* is it a dry run
  run,      \* the locals of the run; seen counts the switches before it
  tx,       \* the trace as the run's session sees it
  db,       \* the trace as committed
  written,  \* how many writes of the run Graph has carried out
  unread,   \* history: those whose answer could not be parsed
  toggles

vars == <<shadow, plugin, run, tx, db, written, unread, toggles>>

Idle == [pc |-> "idle", iter |-> 0, spent |-> 0, todo |-> 0, tool |-> None,
         writes |-> FALSE, graph |-> FALSE, shadow |-> TRUE, seen |-> 0,
         status |-> None]

Init ==
  /\ shadow \in BOOLEAN
  /\ plugin \in [class : Classes, runnable : BOOLEAN, dry : BOOLEAN]
  /\ run = Idle
  /\ tx = NoTrace
  /\ db = NoTrace
  /\ written = 0
  /\ unread = 0
  /\ toggles = 0

(* A step is written and the totals of the trace go up. *)
Count(what, n) == [tx EXCEPT ![what] = @ + n]

World == <<shadow, plugin, toggles>>
Over == {"refused", "died", "done"}
Active == run.pc \notin Over \cup {"idle"}

-----------------------------------------------------------------------------
(* Not installed, disabled, or with a configuration the schema rejects: no *)
(* trace is started.                                                       *)
Refuse ==
  /\ run.pc = "idle" /\ ~plugin.runnable
  /\ run' = [run EXCEPT !.pc = "refused"]
  /\ UNCHANGED <<World, tx, db, written, unread>>

(* The firm and the installation are read once, for the whole run.  The    *)
(* user of a mail event may be unknown, or have no usable token.           *)
Begin(g) ==
  /\ run.pc = "idle" /\ plugin.runnable
  /\ g => plugin.class.mail
  /\ run' = [run EXCEPT !.pc = "model", !.graph = g,
                        !.writes = plugin.class.effects /\ ~plugin.dry,
                        !.shadow = shadow, !.seen = toggles]
  /\ tx' = [NoTrace EXCEPT !.status = "running"]
  /\ UNCHANGED <<World, db, written, unread>>

(* A reply of c cents with k tool uses.  The loop ends when there is none, *)
(* or when the reply stopped for another reason than tool use.             *)
ModelAnswers(c, k) ==
  /\ run.pc = "model"
  /\ tx' = Count("cost", c)
  /\ run' = [run EXCEPT !.iter = @ + 1, !.spent = @ + c, !.todo = k,
                        !.pc = IF k = 0 THEN "finish" ELSE "tools",
                        !.status = IF k = 0 THEN "completed" ELSE @]
  /\ UNCHANGED <<World, db, written, unread>>

(* Mutant: a failed call is tried again, outside the count. *)
ModelFailsRetried ==
  /\ run.pc = "model"
  /\ run' = [run EXCEPT !.status = IF @ = None THEN "failed" ELSE None]
  /\ UNCHANGED <<World, tx, db, written, unread>>

(* A ConnectorError of the model: an error step, and the loop ends. *)
ModelFails ==
  /\ run.pc = "model"
  /\ run' = [run EXCEPT !.iter = @ + 1, !.pc = "finish", !.status = "failed"]
  /\ UNCHANGED <<World, tx, db, written, unread>>

-----------------------------------------------------------------------------
(* Mutant: a dry run and a class without effects must come together. *)
OfferedInDryRun(t) ==
  /\ t.category \in plugin.class.categories
  /\ t.effect => plugin.class.effects \/ run.writes

(* The registry as filtered for the run: by category, and all the tools    *)
(* with side effects or none of them.                                      *)
Offered(t) ==
  /\ t.category \in plugin.class.categories
  /\ t.effect => run.writes

Orders(t) == IF t.does = "write" THEN 1 ELSE 0

(* The tool_call step is written before the tool is looked up. *)
AskTool(t) ==
  /\ run.pc = "tools" /\ run.todo > 0
  /\ tx' = [Count("calls", 1) EXCEPT !.orders = @ + Orders(t)]
  /\ run' = [run EXCEPT !.pc = "call", !.tool = t]
  /\ UNCHANGED <<World, db, written, unread>>

(* The handler gets to work: the tool is known, the input valid, and the   *)
(* Graph context there if it needs one.                                    *)
Calls(what) ==
  /\ run.pc = "call" /\ run.tool.does = what
  /\ Offered(run.tool)
  /\ run.tool.graph => run.graph

Return == run' = [run EXCEPT !.pc = "tools", !.todo = @ - 1, !.tool = None]

(* The tool_result step, good or bad. *)
Answer ==
  /\ tx' = Count("answers", 1)
  /\ Return

(* Mutant: an unknown tool is answered to the model but not recorded. *)
ToolRefusedUnrecorded ==
  /\ run.pc = "call"
  /\ Return
  /\ UNCHANGED <<World, tx, db, written, unread>>

(* An unknown tool, an input the schema rejects, a ToolError, a bug of the *)
(* handler or a result that is no JSON: an error goes back to the model.   *)
ToolRefused ==
  /\ run.pc = "call"
  /\ Answer
  /\ UNCHANGED <<World, db, written, unread>>

(* A read of the firm's own tables. *)
ToolReads ==
  /\ Calls("read")
  /\ Answer
  /\ UNCHANGED <<World, db, written, unread>>

(* A query of Graph, done or failed, or a write that fails before Graph    *)
(* acts: the audit entry is committed, and with it the run so far.         *)
ToolAudited ==
  /\ Calls("query") \/ (Calls("write") /\ ~run.shadow)
  /\ db' = tx
  /\ Answer
  /\ UNCHANGED <<World, written, unread>>

(* An approval item is added, or one is marked as undelivered; the row is  *)
(* committed with the run.                                                 *)
ToolRecords ==
  /\ Calls("record")
  /\ tx' = [Count("answers", 1) EXCEPT !.rows = @ + 1]
  /\ Return
  /\ UNCHANGED <<World, db, written, unread>>

(* The guard audits, commits and raises. *)
ShadowBlocks ==
  /\ Calls("write") /\ run.shadow
  /\ db' = tx
  /\ Answer
  /\ UNCHANGED <<World, written, unread>>

Post ==
  /\ Calls("write") /\ ~run.shadow
  /\ written' = written + 1
  /\ run' = [run EXCEPT !.pc = "posted"]
  /\ UNCHANGED <<World, tx, db, unread>>

(* Mutant: the audit entry waits for the commit of the run. *)
PostAuditedLate ==
  /\ run.pc = "posted"
  /\ Answer
  /\ UNCHANGED <<World, db, written, unread>>

(* The audit entry of the write, or that of the failure when the answer of *)
(* Graph got lost, is committed before the tool returns.                   *)
PostAudited ==
  /\ run.pc = "posted"
  /\ db' = tx
  /\ Answer
  /\ UNCHANGED <<World, written, unread>>

(* Graph made the draft, but its answer cannot be parsed: not a connector   *)
(* error, so nothing is audited and nothing committed.                     *)
PostUnread ==
  /\ run.pc = "posted"
  /\ unread' = unread + 1
  /\ Answer
  /\ UNCHANGED <<World, db, written>>

-----------------------------------------------------------------------------
(* Mutant: the budget may be used up and still buy a reply. *)
SpendableAtLimit == run.spent <= plugin.class.budget

Spendable == run.spent < plugin.class.budget

(* The budget is looked at only here, after a round of tools. *)
RoundOver ==
  /\ run.pc = "tools" /\ run.todo = 0
  /\ run' = IF ~Spendable
            THEN [run EXCEPT !.pc = "finish", !.status = "budget_exhausted"]
            ELSE IF run.iter >= MaxIterations
            THEN [run EXCEPT !.pc = "finish", !.status = "max_iterations"]
            ELSE [run EXCEPT !.pc = "model"]
  /\ UNCHANGED <<World, tx, db, written, unread>>

Finish ==
  /\ run.pc = "finish"
  /\ tx' = [tx EXCEPT !.status = run.status]
  /\ run' = [run EXCEPT !.pc = "commit"]
  /\ UNCHANGED <<World, db, written, unread>>

(* The worker's commit. *)
Commit ==
  /\ run.pc = "commit"
  /\ db' = tx
  /\ run' = [run EXCEPT !.pc = "done"]
  /\ UNCHANGED <<World, tx, written, unread>>

(* The worker dies; or the model call, a step of the trace or a handler    *)
(* that broke the session raises something no branch of the loop expects,  *)
(* and the worker rolls back.                                              *)
Die ==
  /\ Active
  /\ run' = [run EXCEPT !.pc = "died"]
  /\ tx' = db
  /\ UNCHANGED <<World, db, written, unread>>

(* An operator turns the shadow mode or the plugin's dry run on or off. *)
Toggle ==
  /\ toggles < MaxToggles
  /\ toggles' = toggles + 1
  /\ \/ shadow' = ~shadow /\ UNCHANGED plugin
     \/ plugin' = [plugin EXCEPT !.dry = ~@] /\ UNCHANGED shadow
  /\ UNCHANGED <<run, tx, db, written, unread>>

Tool ==
  \/ \E t \in Tools : AskTool(t)
  \/ ToolRefused \/ ToolReads \/ ToolAudited \/ ToolRecords
  \/ ShadowBlocks \/ Post \/ PostAudited \/ PostUnread

Model == ModelFails \/ \E c \in 1..MaxCost, k \in 0..MaxUses : ModelAnswers(c, k)

Step ==
  \/ Refuse \/ \E g \in BOOLEAN : Begin(g)
  \/ Model \/ Tool \/ RoundOver \/ Finish \/ Commit

Next == Step \/ Die \/ Toggle

Spec == Init /\ [][Next]_vars

(* The worker goes on with a run; every call it makes ends or times out. *)
FairSpec == Spec /\ WF_vars(Step)

-----------------------------------------------------------------------------
Pcs == {"idle", "model", "tools", "call", "posted", "finish", "commit"} \cup Over

TypeOK ==
  /\ shadow \in BOOLEAN
  /\ plugin \in [class : Classes, runnable : BOOLEAN, dry : BOOLEAN]
  /\ run \in [pc : Pcs, iter : Nat, spent : Nat, todo : 0..MaxUses,
              tool : Tools \cup {None}, writes : BOOLEAN, graph : BOOLEAN,
              shadow : BOOLEAN, seen : 0..MaxToggles, status : Final \cup {None}]
  /\ tx \in Traces /\ db \in Traces
  /\ written \in Nat /\ unread \in Nat
  /\ toggles \in 0..MaxToggles

(* A trace that reads as finished is the whole story: it was committed by  *)
(* a run that is over, every tool call in it has its answer, its cost is   *)
(* what the model was paid, and it has a tool call for every write that    *)
(* Graph carried out.                                                      *)
FinalTraceComplete ==
  db.status \in Final =>
    /\ run.pc = "done"
    /\ db.answers = db.calls
    /\ db.cost = run.spent
    /\ written <= db.orders

(* No write is done in Graph without a committed tool call, save the one   *)
(* in flight, also when the run died there, and those whose answer could   *)
(* not be parsed: the audit entry of a write commits the trace so far.     *)
WritesTraced ==
  written <= db.orders + unread +
             (IF run.pc \in {"posted", "died"} THEN 1 ELSE 0)

(* A run goes over its budget by less than its dearest reply, whatever its *)
(* tools do; a plugin without a budget gets one reply.                     *)
SpendBounded ==
  /\ \/ run.spent < plugin.class.budget + MaxCost
     \/ run.spent <= MaxCost
  /\ run.iter <= MaxIterations

(* A write or a row comes only from a class that allows side effects, in a *)
(* run that was no dry run when it began, and a write reaches the Outlook  *)
(* of a firm in shadow mode only if the mode was turned on during the run. *)
WritesAllowed ==
  [][LET write == written' > written
         record == tx'.rows > tx.rows
     IN  /\ (write \/ record) =>
              /\ plugin.class.effects
              /\ plugin.dry => toggles > run.seen
         /\ (write /\ shadow) => toggles > run.seen]_vars

(* A run ends: the model cannot keep it busy for ever. *)
RunEnds == run.pc = "model" ~> run.pc \in Over
=============================================================================
