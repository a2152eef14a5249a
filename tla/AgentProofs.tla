----------------------------- MODULE AgentProofs ----------------------------
(***************************************************************************)
(* Proofs about a run of a plugin, for all classes, budgets and bounds.    *)
(*                                                                         *)
(* The trace of the run's session always has an order for every write      *)
(* Graph carried out, and one more while a write is asked for; the audit   *)
(* entry of a write brings the committed trace up to it.                   *)
(***************************************************************************)
EXTENDS AgentRun, TLAPS

Alive == {"model", "tools", "call", "posted", "finish", "commit", "done"}
Calling == {"call", "posted"}
Runs == [pc : Pcs, iter : Nat, spent : Nat, todo : 0..MaxUses,
         tool : Tools \cup {None}, writes : BOOLEAN, graph : BOOLEAN,
         shadow : BOOLEAN, seen : 0..MaxToggles, status : Final \cup {None}]

NothingYet ==
  run.pc \in {"idle", "refused"} =>
    /\ tx = NoTrace /\ db = NoTrace
    /\ written = 0 /\ unread = 0
    /\ run.iter = 0 /\ run.spent = 0

TraceInStep ==
  run.pc \in Alive =>
    /\ tx.cost = run.spent
    /\ tx.calls = tx.answers + (IF run.pc \in Calling THEN 1 ELSE 0)
    /\ run.pc \in Calling => run.tool \in Tools /\ run.todo > 0
    /\ written <= tx.orders
    /\ run.pc = "call" /\ run.tool.does = "write" => written < tx.orders

StatusInStep ==
  /\ run.pc = "finish" => run.status \in Final
  /\ run.pc \in Alive \ {"commit", "done"} => tx.status = "running"
  /\ run.pc # "done" => db.status \notin Final
  /\ run.pc = "done" => db = tx

SpendInStep ==
  /\ run.pc = "model" =>
       /\ run.iter < MaxIterations
       /\ run.spent = 0 \/ Spendable
  /\ SpendBounded

RowsInStep == db.rows <= tx.rows

(* What the run was allowed when it began, and what the operator changed.  *)
FlagsInStep ==
  /\ run.seen <= toggles
  /\ run.writes => plugin.class.effects
  /\ run.writes /\ plugin.dry => toggles > run.seen
  /\ ~run.shadow /\ shadow => toggles > run.seen

AgentInv ==
  /\ TypeOK /\ NothingYet /\ TraceInStep /\ StatusInStep /\ WritesTraced
  /\ SpendInStep /\ RowsInStep /\ FlagsInStep

-----------------------------------------------------------------------------
LEMMA ToolFacts ==
  /\ \A t \in Tools : Orders(t) \in {0, 1} /\ (Orders(t) = 1 <=> t.does = "write")
  /\ \A t \in Tools : t.does \in {"write", "record"} => t.effect
BY DEF Tools, Orders, GetTodayDate, GetFirmInfo, KgLookup, KgRelationships,
       MemoryQuery, EmailGetMessage, CalendarListEvents, EmailProposeDraft,
       MeetingBriefPropose, MarkDeliveryFailed, EmailCreateDraft, EmailMarkAsRead

LEMMA Types ==
  ASSUME TypeOK
  PROVE  /\ run.iter \in Nat /\ run.spent \in Nat /\ run.todo \in 0..MaxUses
         /\ tx.cost \in Nat /\ tx.calls \in Nat /\ tx.answers \in Nat
         /\ tx.orders \in Nat /\ tx.rows \in Nat
         /\ db.rows \in Nat /\ db.orders \in Nat /\ db.answers \in Nat /\ db.calls \in Nat
         /\ written \in Nat /\ unread \in Nat
         /\ plugin.class \in PluginClasses /\ plugin.class.budget \in Nat
         /\ toggles \in Nat /\ run.seen \in Nat
         /\ MaxIterations \in Nat \ {0} /\ MaxCost \in Nat \ {0}
         /\ MaxUses \in Nat /\ MaxToggles \in Nat
<1>1. plugin.class \in Classes BY DEF TypeOK
<1>2. QED BY <1>1, AgentAssumption DEF TypeOK, Traces, PluginClasses

LEMMA InitHolds == ASSUME Init PROVE AgentInv
<1>1. /\ NoTrace \in Traces /\ NoTrace.status = "none"
      /\ NoTrace.orders = 0 /\ NoTrace.rows = 0
  BY DEF NoTrace, Traces
<1>2. TypeOK BY <1>1, AgentAssumption DEF Init, TypeOK, Idle, Pcs, Over
<1>3. plugin.class.budget \in Nat BY <1>2, Types
<1>4. QED
  BY <1>1, <1>2, <1>3, AgentAssumption
  DEF Init, AgentInv, NothingYet, TraceInStep, StatusInStep, WritesTraced,
      SpendInStep, SpendBounded, RowsInStep, FlagsInStep, Idle, Alive,
      Calling, Final

-----------------------------------------------------------------------------
LEMMA RefuseKeeps == ASSUME AgentInv, Refuse PROVE AgentInv'
<1> USE DEF AgentInv
<1>1. TypeOK' BY DEF Refuse, World, TypeOK, Pcs, Over
<1>2. QED
  BY <1>1, Types
  DEF Refuse, World, NothingYet, TraceInStep, StatusInStep, WritesTraced,
      SpendInStep, SpendBounded, RowsInStep, FlagsInStep, Alive, Calling, TypeOK

LEMMA BeginKeeps ==
  ASSUME AgentInv, NEW g \in BOOLEAN, Begin(g) PROVE AgentInv'
<1> USE DEF AgentInv
<1>1. plugin.class.effects \in BOOLEAN /\ plugin.dry \in BOOLEAN
  BY Types DEF TypeOK, PluginClasses
<1>2. /\ tx' \in Traces /\ tx'.status = "running" /\ tx'.cost = 0
      /\ tx'.calls = 0 /\ tx'.answers = 0 /\ tx'.orders = 0
  BY DEF Begin, NoTrace, Traces
<1>3. TypeOK' BY <1>1, <1>2 DEF Begin, World, TypeOK, Pcs, Over
<1>4. /\ run'.pc = "model" /\ run'.iter = 0 /\ run'.spent = 0
      /\ run'.seen = toggles /\ run'.shadow = shadow
      /\ run'.writes = (plugin.class.effects /\ ~plugin.dry)
  BY DEF Begin, NothingYet, TypeOK
<1>5. written = 0 /\ db = NoTrace /\ unread = 0 BY DEF Begin, NothingYet
<1>6. NothingYet' BY <1>4 DEF NothingYet
<1>7. TraceInStep' BY <1>2, <1>4, <1>5 DEF Begin, TraceInStep, Calling
<1>8. StatusInStep'
  BY <1>2, <1>4, <1>5 DEF Begin, StatusInStep, NoTrace, Final
<1>9. WritesTraced' BY <1>4, <1>5 DEF Begin, WritesTraced, NoTrace
<1>10. SpendInStep'
  BY <1>4, Types DEF Begin, World, SpendInStep, SpendBounded, Spendable
<1>11. FlagsInStep'
  <2>1. UNCHANGED World BY DEF Begin
  <2>2. run'.seen <= toggles' BY <1>4, <2>1, Types DEF World
  <2>3. /\ run'.writes => plugin'.class.effects
        /\ ~(run'.writes /\ plugin'.dry)
        /\ ~(~run'.shadow /\ shadow')
    BY <1>4, <2>1, Zenon DEF World
  <2>4. QED BY <2>2, <2>3, Zenon DEF FlagsInStep
<1>12. RowsInStep' BY <1>5, Types DEF Begin, RowsInStep, NoTrace
<1>13. QED BY <1>3, <1>6, <1>7, <1>8, <1>9, <1>10, <1>11, <1>12

LEMMA ModelAnswersKeeps ==
  ASSUME AgentInv, NEW c \in 1..MaxCost, NEW k \in 0..MaxUses, ModelAnswers(c, k)
  PROVE  AgentInv'
<1> USE DEF AgentInv
<1>1. /\ tx' \in Traces /\ tx'.cost = tx.cost + c /\ tx'.calls = tx.calls
      /\ tx'.answers = tx.answers /\ tx'.orders = tx.orders
      /\ tx'.status = tx.status
  BY Types DEF ModelAnswers, Count, TypeOK, Traces
<1>2. TypeOK'
  <2>1. run' \in Runs
    <3>1. run.iter + 1 \in Nat /\ run.spent + c \in Nat BY Types
    <3>2. (IF k = 0 THEN "completed" ELSE run.status) \in Final \cup {None}
      BY DEF TypeOK, Final
    <3>3. (IF k = 0 THEN "finish" ELSE "tools") \in Pcs BY DEF Pcs
    <3>4. QED BY <3>1, <3>2, <3>3 DEF ModelAnswers, TypeOK, Runs
  <2>2. QED BY <1>1, <2>1 DEF ModelAnswers, World, TypeOK, Runs
<1>3. /\ run'.pc \in {"finish", "tools"} /\ run'.iter = run.iter + 1
      /\ run'.spent = run.spent + c /\ run'.seen = run.seen
      /\ run'.writes = run.writes /\ run'.shadow = run.shadow
  BY DEF ModelAnswers, TypeOK
<1>4. run.pc = "model" BY DEF ModelAnswers
<1>5. NothingYet' BY <1>3 DEF NothingYet
<1>6. TraceInStep'
  BY <1>1, <1>3, <1>4 DEF ModelAnswers, TraceInStep, Alive, Calling
<1>7. StatusInStep'
  <2>1. run'.pc = "finish" => run'.status = "completed"
    BY DEF ModelAnswers, TypeOK
  <2>2. QED
    BY <2>1, <1>1, <1>3, <1>4 DEF ModelAnswers, StatusInStep, Alive, Final
<1>8. WritesTraced' BY <1>3, <1>4 DEF ModelAnswers, WritesTraced
<1>9. SpendInStep'
  BY <1>3, <1>4, Types
  DEF ModelAnswers, World, SpendInStep, SpendBounded, Spendable
<1>10. FlagsInStep' BY <1>3 DEF ModelAnswers, World, FlagsInStep
<1>11. RowsInStep' BY DEF ModelAnswers, Count, RowsInStep, TypeOK, Traces
<1>12. QED BY <1>2, <1>5, <1>6, <1>7, <1>8, <1>9, <1>10, <1>11

(* Steps that leave both traces and Graph alone. *)
LEMMA LoopKeeps ==
  ASSUME AgentInv, ModelFails \/ RoundOver
  PROVE  AgentInv'
<1> USE DEF AgentInv
<1>1. /\ UNCHANGED <<World, tx, db, written, unread>>
      /\ run.pc \in {"model", "tools"} /\ run'.pc \in {"model", "finish"}
      /\ run'.spent = run.spent /\ run'.seen = run.seen
      /\ run'.writes = run.writes /\ run'.shadow = run.shadow
  BY DEF ModelFails, RoundOver, TypeOK
<1>2. TypeOK'
  <2>1. CASE ModelFails
    <3>1. run.iter + 1 \in Nat BY Types
    <3>2. QED BY <2>1, <3>1 DEF ModelFails, World, TypeOK, Pcs, Final
  <2>2. CASE RoundOver
    BY <2>2 DEF RoundOver, World, TypeOK, Pcs, Final
  <2>3. QED BY <2>1, <2>2
<1>3. NothingYet' BY <1>1 DEF NothingYet
<1>4. TraceInStep' BY <1>1 DEF TraceInStep, Alive, Calling
<1>5. StatusInStep'
  <2>1. run'.pc = "finish" => run'.status \in Final
    BY DEF ModelFails, RoundOver, TypeOK, Final
  <2>2. QED BY <2>1, <1>1 DEF StatusInStep, Alive
<1>6. WritesTraced' BY <1>1 DEF WritesTraced
<1>7. SpendInStep'
  <2>1. CASE ModelFails
    <3>1. run.pc = "model" /\ run'.pc = "finish" /\ run'.iter = run.iter + 1
      BY <2>1 DEF ModelFails, TypeOK
    <3>2. QED
      BY <1>1, <3>1, Types DEF World, SpendInStep, SpendBounded
  <2>2. CASE RoundOver
    <3>1. /\ run'.iter = run.iter
          /\ run'.pc = "model" => Spendable /\ ~(run.iter >= MaxIterations)
      BY <2>2 DEF RoundOver, TypeOK
    <3>2. QED
      BY <1>1, <3>1, Types DEF World, SpendInStep, SpendBounded, Spendable
  <2>3. QED BY <2>1, <2>2
<1>8. FlagsInStep' BY <1>1 DEF World, FlagsInStep
<1>9. RowsInStep' BY <1>1 DEF RowsInStep
<1>10. QED BY <1>2, <1>3, <1>4, <1>5, <1>6, <1>7, <1>8, <1>9

LEMMA AskToolKeeps ==
  ASSUME AgentInv, NEW t \in Tools, AskTool(t) PROVE AgentInv'
<1> USE DEF AgentInv
<1>1. Orders(t) \in {0, 1} /\ (Orders(t) = 1 <=> t.does = "write")
  BY ToolFacts
<1>2. /\ tx' \in Traces /\ tx'.cost = tx.cost /\ tx'.calls = tx.calls + 1
      /\ tx'.answers = tx.answers /\ tx'.orders = tx.orders + Orders(t)
      /\ tx'.status = tx.status
  <2>1. tx' = [tx EXCEPT !.calls = tx.calls + 1, !.orders = tx.orders + Orders(t)]
    BY DEF AskTool, Count, TypeOK, Traces
  <2>2. tx.calls + 1 \in Nat /\ tx.orders + Orders(t) \in Nat BY <1>1, Types
  <2>3. QED BY <2>1, <2>2 DEF TypeOK, Traces
<1>3. TypeOK' BY <1>2 DEF AskTool, World, TypeOK, Pcs
<1>4. /\ run.pc = "tools" /\ run'.pc = "call" /\ run'.tool = t
      /\ run'.iter = run.iter /\ run'.spent = run.spent
      /\ run'.seen = run.seen
      /\ run'.writes = run.writes /\ run'.shadow = run.shadow
  BY DEF AskTool, TypeOK
<1>5. NothingYet' BY <1>4 DEF NothingYet
<1>6. TraceInStep'
  BY <1>1, <1>2, <1>4, Types DEF AskTool, TraceInStep, Alive, Calling
<1>7. StatusInStep' BY <1>2, <1>4 DEF AskTool, StatusInStep, Alive
<1>8. WritesTraced' BY <1>4 DEF AskTool, WritesTraced
<1>9. SpendInStep'
  BY <1>4 DEF AskTool, World, SpendInStep, SpendBounded
<1>10. FlagsInStep' BY <1>4 DEF AskTool, World, FlagsInStep
<1>11. RowsInStep' BY DEF AskTool, Count, RowsInStep, TypeOK, Traces
<1>12. QED BY <1>3, <1>5, <1>6, <1>7, <1>8, <1>9, <1>10, <1>11

-----------------------------------------------------------------------------
(* A tool returns: its answer goes into the trace, the committed trace     *)
(* stays or becomes the one before the answer.                             *)
Returned ==
  /\ run.pc \in Calling
  /\ Return
  /\ tx' \in Traces
  /\ tx'.answers = tx.answers + 1 /\ tx'.calls = tx.calls
  /\ tx'.cost = tx.cost /\ tx'.orders = tx.orders /\ tx'.status = tx.status
  /\ tx'.rows >= tx.rows
  /\ db' \in {db, tx}
  /\ \/ run.pc = "call" /\ unread' = unread
     \/ db' = tx /\ unread' = unread
     \/ unread' = unread + 1
  /\ written' = written
  /\ UNCHANGED World

LEMMA ReturnedKeeps == ASSUME AgentInv, Returned PROVE AgentInv'
<1> USE DEF AgentInv
<1>1. run.todo - 1 \in 0..MaxUses
  BY Types DEF Returned, TraceInStep, Alive, Calling
<1>2. /\ run'.pc = "tools" /\ run'.tool = None
      /\ run'.iter = run.iter /\ run'.spent = run.spent
      /\ run'.seen = run.seen
      /\ run'.writes = run.writes /\ run'.shadow = run.shadow
  BY DEF Returned, Return, TypeOK
<1>3. run' \in Runs BY <1>1 DEF Returned, Return, TypeOK, Runs, Pcs
<1>4. db' \in Traces /\ unread' \in Nat BY Types DEF Returned, TypeOK
<1>5. TypeOK' BY <1>3, <1>4 DEF Returned, World, TypeOK, Runs
<1>6. NothingYet' BY <1>2 DEF NothingYet
<1>7. TraceInStep'
  BY <1>2, Types DEF Returned, TraceInStep, Alive, Calling
<1>8. StatusInStep'
  BY <1>2 DEF Returned, StatusInStep, Alive, Calling, Final
<1>9. WritesTraced'
  <2>1. written <= tx.orders
    BY DEF Returned, TraceInStep, Alive, Calling
  <2>2. QED BY <2>1, <1>2, Types DEF Returned, WritesTraced, Calling
<1>10. SpendInStep'
  BY <1>2 DEF Returned, World, SpendInStep, SpendBounded
<1>11. FlagsInStep' BY <1>2 DEF Returned, World, FlagsInStep
<1>12. RowsInStep' BY Types DEF Returned, RowsInStep, Traces
<1>13. QED BY <1>5, <1>6, <1>7, <1>8, <1>9, <1>10, <1>11, <1>12

(* The handlers that return at once, and the two that do after Graph acted.*)
LEMMA ToolReturns ==
  ASSUME AgentInv,
         ToolRefused \/ ToolReads \/ ToolAudited \/ ToolRecords
           \/ ShadowBlocks \/ PostAudited \/ PostUnread
  PROVE  Returned
<1> USE DEF AgentInv
<1>1. tx.answers + 1 \in Nat /\ tx.rows + 1 \in Nat BY Types
<1>2. ASSUME Answer
      PROVE  /\ Return /\ tx' \in Traces
             /\ tx'.answers = tx.answers + 1 /\ tx'.calls = tx.calls
             /\ tx'.cost = tx.cost /\ tx'.orders = tx.orders
             /\ tx'.status = tx.status /\ tx'.rows = tx.rows
             /\ tx'.rows >= tx.rows
  BY <1>1, <1>2, Types DEF Answer, Count, TypeOK, Traces
<1>3. CASE ToolRefused BY <1>2, <1>3 DEF ToolRefused, Returned, Calling
<1>4. CASE ToolReads BY <1>2, <1>4 DEF ToolReads, Calls, Returned, Calling
<1>5. CASE ToolAudited BY <1>2, <1>5 DEF ToolAudited, Calls, Returned, Calling
<1>6. CASE ToolRecords
  <2>1. tx' = [tx EXCEPT !.answers = tx.answers + 1, !.rows = tx.rows + 1]
    BY <1>6 DEF ToolRecords, Count, TypeOK, Traces
  <2>2. /\ tx' \in Traces
        /\ tx'.answers = tx.answers + 1 /\ tx'.calls = tx.calls
        /\ tx'.cost = tx.cost /\ tx'.orders = tx.orders
        /\ tx'.status = tx.status /\ tx'.rows = tx.rows + 1
    BY <1>1, <2>1 DEF TypeOK, Traces
  <2>3. tx'.rows >= tx.rows BY <2>2, Types
  <2>4. QED BY <1>6, <2>2, <2>3 DEF ToolRecords, Calls, Returned, Calling
<1>7. CASE ShadowBlocks BY <1>2, <1>7 DEF ShadowBlocks, Calls, Returned, Calling
<1>8. CASE PostAudited BY <1>2, <1>8 DEF PostAudited, Returned, Calling
<1>9. CASE PostUnread BY <1>2, <1>9 DEF PostUnread, Returned, Calling
<1>10. QED BY <1>3, <1>4, <1>5, <1>6, <1>7, <1>8, <1>9

LEMMA PostKeeps == ASSUME AgentInv, Post PROVE AgentInv'
<1> USE DEF AgentInv
<1>1. /\ run.pc = "call" /\ run.tool.does = "write" /\ written' = written + 1
      /\ UNCHANGED <<World, tx, db, unread>>
  BY DEF Post, Calls
<1>2. /\ run'.pc = "posted" /\ run'.tool = run.tool /\ run'.todo = run.todo
      /\ run'.iter = run.iter /\ run'.spent = run.spent
      /\ run'.seen = run.seen
      /\ run'.writes = run.writes /\ run'.shadow = run.shadow
  BY DEF Post, TypeOK
<1>3. TypeOK' BY <1>1, Types DEF Post, World, TypeOK, Pcs
<1>4. NothingYet' BY <1>2 DEF NothingYet
<1>5. TraceInStep' BY <1>1, <1>2, Types DEF TraceInStep, Alive, Calling
<1>6. StatusInStep' BY <1>1, <1>2 DEF StatusInStep, Alive
<1>7. WritesTraced' BY <1>1, <1>2, Types DEF WritesTraced
<1>8. SpendInStep' BY <1>1, <1>2 DEF World, SpendInStep, SpendBounded
<1>9. FlagsInStep' BY <1>1, <1>2 DEF World, FlagsInStep
<1>10. RowsInStep' BY <1>1 DEF RowsInStep
<1>11. QED BY <1>3, <1>4, <1>5, <1>6, <1>7, <1>8, <1>9, <1>10

-----------------------------------------------------------------------------
LEMMA FinishKeeps == ASSUME AgentInv, Finish PROVE AgentInv'
<1> USE DEF AgentInv
<1>1. /\ run.pc = "finish" /\ run'.pc = "commit"
      /\ run'.iter = run.iter /\ run'.spent = run.spent
      /\ run'.seen = run.seen
      /\ run'.writes = run.writes /\ run'.shadow = run.shadow
      /\ UNCHANGED <<World, db, written, unread>>
  BY DEF Finish, TypeOK
<1>2. run.status \in Final BY <1>1 DEF StatusInStep
<1>3. /\ tx' \in Traces /\ tx'.cost = tx.cost /\ tx'.calls = tx.calls
      /\ tx'.answers = tx.answers /\ tx'.orders = tx.orders
  BY <1>2 DEF Finish, TypeOK, Traces
<1>4. TypeOK' BY <1>3 DEF Finish, World, TypeOK, Pcs
<1>5. NothingYet' BY <1>1 DEF NothingYet
<1>6. TraceInStep' BY <1>1, <1>3 DEF TraceInStep, Alive, Calling
<1>7. StatusInStep' BY <1>1 DEF StatusInStep, Alive
<1>8. WritesTraced' BY <1>1 DEF WritesTraced
<1>9. SpendInStep' BY <1>1 DEF World, SpendInStep, SpendBounded
<1>10. FlagsInStep' BY <1>1 DEF World, FlagsInStep
<1>11. RowsInStep' BY DEF Finish, RowsInStep, TypeOK, Traces
<1>12. QED BY <1>4, <1>5, <1>6, <1>7, <1>8, <1>9, <1>10, <1>11

LEMMA CommitKeeps == ASSUME AgentInv, Commit PROVE AgentInv'
<1> USE DEF AgentInv
<1>1. /\ run.pc = "commit" /\ run'.pc = "done" /\ db' = tx
      /\ run'.iter = run.iter /\ run'.spent = run.spent
      /\ run'.seen = run.seen
      /\ run'.writes = run.writes /\ run'.shadow = run.shadow
      /\ UNCHANGED <<World, tx, written, unread>>
  BY DEF Commit, TypeOK
<1>2. TypeOK' BY <1>1 DEF Commit, World, TypeOK, Pcs, Over
<1>3. NothingYet' BY <1>1 DEF NothingYet
<1>4. TraceInStep' BY <1>1 DEF TraceInStep, Alive, Calling
<1>5. StatusInStep' BY <1>1 DEF StatusInStep
<1>6. WritesTraced'
  BY <1>1, Types DEF WritesTraced, TraceInStep, Alive, Calling
<1>7. SpendInStep' BY <1>1 DEF World, SpendInStep, SpendBounded
<1>8. FlagsInStep' BY <1>1 DEF World, FlagsInStep
<1>9. RowsInStep' BY <1>1, Types DEF RowsInStep
<1>10. QED BY <1>2, <1>3, <1>4, <1>5, <1>6, <1>7, <1>8, <1>9

LEMMA DieKeeps == ASSUME AgentInv, Die PROVE AgentInv'
<1> USE DEF AgentInv
<1>1. /\ run.pc \in Alive \ {"done"} /\ run'.pc = "died" /\ tx' = db
      /\ run'.iter = run.iter /\ run'.spent = run.spent
      /\ run'.seen = run.seen
      /\ run'.writes = run.writes /\ run'.shadow = run.shadow
      /\ UNCHANGED <<World, db, written, unread>>
  BY DEF Die, Active, TypeOK, Pcs, Over, Alive
<1>2. TypeOK' BY <1>1 DEF Die, World, TypeOK, Pcs, Over
<1>3. NothingYet' BY <1>1 DEF NothingYet
<1>4. TraceInStep' BY <1>1 DEF TraceInStep, Alive, Calling
<1>5. StatusInStep' BY <1>1 DEF StatusInStep, Alive
<1>6. WritesTraced' BY <1>1, Types DEF WritesTraced, Alive
<1>7. SpendInStep' BY <1>1 DEF World, SpendInStep, SpendBounded
<1>8. FlagsInStep' BY <1>1 DEF World, FlagsInStep
<1>9. RowsInStep' BY <1>1, Types DEF RowsInStep
<1>10. QED BY <1>2, <1>3, <1>4, <1>5, <1>6, <1>7, <1>8, <1>9

LEMMA ToggleKeeps == ASSUME AgentInv, Toggle PROVE AgentInv'
<1> USE DEF AgentInv
<1>1. /\ toggles' = toggles + 1 /\ toggles' \in 0..MaxToggles
      /\ UNCHANGED <<run, tx, db, written, unread>>
  BY Types DEF Toggle, TypeOK
<1>2. /\ plugin'.class = plugin.class /\ shadow' \in BOOLEAN
      /\ plugin' \in [class : Classes, runnable : BOOLEAN, dry : BOOLEAN]
  BY DEF Toggle, TypeOK
<1>3. TypeOK' BY <1>1, <1>2 DEF TypeOK
<1>4. NothingYet' BY <1>1 DEF NothingYet
<1>5. TraceInStep' BY <1>1 DEF TraceInStep
<1>6. StatusInStep' BY <1>1 DEF StatusInStep
<1>7. WritesTraced' BY <1>1 DEF WritesTraced
<1>8. SpendInStep' BY <1>1, <1>2 DEF SpendInStep, SpendBounded, Spendable
<1>9. FlagsInStep'
  <2>1. toggles' > run.seen /\ run.seen <= toggles'
    BY <1>1, Types DEF FlagsInStep
  <2>2. QED BY <2>1, <1>1, <1>2 DEF FlagsInStep
<1>10. RowsInStep' BY <1>1 DEF RowsInStep
<1>11. QED BY <1>3, <1>4, <1>5, <1>6, <1>7, <1>8, <1>9, <1>10

LEMMA StutterKeeps == ASSUME AgentInv, UNCHANGED vars PROVE AgentInv'
BY DEF AgentInv, vars, TypeOK, NothingYet, TraceInStep, StatusInStep,
       WritesTraced, SpendInStep, SpendBounded, Spendable, RowsInStep, FlagsInStep

LEMMA StepKeeps == ASSUME AgentInv, [Next]_vars PROVE AgentInv'
<1>1. CASE Refuse BY <1>1, RefuseKeeps
<1>2. ASSUME NEW g \in BOOLEAN, Begin(g) PROVE AgentInv'
  BY <1>2, BeginKeeps
<1>3. CASE Model
  <2>1. CASE ModelFails BY <2>1, LoopKeeps
  <2>2. ASSUME NEW c \in 1..MaxCost, NEW k \in 0..MaxUses, ModelAnswers(c, k)
        PROVE  AgentInv'
    BY <2>2, ModelAnswersKeeps
  <2>3. QED BY <1>3, <2>1, <2>2 DEF Model
<1>4. CASE Tool
  <2>1. ASSUME NEW t \in Tools, AskTool(t) PROVE AgentInv'
    BY <2>1, AskToolKeeps
  <2>2. CASE Post BY <2>2, PostKeeps
  <2>3. CASE ToolRefused \/ ToolReads \/ ToolAudited \/ ToolRecords
               \/ ShadowBlocks \/ PostAudited \/ PostUnread
    BY <2>3, ToolReturns, ReturnedKeeps
  <2>4. QED BY <1>4, <2>1, <2>2, <2>3 DEF Tool
<1>5. CASE RoundOver BY <1>5, LoopKeeps
<1>6. CASE Finish BY <1>6, FinishKeeps
<1>7. CASE Commit BY <1>7, CommitKeeps
<1>8. CASE Die BY <1>8, DieKeeps
<1>9. CASE Toggle BY <1>9, ToggleKeeps
<1>10. CASE UNCHANGED vars BY <1>10, StutterKeeps
<1>11. QED
  BY <1>1, <1>2, <1>3, <1>4, <1>5, <1>6, <1>7, <1>8, <1>9, <1>10 DEF Next, Step

-----------------------------------------------------------------------------
(* The run, its trace and the switches keep their types. *)
THEOREM AgentTypeCorrect == Spec => []TypeOK
<1>1. Init => AgentInv BY InitHolds
<1>2. AgentInv /\ [Next]_vars => AgentInv' BY StepKeeps
<1>3. AgentInv => TypeOK BY DEF AgentInv
<1>4. QED BY <1>1, <1>2, <1>3, PTL DEF Spec

(* A committed trace with a final status belongs to a run that is over, has*)
(* an answer for every tool call and a tool call for every write.          *)
THEOREM FinalTraceCompleteHolds == Spec => []FinalTraceComplete
<1>1. Init => AgentInv BY InitHolds
<1>2. AgentInv /\ [Next]_vars => AgentInv' BY StepKeeps
<1>3. AgentInv => FinalTraceComplete
  <2> SUFFICES ASSUME AgentInv, db.status \in Final
               PROVE  /\ run.pc = "done" /\ db.answers = db.calls
                      /\ db.cost = run.spent /\ written <= db.orders
    BY DEF FinalTraceComplete
  <2>1. run.pc = "done" /\ db = tx BY DEF AgentInv, StatusInStep
  <2>2. QED
    BY <2>1, Types DEF AgentInv, TraceInStep, Alive, Calling
<1>4. QED BY <1>1, <1>2, <1>3, PTL DEF Spec

(* Every write Graph carried out has its committed tool call, save the one *)
(* in flight and those whose answer could not be parsed.                   *)
THEOREM WritesTracedHolds == Spec => []WritesTraced
<1>1. Init => AgentInv BY InitHolds
<1>2. AgentInv /\ [Next]_vars => AgentInv' BY StepKeeps
<1>3. AgentInv => WritesTraced BY DEF AgentInv
<1>4. QED BY <1>1, <1>2, <1>3, PTL DEF Spec

(* A run exceeds its budget by less than its dearest reply. *)
THEOREM SpendBoundedHolds == Spec => []SpendBounded
<1>1. Init => AgentInv BY InitHolds
<1>2. AgentInv /\ [Next]_vars => AgentInv' BY StepKeeps
<1>3. AgentInv => SpendBounded BY DEF AgentInv, SpendInStep
<1>4. QED BY <1>1, <1>2, <1>3, PTL DEF Spec

(* Every write and every row of a run was allowed when the run began, or   *)
(* was forbidden only by a switch thrown while it lasted.                  *)
THEOREM WritesAllowedHolds == Spec => WritesAllowed
<1>1. Init => AgentInv BY InitHolds
<1>2. AgentInv /\ [Next]_vars => AgentInv' BY StepKeeps
<1> DEFINE Allowed ==
      LET write == written' > written
          record == tx'.rows > tx.rows
      IN  /\ (write \/ record) =>
               /\ plugin.class.effects
               /\ plugin.dry => toggles > run.seen
          /\ (write /\ shadow) => toggles > run.seen
<1>3. ASSUME AgentInv, [Next]_vars PROVE [Allowed]_vars
  <2>1. ASSUME NEW what \in {"write", "record"}, Calls(what)
        PROVE  /\ plugin.class.effects
               /\ plugin.dry => toggles > run.seen
    <3>1. run.tool \in Tools /\ run.tool.does = what /\ Offered(run.tool)
      BY <2>1, <1>3 DEF Calls, AgentInv, TraceInStep, Alive, Calling
    <3>2. run.writes BY <3>1, ToolFacts DEF Offered
    <3>3. QED BY <3>2, <1>3 DEF AgentInv, FlagsInStep
  <2>2. CASE Post
    <3>1. Calls("write") /\ ~run.shadow /\ tx' = tx BY <2>2 DEF Post
    <3>2. shadow => toggles > run.seen BY <3>1, <1>3 DEF AgentInv, FlagsInStep
    <3>3. QED BY <2>1, <3>1, <3>2
  <2>3. CASE ToolRecords
    <3>1. Calls("record") /\ written' = written BY <2>3 DEF ToolRecords
    <3>2. ~(written' > written) BY <3>1, <1>3, Types DEF AgentInv
    <3>3. QED BY <2>1, <3>1, <3>2
  <2>4. CASE ~Post /\ ~ToolRecords
    <3>1. written' = written
      BY <2>4, <1>3
      DEF Next, Step, Model, Tool, Refuse, Begin, ModelFails, ModelAnswers,
          AskTool, ToolRefused, ToolReads, ToolAudited, ShadowBlocks,
          PostAudited, PostUnread, RoundOver, Finish, Commit, Die, Toggle, vars
    <3>2. tx'.rows <= tx.rows
      <4> USE <1>3, Types DEF AgentInv
      <4>1. CASE Die BY <4>1 DEF Die, RowsInStep
      <4>2. ASSUME NEW g \in BOOLEAN, Begin(g) PROVE tx'.rows <= tx.rows
        BY <4>2 DEF Begin, NoTrace
      <4>3. CASE tx' = tx BY <4>3
      <4>4. ASSUME Answer PROVE tx'.rows <= tx.rows
        BY <4>4 DEF Answer, Count, TypeOK, Traces
      <4>5. ASSUME NEW c \in 1..MaxCost, NEW k \in 0..MaxUses, ModelAnswers(c, k)
            PROVE  tx'.rows <= tx.rows
        BY <4>5 DEF ModelAnswers, Count, TypeOK, Traces
      <4>6. ASSUME NEW t \in Tools, AskTool(t) PROVE tx'.rows <= tx.rows
        <5>1. tx' = [tx EXCEPT !.calls = tx.calls + 1,
                               !.orders = tx.orders + Orders(t)]
          BY <4>6 DEF AskTool, Count, TypeOK, Traces
        <5>2. tx'.rows = tx.rows BY <5>1 DEF TypeOK, Traces
        <5>3. QED BY <5>2
      <4>7. CASE Finish BY <4>7 DEF Finish, TypeOK, Traces
      <4>8. QED
        BY <2>4, <4>1, <4>2, <4>3, <4>4, <4>5, <4>6, <4>7
        DEF Next, Step, Model, Tool, Refuse, ModelFails, ToolRefused,
            ToolReads, ToolAudited, ShadowBlocks, PostAudited, PostUnread,
            RoundOver, Commit, Toggle, vars
    <3>3. ~(written' > written) /\ ~(tx'.rows > tx.rows)
      <4>1. TypeOK' BY <1>2, <1>3 DEF AgentInv
      <4>2. tx'.rows \in Nat BY <4>1 DEF TypeOK, Traces
      <4>3. QED BY <3>1, <3>2, <4>2, <1>3, Types DEF AgentInv
    <3>4. QED BY <3>3
  <2>5. QED BY <2>2, <2>3, <2>4
<1>4. QED BY <1>1, <1>2, <1>3, PTL DEF Spec, WritesAllowed
=============================================================================
