----------------------------- MODULE ChatTurns ------------------------------
(***************************************************************************)
(* The turns of one chat conversation and the versions of the prompt of    *)
(* the specialist they consult.  A turn streams the rounds of the model    *)
(* and its consultations, and writes its messages and its trace in one     *)
(* transaction, which it commits at the end.  Meanwhile the prompt is      *)
(* edited, each edit again in a transaction of its own.                    *)
(***************************************************************************)
EXTENDS Naturals, FiniteSets

CONSTANTS Turns,
          Editors,      \* edits of the prompt
          Commands,     \* those of the seed command, the others of the route
          Seed, None,
          MaxRounds, MaxCalls, MaxFaults          \* bounds

VersionIds == Editors \cup {Seed}
Versions == [id : VersionIds, number : Nat \ {0}, status : {"active", "retired"}]
(* What an editor has read, and the row its transaction has locked. *)
Edits == [pc : {"idle", "read", "retired", "saved", "over"},
          prev : VersionIds \cup {None}, number : Nat,
          holds : VersionIds \cup {None}]

(* The calls the round has yet to make, those recorded without a result,   *)
(* the tokens counted for the message and for the trace, the versions      *)
(* consulted; and, as history, the versions active while the turn lasts.   *)
TurnStates ==
  [pc : {"idle", "model", "ask", "consult", "consulting", "finish", "tell", "over"},
   rounds : Nat, asked : 0..MaxCalls, open : Nat, total : Nat, traced : Nat,
   now : VersionIds \cup {None}, used : SUBSET VersionIds,
   live : SUBSET VersionIds, status : {"running", "completed", "failed"}]

ASSUME ChatAssumption ==
  /\ MaxRounds \in Nat \ {0} /\ MaxCalls \in Nat \ {0} /\ MaxFaults \in Nat
  /\ Seed \notin Editors /\ Commands \subseteq Editors
  /\ None \notin VersionIds /\ None \notin TurnStates

VARIABLES
  versions,   \* the prompt versions of the specialist, as committed
  active,     \* active_version_id
  edit,       \* what each editor is doing
  turn,       \* what each turn is doing, its trace and totals uncommitted
  chat,       \* history: what each turn has committed
  told,       \* history: the turns whose user has seen the done event
  faults

vars == <<versions, active, edit, turn, chat, told, faults>>

NoEdit == [pc |-> "idle", prev |-> None, number |-> 0, holds |-> None]

NoTurn == [pc |-> "idle", rounds |-> 0, asked |-> 0, open |-> 0, total |-> 0,
           traced |-> 0, now |-> None, used |-> {}, live |-> {},
           status |-> "running"]

Init ==
  /\ \/ versions = {[id |-> Seed, number |-> 1, status |-> "active"]} /\ active = Seed
     \/ versions = {} /\ active = None
  /\ edit = [e \in Editors |-> NoEdit]
  /\ turn = [t \in Turns |-> NoTurn]
  /\ chat = [t \in Turns |-> None]
  /\ told = {} /\ faults = 0

Row(v) == CHOOSE r \in versions : r.id = v
Fault == faults < MaxFaults /\ faults' = faults + 1

-----------------------------------------------------------------------------
(* Editing the prompt: the route, and the seed command with --force.       *)
EditVars == <<versions, active, edit>>
TurnVars == <<turn, chat, told>>

Editing(e, pc) == edit[e].pc = pc

(* The transaction is over, its lock with it. *)
EditEnds(e) == edit' = [edit EXCEPT ![e] = [NoEdit EXCEPT !.pc = "over"]]

(* The seed command finds the text unchanged, or is not forced. *)
Skip(e) ==
  /\ Editing(e, "idle") /\ e \in Commands
  /\ EditEnds(e)
  /\ UNCHANGED <<versions, active, TurnVars, faults>>

ReadActive(e) ==
  /\ Editing(e, "idle")
  /\ edit' = [edit EXCEPT ![e] =
       [pc |-> "read", prev |-> active, holds |-> None,
        number |-> IF active = None THEN 1 ELSE Row(active).number + 1]]
  /\ UNCHANGED <<versions, active, TurnVars, faults>>

Locked(v) == v # None /\ \E o \in Editors : edit[o].holds = v

(* The version that was read is retired, if there is one. This waits for   *)
(* an editor that has retired the same one and not ended.                  *)
Retire(e) ==
  /\ Editing(e, "read") /\ ~Locked(edit[e].prev)
  /\ edit' = [edit EXCEPT ![e].pc = "retired", ![e].holds = edit[e].prev]
  /\ UNCHANGED <<versions, active, TurnVars, faults>>

Numbered(n) == \E r \in versions : r.number = n

(* The new version is inserted and pointed at. This waits for an editor    *)
(* that has inserted one and not ended: both would be active.              *)
Save(e) ==
  /\ Editing(e, "retired")
  /\ \A o \in Editors : ~Editing(o, "saved")
  /\ ~Numbered(edit[e].number)
  /\ edit' = [edit EXCEPT ![e].pc = "saved"]
  /\ UNCHANGED <<versions, active, TurnVars, faults>>

(* Mutant: the error is answered, the transaction stays open. *)
ConflictLeftOpen(e) ==
  /\ Editing(e, "retired") /\ Numbered(edit[e].number)
  /\ edit' = [edit EXCEPT ![e].pc = "over"]
  /\ UNCHANGED <<versions, active, TurnVars, faults>>

(* The number is taken by now: the request fails. *)
Conflict(e) ==
  /\ Editing(e, "retired") /\ Numbered(edit[e].number)
  /\ EditEnds(e)
  /\ UNCHANGED <<versions, active, TurnVars, faults>>

Retired(r, v) == IF r.id = v THEN [r EXCEPT !.status = "retired"] ELSE r

(* Mutant: the pointer stays where it is. *)
CommitSaveUnflipped(e) ==
  /\ Editing(e, "saved")
  /\ versions' = {Retired(r, edit[e].prev) : r \in versions} \cup
       {[id |-> e, number |-> edit[e].number, status |-> "active"]}
  /\ EditEnds(e)
  /\ UNCHANGED <<active, TurnVars, faults>>

CommitSave(e) ==
  /\ Editing(e, "saved")
  /\ versions' = {Retired(r, edit[e].prev) : r \in versions} \cup
       {[id |-> e, number |-> edit[e].number, status |-> "active"]}
  /\ active' = e
  /\ EditEnds(e)
  /\ turn' = [t \in Turns |->
       IF turn[t].pc \in {"idle", "over"} THEN turn[t]
       ELSE [turn[t] EXCEPT !.live = @ \cup {e}]]
  /\ UNCHANGED <<chat, told, faults>>

(* A dry run of the command is rolled back. *)
RollBack(e) ==
  /\ Editing(e, "saved") /\ e \in Commands
  /\ EditEnds(e)
  /\ UNCHANGED <<versions, active, TurnVars, faults>>

(* The client disconnects, the process dies, or the database fails. *)
Abandon(e) ==
  /\ edit[e].pc \in {"read", "retired", "saved"} /\ Fault
  /\ EditEnds(e)
  /\ UNCHANGED <<versions, active, TurnVars>>

-----------------------------------------------------------------------------
(* A turn.                                                                 *)
Doing(t, pc) == turn[t].pc = pc

(* The user's message is flushed, the trace started, the history read; its *)
(* order and its text are left out.                                        *)
Open(t) ==
  /\ Doing(t, "idle")
  /\ turn' = [turn EXCEPT ![t] =
       [NoTurn EXCEPT !.pc = "model", !.live = {active} \ {None}]]
  /\ UNCHANGED <<EditVars, chat, told, faults>>

(* A round comes to its end: the answer, or calls of the tool. The loop of *)
(* the code has no limit of rounds: MaxRounds only keeps the model finite, *)
(* and a turn that reaches it goes no further.                             *)
ModelAnswers(t, n) ==
  /\ Doing(t, "model") /\ turn[t].rounds < MaxRounds
  /\ turn' = [turn EXCEPT
       ![t].pc = IF n = 0 THEN "finish" ELSE "ask",
       ![t].status = IF n = 0 THEN "completed" ELSE @,
       ![t].asked = n, ![t].rounds = @ + 1, ![t].total = @ + 1, ![t].traced = @ + 1]
  /\ UNCHANGED <<EditVars, chat, told, faults>>

(* The stream breaks: the turn is stored as failed, what was streamed of   *)
(* the round forgotten, and the user sees an error.                        *)
ModelFails(t) ==
  /\ Doing(t, "model")
  /\ turn' = [turn EXCEPT ![t].pc = "finish", ![t].status = "failed"]
  /\ UNCHANGED <<EditVars, chat, told, faults>>

(* The result of a call is recorded; the round is over with its last. *)
Answer(t, used, tokens) ==
  turn' = [turn EXCEPT
    ![t].pc = IF turn[t].asked = 1 THEN "model" ELSE "ask",
    ![t].asked = @ - 1, ![t].open = @ - 1, ![t].now = None,
    ![t].used = @ \cup used,
    ![t].total = @ + tokens, ![t].traced = @ + tokens]

(* A call is recorded. An unknown tool has its error at once. *)
UnknownTool(t) ==
  /\ Doing(t, "ask")
  /\ turn' = [turn EXCEPT
       ![t].pc = IF turn[t].asked = 1 THEN "model" ELSE "ask",
       ![t].asked = @ - 1]
  /\ UNCHANGED <<EditVars, chat, told, faults>>

AskSpecialist(t) ==
  /\ Doing(t, "ask")
  /\ turn' = [turn EXCEPT ![t].pc = "consult", ![t].open = @ + 1]
  /\ UNCHANGED <<EditVars, chat, told, faults>>

(* No such specialist, or no version of its prompt. *)
NoSpecialist(t) ==
  /\ Doing(t, "consult")
  /\ Answer(t, {}, 0)
  /\ UNCHANGED <<EditVars, chat, told, faults>>

(* Mutant: the version with the lowest number. *)
ReadPromptFirst(t) ==
  /\ Doing(t, "consult") /\ active # None
  /\ turn' = [turn EXCEPT ![t].pc = "consulting",
       ![t].now = (CHOOSE r \in versions :
                     \A o \in versions : r.number <= o.number).id]
  /\ UNCHANGED <<EditVars, chat, told, faults>>

(* The pointer is read, then the version it points at. *)
ReadPrompt(t) ==
  /\ Doing(t, "consult") /\ active # None
  /\ turn' = [turn EXCEPT ![t].pc = "consulting", ![t].now = active]
  /\ UNCHANGED <<EditVars, chat, told, faults>>

Consulted(t) ==
  /\ Doing(t, "consulting")
  /\ Answer(t, {turn[t].now}, 1)
  /\ UNCHANGED <<EditVars, chat, told, faults>>

(* Mutant: the failure ends the turn without a result. *)
ConsultationFailsUnanswered(t) ==
  /\ Doing(t, "consulting")
  /\ turn' = [turn EXCEPT ![t].pc = "finish", ![t].status = "failed"]
  /\ UNCHANGED <<EditVars, chat, told, faults>>

(* Its stream breaks: the call is answered with the error, its tokens are  *)
(* not counted, and the turn goes on.                                      *)
ConsultationFails(t) ==
  /\ Doing(t, "consulting")
  /\ Answer(t, {turn[t].now}, 0)
  /\ UNCHANGED <<EditVars, chat, told, faults>>

(* The trace is finished, the assistant's message added, all committed. *)
Finish(t) ==
  /\ Doing(t, "finish")
  /\ chat' = [chat EXCEPT ![t] = turn[t]]
  /\ turn' = [turn EXCEPT ![t] = [NoTurn EXCEPT !.pc =
       IF turn[t].status = "completed" THEN "tell" ELSE "over"]]
  /\ UNCHANGED <<EditVars, told, faults>>

(* Mutant: done is sent before the commit. *)
TellEarly(t) ==
  /\ turn[t].pc \in {"finish", "tell"} /\ turn[t].status # "failed"
  /\ told' = told \cup {t}
  /\ turn' = [turn EXCEPT ![t].pc = IF Doing(t, "tell") THEN "over" ELSE @]
  /\ UNCHANGED <<EditVars, chat, faults>>

Tell(t) ==
  /\ Doing(t, "tell")
  /\ told' = told \cup {t}
  /\ turn' = [turn EXCEPT ![t].pc = "over"]
  /\ UNCHANGED <<EditVars, chat, faults>>

(* The client disconnects, the process dies, or the database fails: the    *)
(* whole turn is rolled back, the user's message with it.                  *)
Drop(t) ==
  /\ turn[t].pc \notin {"idle", "over"} /\ Fault
  /\ turn' = [turn EXCEPT ![t] = [NoTurn EXCEPT !.pc = "over"]]
  /\ UNCHANGED <<EditVars, chat, told>>

EditStep(e) ==
  \/ ReadActive(e) \/ Skip(e) \/ Retire(e) \/ Save(e) \/ Conflict(e)
  \/ CommitSave(e) \/ RollBack(e)

TurnStep(t) ==
  \/ Open(t) \/ \E n \in 0..MaxCalls : ModelAnswers(t, n)
  \/ ModelFails(t) \/ UnknownTool(t) \/ AskSpecialist(t) \/ NoSpecialist(t)
  \/ ReadPrompt(t) \/ Consulted(t) \/ ConsultationFails(t)
  \/ Finish(t) \/ Tell(t)

Next ==
  \/ \E e \in Editors : EditStep(e) \/ Abandon(e)
  \/ \E t \in Turns : TurnStep(t) \/ Drop(t)

Spec == Init /\ [][Next]_vars

(* An editor whose step is not held up takes it; a turn need not go on. *)
FairSpec == Spec /\ \A e \in Editors : WF_vars(EditStep(e))

-----------------------------------------------------------------------------
TypeOK ==
  /\ versions \subseteq Versions /\ active \in VersionIds \cup {None}
  /\ edit \in [Editors -> Edits]
  /\ turn \in [Turns -> TurnStates]
  /\ chat \in [Turns -> TurnStates \cup {None}]
  /\ told \subseteq Turns
  /\ faults \in 0..MaxFaults

(* Whatever editors do at the same time, the specialist has one active     *)
(* version, the one it points at, and the numbers leave no gap.            *)
OneActiveVersion ==
  /\ {r.id : r \in {r \in versions : r.status = "active"}} = {active} \ {None}
  /\ {r.number : r \in versions} = 1..Cardinality(versions)

(* A stored turn has a result for every call it made, and its message and  *)
(* its trace count the same tokens.                                        *)
TurnRecorded ==
  \A t \in Turns : chat[t] # None =>
    /\ chat[t].open = 0
    /\ chat[t].total = chat[t].traced
    /\ chat[t].status \in {"completed", "failed"}

(* The versions a stored turn names can still be read, and each was active *)
(* at some moment of the turn.                                             *)
ConsultedWasActive ==
  \A t \in Turns : chat[t] # None =>
    chat[t].used \subseteq chat[t].live \cap {r.id : r \in versions}

(* Who has been told that the turn is done finds it stored and complete.   *)
DoneIsStored == \A t \in told : chat[t] # None /\ chat[t].status = "completed"

(* An editor that has to wait for the row or the number another one holds  *)
(* comes to an end, whether the other commits, fails at the unique number, *)
(* is rolled back or dies: no lock outlives its edit, none waits in a      *)
(* circle.  From the read on no editor can give up by itself.              *)
EditsEnd == \A e \in Editors : Editing(e, "read") ~> Editing(e, "over")
=============================================================================
