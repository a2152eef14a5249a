----------------------------- MODULE ChatProofs -----------------------------
(***************************************************************************)
(* Proofs about chat turns and prompt versions, for any editors and turns. *)
(*                                                                         *)
(* An editor that read the newest version has a number that is still free  *)
(* as long as nobody committed another, and that number tells that what it *)
(* read as active is active still.                                         *)
(***************************************************************************)
EXTENDS ChatTurns, FiniteSetTheorems, TLAPS

Ids == {r.id : r \in versions}
Card == Cardinality(versions)

Numbering ==
  /\ IsFiniteSet(versions)
  /\ \A r, q \in versions : r.id = q.id => r = q
  /\ \A r \in versions : r.id \in Editors => Editing(r.id, "over")
  /\ \A r \in versions : r.status = "active" => r.number = Card

Busy == {"read", "retired", "saved"}

EditsNumbered ==
  \A e \in Editors :
    /\ edit[e].pc \in Busy =>
         /\ edit[e].number \in 1..(Card + 1)
         /\ edit[e].number = Card + 1 => edit[e].prev = active
    /\ Editing(e, "saved") =>
         /\ edit[e].number = Card + 1
         /\ \A o \in Editors : Editing(o, "saved") => o = e

Recording == {"model", "ask", "consult", "consulting", "finish"}

(* A turn between two steps. *)
Good(x) ==
  /\ x.total = x.traced
  /\ x.open = IF x.pc \in {"consult", "consulting"} THEN 1 ELSE 0
  /\ x.pc \in {"ask", "consult", "consulting"} => x.asked > 0
  /\ x.pc = "finish" => x.status \in {"completed", "failed"}
  /\ x.pc = "consulting" => x.now \in x.live
  /\ x.used \subseteq x.live

TurnsGood ==
  \A t \in Turns :
    /\ Good(turn[t])
    /\ turn[t].live \subseteq Ids
    /\ turn[t].pc \in Recording => active \in turn[t].live \cup {None}

Stored(t) ==
  chat[t] # None /\ chat[t].status = "completed"

ChatGood ==
  /\ \A t \in Turns : chat[t] # None =>
       /\ chat[t].open = 0 /\ chat[t].total = chat[t].traced
       /\ chat[t].status \in {"completed", "failed"}
       /\ chat[t].used \subseteq chat[t].live \cap Ids
  /\ \A t \in Turns : Doing(t, "tell") => Stored(t)
  /\ \A t \in told : Doing(t, "over") /\ Stored(t)

ChatInv ==
  /\ TypeOK /\ Numbering /\ OneActiveVersion /\ EditsNumbered
  /\ TurnsGood /\ ChatGood

-----------------------------------------------------------------------------
LEMMA CardType == ASSUME Numbering PROVE Card \in Nat
BY FS_CardinalityType DEF Numbering, Card

LEMMA NoTurnType == NoTurn \in TurnStates /\ Good(NoTurn) /\ NoTurn # None
BY ChatAssumption DEF NoTurn, TurnStates, Good

LEMMA NoEditType == NoEdit \in Edits
BY DEF NoEdit, Edits

LEMMA InitRest ==
  ASSUME Init, versions \subseteq Versions, active \in VersionIds \cup {None}
  PROVE  TypeOK /\ EditsNumbered /\ TurnsGood /\ ChatGood
<1>1. \A e \in Editors : edit[e] = NoEdit BY DEF Init
<1>2. \A t \in Turns : turn[t] = NoTurn /\ chat[t] = None BY DEF Init
<1>3. TypeOK
  <2>1. edit \in [Editors -> Edits] BY NoEditType DEF Init
  <2>2. turn \in [Turns -> TurnStates] BY NoTurnType DEF Init
  <2>3. chat \in [Turns -> TurnStates \cup {None}] BY DEF Init
  <2>4. told \subseteq Turns /\ faults \in 0..MaxFaults
    BY ChatAssumption DEF Init
  <2>5. QED BY <2>1, <2>2, <2>3, <2>4 DEF TypeOK
<1>4. EditsNumbered BY <1>1 DEF EditsNumbered, Editing, NoEdit, Busy
<1>5. TurnsGood
  <2>1. NoTurn.live = {} /\ NoTurn.pc = "idle" BY DEF NoTurn
  <2>2. QED BY <1>2, <2>1, NoTurnType DEF TurnsGood, Recording
<1>6. ChatGood
  <2>1. told = {} BY DEF Init
  <2>2. NoTurn.pc = "idle" BY DEF NoTurn
  <2>3. QED BY <1>2, <2>1, <2>2 DEF ChatGood, Doing
<1>7. QED BY <1>3, <1>4, <1>5, <1>6

LEMMA InitHolds == ASSUME Init PROVE ChatInv
<1>1. CASE versions = {[id |-> Seed, number |-> 1, status |-> "active"]} /\ active = Seed
  <2> DEFINE s == [id |-> Seed, number |-> 1, status |-> "active"]
  <2>1. s \in Versions /\ s.id = Seed /\ s.number = 1 /\ s.status = "active"
    BY DEF Versions, VersionIds
  <2>2. versions = {s} BY <1>1
  <2> HIDE DEF s
  <2>3. IsFiniteSet(versions) /\ Card = 1 BY <2>2, FS_Singleton DEF Card
  <2>4. Seed # None /\ Seed \notin Editors BY ChatAssumption DEF VersionIds
  <2>5. {r.number : r \in versions} = 1..1 BY <2>1, <2>2
  <2>6. {r.id : r \in {r \in versions : r.status = "active"}} = {active} \ {None}
    BY <1>1, <2>1, <2>2, <2>4
  <2>7. OneActiveVersion BY <2>3, <2>5, <2>6 DEF OneActiveVersion, Card
  <2>8. Numbering BY <2>1, <2>2, <2>3, <2>4 DEF Numbering
  <2>9. versions \subseteq Versions /\ active \in VersionIds
    BY <1>1, <2>1, <2>2 DEF VersionIds
  <2>10. QED BY <2>7, <2>8, <2>9, InitRest DEF ChatInv
<1>2. CASE versions = {} /\ active = None
  <2>1. IsFiniteSet(versions) /\ Card = 0 BY <1>2, FS_EmptySet DEF Card
  <2>2. OneActiveVersion BY <1>2, <2>1 DEF OneActiveVersion, Card
  <2>3. Numbering BY <1>2, <2>1 DEF Numbering
  <2>4. QED BY <1>2, <2>2, <2>3, InitRest DEF ChatInv
<1>3. QED BY <1>1, <1>2 DEF Init

-----------------------------------------------------------------------------
(* Editing.                                                                *)

LEMMA FaultsBounded == ASSUME ChatInv PROVE faults \in 0..MaxFaults
BY DEF ChatInv, TypeOK

(* An editor moves on without a commit. *)
LEMMA EditMoves ==
  ASSUME ChatInv, NEW e \in Editors, NEW x \in Edits,
         ~Editing(e, "over"),
         edit' = [edit EXCEPT ![e] = x],
         UNCHANGED <<versions, active, TurnVars>>, faults' \in 0..MaxFaults,
         x.pc \in Busy =>
           /\ x.number \in 1..(Card + 1)
           /\ x.number = Card + 1 => x.prev = active,
         x.pc = "saved" =>
           /\ x.number = Card + 1
           /\ \A o \in Editors : ~Editing(o, "saved")
  PROVE  ChatInv'
<1> USE DEF ChatInv
<1>1. TypeOK' BY DEF TypeOK, TurnVars
<1>2. edit'[e] = x /\ \A o \in Editors \ {e} : edit'[o] = edit[o]
  BY DEF TypeOK
<1>3. Numbering' BY <1>2 DEF Numbering, Editing, Card
<1>4. OneActiveVersion' BY DEF OneActiveVersion
<1>5. Card' = Card BY DEF Card
<1>6. EditsNumbered' BY <1>2, <1>5 DEF EditsNumbered, Editing, Busy
<1>7. TurnsGood' BY DEF TurnsGood, TurnVars, Ids
<1>8. ChatGood' BY DEF ChatGood, Stored, TurnVars, Ids, Doing
<1>9. QED BY <1>1, <1>3, <1>4, <1>6, <1>7, <1>8

LEMMA ActiveRow ==
  ASSUME ChatInv, active # None
  PROVE  /\ active \in Ids
         /\ Row(active) \in versions /\ Row(active).number = Card
<1> USE DEF ChatInv
<1>1. PICK r \in versions : r.status = "active" /\ r.id = active
  BY DEF OneActiveVersion
<1>2. Row(active) \in versions /\ Row(active).id = active BY <1>1 DEF Row
<1>3. Row(active) = r BY <1>1, <1>2 DEF Numbering
<1>4. QED BY <1>1, <1>3 DEF Numbering, Ids

LEMMA ReadActiveKeeps ==
  ASSUME ChatInv, NEW e \in Editors, ReadActive(e) PROVE ChatInv'
<1> DEFINE n == IF active = None THEN 1 ELSE Row(active).number + 1
           x == [pc |-> "read", prev |-> active, holds |-> None, number |-> n]
<1>1. Card \in Nat BY CardType DEF ChatInv
<1>2. n \in 1..(Card + 1) BY <1>1, ActiveRow
<1>3. edit' = [edit EXCEPT ![e] = x] BY DEF ReadActive
<1>4. x \in Edits BY <1>1, <1>2 DEF Edits, ChatInv, TypeOK
<1>5. x.pc = "read" /\ x.number = n /\ x.prev = active OBVIOUS
<1>6. UNCHANGED <<versions, active, TurnVars, faults>> /\ ~Editing(e, "over")
  BY DEF ReadActive, Editing
<1> HIDE DEF n, x
<1>7. QED BY <1>2, <1>3, <1>4, <1>5, <1>6, FaultsBounded, EditMoves

LEMMA EditEndsKeeps ==
  ASSUME ChatInv, NEW e \in Editors, Skip(e) \/ Conflict(e) \/ RollBack(e)
  PROVE  ChatInv'
<1> DEFINE x == [NoEdit EXCEPT !.pc = "over"]
<1>1. x \in Edits /\ x.pc = "over" BY DEF NoEdit, Edits
<1>2. edit' = [edit EXCEPT ![e] = x] BY DEF Skip, Conflict, RollBack, EditEnds
<1>3. UNCHANGED <<versions, active, TurnVars, faults>> /\ ~Editing(e, "over")
  BY DEF Skip, Conflict, RollBack, Editing
<1> HIDE DEF x
<1>4. QED BY <1>1, <1>2, <1>3, FaultsBounded, EditMoves DEF Busy

LEMMA AbandonKeeps ==
  ASSUME ChatInv, NEW e \in Editors, Abandon(e) PROVE ChatInv'
<1> DEFINE x == [NoEdit EXCEPT !.pc = "over"]
<1>1. x \in Edits /\ x.pc = "over" BY DEF NoEdit, Edits
<1>2. edit' = [edit EXCEPT ![e] = x] BY DEF Abandon, EditEnds
<1>3. UNCHANGED <<versions, active, TurnVars>> /\ ~Editing(e, "over")
  BY DEF Abandon, Editing
<1>4. faults' \in 0..MaxFaults BY ChatAssumption DEF Abandon, Fault, ChatInv, TypeOK
<1> HIDE DEF x
<1>5. QED BY <1>1, <1>2, <1>3, <1>4, EditMoves DEF Busy

LEMMA RetireKeeps ==
  ASSUME ChatInv, NEW e \in Editors, Retire(e) PROVE ChatInv'
<1> DEFINE x == [edit[e] EXCEPT !.pc = "retired", !.holds = edit[e].prev]
<1>1. edit[e] \in Edits BY DEF ChatInv, TypeOK
<1>2. /\ x \in Edits /\ x.pc = "retired"
      /\ x.number = edit[e].number /\ x.prev = edit[e].prev
  BY <1>1 DEF Edits
<1>3. edit' = [edit EXCEPT ![e] = x] BY DEF Retire, ChatInv, TypeOK
<1>4. edit[e].pc = "read" BY DEF Retire, Editing
<1>5. /\ edit[e].number \in 1..(Card + 1)
      /\ edit[e].number = Card + 1 => edit[e].prev = active
  BY <1>4 DEF ChatInv, EditsNumbered, Busy
<1>6. UNCHANGED <<versions, active, TurnVars, faults>> /\ ~Editing(e, "over")
  BY DEF Retire, Editing
<1> HIDE DEF x
<1>7. QED BY <1>2, <1>3, <1>5, <1>6, FaultsBounded, EditMoves

LEMMA SaveKeeps ==
  ASSUME ChatInv, NEW e \in Editors, Save(e) PROVE ChatInv'
<1> DEFINE x == [edit[e] EXCEPT !.pc = "saved"]
<1>1. edit[e] \in Edits BY DEF ChatInv, TypeOK
<1>2. /\ x \in Edits /\ x.pc = "saved"
      /\ x.number = edit[e].number /\ x.prev = edit[e].prev
  BY <1>1 DEF Edits
<1>3. edit' = [edit EXCEPT ![e] = x] BY DEF Save
<1>4. edit[e].pc = "retired" BY DEF Save, Editing
<1>5. /\ edit[e].number \in 1..(Card + 1)
      /\ edit[e].number = Card + 1 => edit[e].prev = active
  BY <1>4 DEF ChatInv, EditsNumbered, Busy
<1>6. edit[e].number \notin 1..Card
  BY DEF Save, Numbered, ChatInv, OneActiveVersion, Card
<1>7. edit[e].number = Card + 1 BY <1>5, <1>6, CardType DEF ChatInv
<1>8. /\ UNCHANGED <<versions, active, TurnVars, faults>>
      /\ ~Editing(e, "over") /\ \A o \in Editors : ~Editing(o, "saved")
  BY DEF Save, Editing
<1> HIDE DEF x
<1>9. QED BY <1>2, <1>3, <1>5, <1>7, <1>8, FaultsBounded, EditMoves

(* The versions after a commit: the others as before, all retired, and the *)
(* new one.                                                                *)
LEMMA CommitSaveKeeps ==
  ASSUME ChatInv, NEW e \in Editors, CommitSave(e) PROVE ChatInv'
<1> USE DEF ChatInv
<1> DEFINE n == edit[e].number
           new == [id |-> e, number |-> n, status |-> "active"]
           old == {Retired(r, active) : r \in versions}
<1>1. Editing(e, "saved") /\ n = Card + 1 /\ edit[e].prev = active
  BY DEF CommitSave, EditsNumbered, Editing, Busy
<1>2. versions' = old \cup {new} BY <1>1 DEF CommitSave
<1>3. new \in Versions /\ new.id = e /\ new.number = n /\ new.status = "active"
  BY <1>1, CardType DEF Versions, VersionIds
<1>4. e # None /\ active' = e /\ e \in VersionIds
  BY ChatAssumption DEF CommitSave, VersionIds
<1>5. \A r \in versions :
        /\ Retired(r, active) \in Versions
        /\ Retired(r, active).id = r.id /\ Retired(r, active).number = r.number
        /\ Retired(r, active).status = "retired"
  <2> SUFFICES ASSUME NEW r \in versions
               PROVE  /\ Retired(r, active) \in Versions
                      /\ Retired(r, active).id = r.id
                      /\ Retired(r, active).number = r.number
                      /\ Retired(r, active).status = "retired"
    OBVIOUS
  <2>1. r \in Versions BY DEF TypeOK
  <2>2. r.id # active => r.status # "active" BY DEF OneActiveVersion
  <2>3. QED BY <2>1, <2>2 DEF Retired, Versions
<1>6. \A r \in versions : r.id # e BY <1>1 DEF Numbering, Editing
<1> HIDE DEF new
<1>7. new \notin old BY <1>3, <1>5, <1>6
<1>8. IsFiniteSet(old) /\ Cardinality(old) = Card
  <2> DEFINE f == [r \in versions |-> Retired(r, active)]
  <2>1. f \in Surjection(versions, old) BY DEF Surjection
  <2>2. f \in Injection(versions, old)
    BY <1>5 DEF Injection, IsInjective, Numbering
  <2>3. IsFiniteSet(versions) BY DEF Numbering
  <2> HIDE DEF f, old
  <2>4. QED BY <2>1, <2>2, <2>3, FS_Surjection DEF Card
<1> HIDE DEF old
<1>9. IsFiniteSet(versions') /\ Card' = Card + 1
  BY <1>2, <1>7, <1>8, FS_AddElement DEF Card
<1> USE DEF old
<1>10. Card \in Nat BY CardType
<1>11. \A r \in versions' : r = new \/ (\E q \in versions : r = Retired(q, active))
  BY <1>2 DEF old
<1>12. Numbering'
  <2>1. \A r, q \in versions' : r.id = q.id => r = q
    <3> SUFFICES ASSUME NEW r \in versions', NEW q \in versions', r.id = q.id
                 PROVE  r = q
      OBVIOUS
    <3>1. CASE r = new \/ q = new BY <1>3, <1>5, <1>6, <1>11, <3>1
    <3>2. CASE r # new /\ q # new
      <4>1. PICK a \in versions : r = Retired(a, active) BY <1>11, <3>2
      <4>2. PICK b \in versions : q = Retired(b, active) BY <1>11, <3>2
      <4>3. a = b BY <1>5, <4>1, <4>2 DEF Numbering
      <4>4. QED BY <4>1, <4>2, <4>3
    <3>3. QED BY <3>1, <3>2
  <2>2. edit'[e].pc = "over" /\ \A o \in Editors \ {e} : edit'[o] = edit[o]
    BY DEF TypeOK, CommitSave, EditEnds, NoEdit
  <2>3. \A r \in versions' : r.id \in Editors => Editing(r.id, "over")'
    <3> SUFFICES ASSUME NEW r \in versions', r.id \in Editors
                 PROVE  edit'[r.id].pc = "over"
      BY DEF Editing
    <3>1. CASE r = new BY <1>3, <2>2, <3>1
    <3>2. CASE r # new
      <4>1. PICK q \in versions : r = Retired(q, active) BY <1>11, <3>2
      <4>2. r.id = q.id /\ r.id # e BY <1>5, <1>6, <4>1
      <4>3. edit[r.id].pc = "over" BY <4>2 DEF Numbering, Editing
      <4>4. QED BY <2>2, <4>2, <4>3
    <3>3. QED BY <3>1, <3>2
  <2>4. \A r \in versions' : r.status = "active" => r.number = Card'
    BY <1>1, <1>3, <1>5, <1>9, <1>11
  <2>5. QED BY <1>9, <2>1, <2>3, <2>4 DEF Numbering
<1>13. OneActiveVersion'
  <2>1. new \in versions' /\ \A r \in versions : Retired(r, active) \in versions'
    BY <1>2 DEF old
  <2>2. {r.id : r \in {r \in versions' : r.status = "active"}} = {e}
    BY <1>3, <1>5, <1>11, <2>1
  <2>3. {r.number : r \in versions} = 1..Card BY DEF OneActiveVersion, Card
  <2>4. {r.number : r \in versions'} = {r.number : r \in versions} \cup {n}
    BY <1>3, <1>5, <1>11, <2>1
  <2>5. (1..Card) \cup {Card + 1} = 1..(Card + 1) BY <1>10
  <2>6. {r.number : r \in versions'} = 1..Card' BY <1>1, <1>9, <2>3, <2>4, <2>5
  <2>7. QED BY <1>4, <2>2, <2>6 DEF OneActiveVersion, Card
<1>14. EditsNumbered'
  <2> SUFFICES ASSUME NEW o \in Editors
               PROVE  /\ edit'[o].pc \in Busy =>
                           /\ edit'[o].number \in 1..(Card' + 1)
                           /\ edit'[o].number = Card' + 1 => edit'[o].prev = active'
                      /\ edit'[o].pc # "saved"
    BY DEF EditsNumbered, Editing
  <2>1. edit'[e].pc = "over" /\ "over" \notin Busy /\ (o # e => edit'[o] = edit[o])
    BY DEF TypeOK, CommitSave, EditEnds, NoEdit, Busy
  <2>2. o # e => edit[o].pc # "saved" BY <1>1 DEF EditsNumbered, Editing
  <2>3. edit[o].pc \in Busy => edit[o].number \in 1..(Card + 1)
    BY DEF EditsNumbered
  <2>4. edit[o].pc \in Busy =>
          edit[o].number \in 1..(Card' + 1) /\ edit[o].number # Card' + 1
    BY <1>9, <1>10, <2>3
  <2>5. QED BY <2>1, <2>2, <2>4
<1>15. Ids' = Ids \cup {e}
  <2>1. new \in versions' /\ \A r \in versions : Retired(r, active) \in versions'
    BY <1>2 DEF old
  <2>2. QED BY <1>3, <1>5, <1>11, <2>1 DEF Ids
<1>16. \A t \in Turns :
         /\ turn'[t] \in TurnStates
         /\ turn'[t].pc = turn[t].pc
         /\ Good(turn'[t])
         /\ turn'[t].live \subseteq Ids'
         /\ turn[t].pc \in Recording => e \in turn'[t].live
  <2> SUFFICES ASSUME NEW t \in Turns
               PROVE  /\ turn'[t] \in TurnStates
                      /\ turn'[t].pc = turn[t].pc
                      /\ Good(turn'[t])
                      /\ turn'[t].live \subseteq Ids'
                      /\ turn[t].pc \in Recording => e \in turn'[t].live
    OBVIOUS
  <2>1. turn[t] \in TurnStates /\ Good(turn[t]) /\ turn[t].live \subseteq Ids
    BY DEF TypeOK, TurnsGood
  <2>2. CASE turn[t].pc \in {"idle", "over"}
    <3>1. turn'[t] = turn[t] BY <2>2 DEF CommitSave
    <3>2. QED BY <1>15, <2>1, <2>2, <3>1 DEF Recording
  <2>3. CASE turn[t].pc \notin {"idle", "over"}
    <3>1. turn'[t] = [turn[t] EXCEPT !.live = @ \cup {e}] BY <2>3 DEF CommitSave
    <3>2. QED BY <1>4, <1>15, <2>1, <3>1 DEF TurnStates, Good
  <2>4. QED BY <2>2, <2>3
<1>17. TurnsGood' BY <1>4, <1>16 DEF TurnsGood
<1>18. chat' = chat /\ told' = told /\ faults' = faults BY DEF CommitSave
<1>19. ChatGood'
  <2>1. \A t \in Turns : Doing(t, "tell")' <=> Doing(t, "tell") BY <1>16 DEF Doing
  <2>2. \A t \in Turns : Doing(t, "over")' <=> Doing(t, "over") BY <1>16 DEF Doing
  <2>3. \A t \in Turns : Stored(t)' <=> Stored(t) BY <1>18 DEF Stored
  <2>4. told \subseteq Turns BY DEF TypeOK
  <2>5. QED BY <1>15, <1>18, <2>1, <2>2, <2>3, <2>4 DEF ChatGood
<1>20. TypeOK'
  <2>1. versions' \subseteq Versions BY <1>3, <1>5, <1>11
  <2>2. edit' \in [Editors -> Edits]
    <3>1. [NoEdit EXCEPT !.pc = "over"] \in Edits BY DEF NoEdit, Edits
    <3>2. QED BY <3>1 DEF CommitSave, EditEnds, TypeOK
  <2>3. turn' \in [Turns -> TurnStates] BY <1>16 DEF CommitSave
  <2>4. QED BY <1>4, <1>18, <2>1, <2>2, <2>3 DEF TypeOK
<1>21. QED BY <1>12, <1>13, <1>14, <1>17, <1>19, <1>20

-----------------------------------------------------------------------------
(* Turns.                                                                  *)

(* A turn that goes on with its rounds and its calls. *)
LEMMA MovedKeeps ==
  ASSUME ChatInv, NEW t \in Turns, NEW x \in TurnStates,
         turn' = [turn EXCEPT ![t] = x],
         turn[t].pc \in Recording, x.pc \in Recording,
         Good(x), x.live = turn[t].live,
         UNCHANGED <<EditVars, chat, told, faults>>
  PROVE  ChatInv'
<1> USE DEF ChatInv
<1>1. turn'[t] = x /\ \A o \in Turns \ {t} : turn'[o] = turn[o] BY DEF TypeOK
<1>2. TypeOK' BY DEF TypeOK, EditVars
<1>3. Numbering' BY DEF Numbering, Card, Editing, EditVars
<1>4. OneActiveVersion' BY DEF OneActiveVersion, EditVars
<1>5. EditsNumbered' BY DEF EditsNumbered, Card, Editing, EditVars
<1>6. Ids' = Ids /\ active' = active BY DEF Ids, EditVars
<1>7. TurnsGood' BY <1>1, <1>6 DEF TurnsGood
<1>8. ChatGood'
  <2>1. \A o \in Turns : Doing(o, "tell")' <=> Doing(o, "tell")
    BY <1>1 DEF Doing, Recording
  <2>2. \A o \in Turns : Doing(o, "over")' <=> Doing(o, "over")
    BY <1>1 DEF Doing, Recording
  <2>3. \A o \in Turns : Stored(o)' <=> Stored(o) BY DEF Stored
  <2>4. told \subseteq Turns BY DEF TypeOK
  <2>5. QED BY <1>6, <2>1, <2>2, <2>3, <2>4 DEF ChatGood
<1>9. QED BY <1>2, <1>3, <1>4, <1>5, <1>7, <1>8

(* A turn that begins, is stored, told or dropped. *)
LEMMA PassedKeeps ==
  ASSUME ChatInv, NEW t \in Turns, NEW x \in TurnStates,
         turn' = [turn EXCEPT ![t] = x],
         x.pc \in {"model", "tell", "over"},
         Good(x), x.live \subseteq Ids,
         x.pc = "model" => active \in x.live \cup {None},
         UNCHANGED EditVars, ChatGood',
         chat' \in [Turns -> TurnStates \cup {None}], told' \subseteq Turns,
         faults' \in 0..MaxFaults
  PROVE  ChatInv'
<1> USE DEF ChatInv
<1>1. turn'[t] = x /\ \A o \in Turns \ {t} : turn'[o] = turn[o] BY DEF TypeOK
<1>2. Numbering' BY DEF Numbering, Card, Editing, EditVars
<1>3. OneActiveVersion' BY DEF OneActiveVersion, EditVars
<1>4. EditsNumbered' BY DEF EditsNumbered, Card, Editing, EditVars
<1>5. Ids' = Ids /\ active' = active BY DEF Ids, EditVars
<1>6. TurnsGood' BY <1>1, <1>5 DEF TurnsGood, Recording
<1>7. TypeOK' BY DEF TypeOK, EditVars
<1>8. QED BY <1>2, <1>3, <1>4, <1>6, <1>7

LEMMA RoundKeeps ==
  ASSUME ChatInv, NEW t \in Turns,
         (\E n \in 0..MaxCalls : ModelAnswers(t, n)) \/ ModelFails(t)
  PROVE  ChatInv'
<1>1. turn[t] \in TurnStates /\ Good(turn[t]) BY DEF ChatInv, TypeOK, TurnsGood
<1>2. turn[t].pc = "model" BY DEF ModelAnswers, ModelFails, Doing
<1>3. UNCHANGED <<EditVars, chat, told, faults>> BY DEF ModelAnswers, ModelFails
<1>4. ASSUME NEW n \in 0..MaxCalls, ModelAnswers(t, n) PROVE ChatInv'
  <2> DEFINE x == [turn[t] EXCEPT
        !.pc = IF n = 0 THEN "finish" ELSE "ask",
        !.status = IF n = 0 THEN "completed" ELSE @,
        !.asked = n, !.rounds = @ + 1, !.total = @ + 1, !.traced = @ + 1]
  <2>1. turn' = [turn EXCEPT ![t] = x] BY <1>4 DEF ModelAnswers, ChatInv, TypeOK
  <2>2. x \in TurnStates
    <3>1. /\ turn[t].rounds + 1 \in Nat
          /\ turn[t].total + 1 \in Nat /\ turn[t].traced + 1 \in Nat
      BY <1>1 DEF TurnStates
    <3>2. QED BY <1>1, <3>1 DEF TurnStates
  <2>3. Good(x) BY <1>1, <1>2, <1>4, ChatAssumption DEF TurnStates, Good
  <2>4. x.pc \in Recording /\ x.live = turn[t].live BY <1>1 DEF TurnStates, Recording
  <2> HIDE DEF x
  <2>5. QED BY <1>2, <1>3, <2>1, <2>2, <2>3, <2>4, MovedKeeps DEF Recording
<1>5. CASE ModelFails(t)
  <2> DEFINE x == [turn[t] EXCEPT !.pc = "finish", !.status = "failed"]
  <2>1. turn' = [turn EXCEPT ![t] = x] BY <1>5 DEF ModelFails, ChatInv, TypeOK
  <2>2. x \in TurnStates BY <1>1 DEF TurnStates
  <2>3. Good(x) BY <1>1, <1>2 DEF TurnStates, Good
  <2>4. x.pc \in Recording /\ x.live = turn[t].live BY <1>1 DEF TurnStates, Recording
  <2> HIDE DEF x
  <2>5. QED BY <1>2, <1>3, <2>1, <2>2, <2>3, <2>4, MovedKeeps DEF Recording
<1>6. QED BY <1>4, <1>5

(* A call that gets its result. *)
LEMMA AnswerKeeps ==
  ASSUME ChatInv, NEW t \in Turns, NEW used \in SUBSET turn[t].live,
         NEW tokens \in Nat, Answer(t, used, tokens),
         turn[t].pc \in {"consult", "consulting"},
         UNCHANGED <<EditVars, chat, told, faults>>
  PROVE  ChatInv'
<1> DEFINE x == [turn[t] EXCEPT
      !.pc = IF turn[t].asked = 1 THEN "model" ELSE "ask",
      !.asked = @ - 1, !.open = @ - 1, !.now = None, !.used = @ \cup used,
      !.total = @ + tokens, !.traced = @ + tokens]
<1>1. turn[t] \in TurnStates /\ Good(turn[t]) BY DEF ChatInv, TypeOK, TurnsGood
<1>2. turn' = [turn EXCEPT ![t] = x] BY DEF Answer, ChatInv, TypeOK
<1>3. turn[t].asked \in 1..MaxCalls /\ turn[t].open = 1
  BY <1>1, ChatAssumption DEF TurnStates, Good
<1>4. x \in TurnStates
  <2>1. turn[t].asked - 1 \in 0..MaxCalls /\ turn[t].open - 1 \in Nat
    BY <1>3, ChatAssumption
  <2>2. turn[t].total + tokens \in Nat /\ turn[t].traced + tokens \in Nat
    BY <1>1 DEF TurnStates
  <2>3. turn[t].used \cup used \in SUBSET VersionIds BY <1>1 DEF TurnStates
  <2>4. QED BY <1>1, <2>1, <2>2, <2>3 DEF TurnStates
<1>5. Good(x)
  <2>1. x.total = x.traced /\ x.used \subseteq x.live
    BY <1>1 DEF TurnStates, Good
  <2>2. x.open = 0 /\ x.asked = turn[t].asked - 1
    BY <1>1, <1>3 DEF TurnStates
  <2>3. x.pc = (IF turn[t].asked = 1 THEN "model" ELSE "ask")
    BY <1>1 DEF TurnStates
  <2> HIDE DEF x
  <2>4. x.pc = "ask" => x.asked > 0 BY <1>3, <2>2, <2>3, ChatAssumption
  <2>5. QED BY <2>1, <2>2, <2>3, <2>4 DEF Good
<1>6. x.pc \in Recording /\ x.live = turn[t].live BY <1>1 DEF TurnStates, Recording
<1> HIDE DEF x
<1>7. QED BY <1>2, <1>4, <1>5, <1>6, MovedKeeps DEF Recording

LEMMA CallKeeps ==
  ASSUME ChatInv, NEW t \in Turns,
         \/ UnknownTool(t) \/ AskSpecialist(t) \/ NoSpecialist(t)
         \/ ReadPrompt(t) \/ Consulted(t) \/ ConsultationFails(t)
  PROVE  ChatInv'
<1>1. turn[t] \in TurnStates /\ Good(turn[t]) BY DEF ChatInv, TypeOK, TurnsGood
<1>2. CASE UnknownTool(t)
  <2> DEFINE x == [turn[t] EXCEPT
        !.pc = IF turn[t].asked = 1 THEN "model" ELSE "ask", !.asked = @ - 1]
  <2>1. turn' = [turn EXCEPT ![t] = x] BY <1>2 DEF UnknownTool, ChatInv, TypeOK
  <2>2. turn[t].pc = "ask" /\ UNCHANGED <<EditVars, chat, told, faults>>
    BY <1>2 DEF UnknownTool, Doing
  <2>3. turn[t].asked \in 1..MaxCalls
    BY <1>1, <2>2, ChatAssumption DEF TurnStates, Good
  <2>4. x \in TurnStates
    <3>1. turn[t].asked - 1 \in 0..MaxCalls BY <2>3, ChatAssumption
    <3>2. QED BY <1>1, <3>1 DEF TurnStates
  <2>5. Good(x) BY <1>1, <2>2, <2>3, ChatAssumption DEF TurnStates, Good
  <2>6. x.pc \in Recording /\ x.live = turn[t].live BY <1>1 DEF TurnStates, Recording
  <2> HIDE DEF x
  <2>7. QED BY <2>1, <2>2, <2>4, <2>5, <2>6, MovedKeeps DEF Recording
<1>3. CASE AskSpecialist(t)
  <2> DEFINE x == [turn[t] EXCEPT !.pc = "consult", !.open = @ + 1]
  <2>1. turn' = [turn EXCEPT ![t] = x] BY <1>3 DEF AskSpecialist, ChatInv, TypeOK
  <2>2. turn[t].pc = "ask" /\ UNCHANGED <<EditVars, chat, told, faults>>
    BY <1>3 DEF AskSpecialist, Doing
  <2>3. x \in TurnStates
    <3>1. turn[t].open + 1 \in Nat BY <1>1 DEF TurnStates
    <3>2. QED BY <1>1, <3>1 DEF TurnStates
  <2>4. Good(x) BY <1>1, <2>2 DEF TurnStates, Good
  <2>5. x.pc \in Recording /\ x.live = turn[t].live BY <1>1 DEF TurnStates, Recording
  <2> HIDE DEF x
  <2>6. QED BY <2>1, <2>2, <2>3, <2>4, <2>5, MovedKeeps DEF Recording
<1>4. CASE NoSpecialist(t)
  BY <1>4, AnswerKeeps DEF NoSpecialist, Doing
<1>5. CASE ReadPrompt(t)
  <2> DEFINE x == [turn[t] EXCEPT !.pc = "consulting", !.now = active]
  <2>1. turn' = [turn EXCEPT ![t] = x] BY <1>5 DEF ReadPrompt, ChatInv, TypeOK
  <2>2. turn[t].pc = "consult" /\ UNCHANGED <<EditVars, chat, told, faults>>
    BY <1>5 DEF ReadPrompt, Doing
  <2>3. active \in turn[t].live
    BY <1>5, <2>2 DEF ReadPrompt, ChatInv, TurnsGood, Recording
  <2>4. x \in TurnStates BY <1>1 DEF TurnStates, ChatInv, TypeOK
  <2>5. Good(x) BY <1>1, <2>2, <2>3 DEF TurnStates, Good
  <2>6. x.pc \in Recording /\ x.live = turn[t].live BY <1>1 DEF TurnStates, Recording
  <2> HIDE DEF x
  <2>7. QED BY <2>1, <2>2, <2>4, <2>5, <2>6, MovedKeeps DEF Recording
<1>6. CASE Consulted(t) \/ ConsultationFails(t)
  <2>1. turn[t].pc = "consulting" /\ UNCHANGED <<EditVars, chat, told, faults>>
    BY <1>6 DEF Consulted, ConsultationFails, Doing
  <2>2. {turn[t].now} \in SUBSET turn[t].live BY <1>1, <2>1 DEF Good
  <2>3. Answer(t, {turn[t].now}, 1) \/ Answer(t, {turn[t].now}, 0)
    BY <1>6 DEF Consulted, ConsultationFails
  <2>4. QED BY <2>1, <2>2, <2>3, AnswerKeeps
<1>7. QED BY <1>2, <1>3, <1>4, <1>5, <1>6

LEMMA OpenKeeps == ASSUME ChatInv, NEW t \in Turns, Open(t) PROVE ChatInv'
<1> DEFINE x == [NoTurn EXCEPT !.pc = "model", !.live = {active} \ {None}]
<1>1. turn' = [turn EXCEPT ![t] = x] BY DEF Open
<1>2. active \in VersionIds \cup {None} BY DEF ChatInv, TypeOK
<1>3. x \in TurnStates
  <2>1. {active} \ {None} \in SUBSET VersionIds BY <1>2
  <2>2. QED BY <2>1, NoTurnType DEF NoTurn, TurnStates
<1>4. Good(x) /\ x.pc = "model" /\ x.live = {active} \ {None}
  BY DEF NoTurn, Good
<1>5. x.live \subseteq Ids BY <1>4, ActiveRow
<1>6. turn[t].pc = "idle" /\ UNCHANGED <<EditVars, chat, told, faults>>
  BY DEF Open, Doing
<1> HIDE DEF x
<1>7. turn'[t] = x /\ \A o \in Turns \ {t} : turn'[o] = turn[o]
  BY <1>1 DEF ChatInv, TypeOK
<1>8. ChatGood'
  <2>1. \A o \in Turns : Doing(o, "tell")' <=> Doing(o, "tell")
    BY <1>4, <1>6, <1>7 DEF Doing
  <2>2. \A o \in Turns : Doing(o, "over")' <=> Doing(o, "over")
    BY <1>4, <1>6, <1>7 DEF Doing
  <2>3. \A o \in Turns : Stored(o)' <=> Stored(o) BY <1>6 DEF Stored
  <2>4. told \subseteq Turns /\ Ids' = Ids
    BY <1>6 DEF ChatInv, TypeOK, Ids, EditVars
  <2>5. QED BY <1>6, <2>1, <2>2, <2>3, <2>4 DEF ChatInv, ChatGood
<1>9. QED
  BY <1>1, <1>3, <1>4, <1>5, <1>6, <1>8, PassedKeeps DEF ChatInv, TypeOK

LEMMA FinishKeeps == ASSUME ChatInv, NEW t \in Turns, Finish(t) PROVE ChatInv'
<1> DEFINE x == [NoTurn EXCEPT !.pc =
                   IF turn[t].status = "completed" THEN "tell" ELSE "over"]
<1>1. turn' = [turn EXCEPT ![t] = x] /\ chat' = [chat EXCEPT ![t] = turn[t]]
  BY DEF Finish
<1>2. x \in TurnStates BY NoTurnType DEF NoTurn, TurnStates
<1>3. /\ Good(x) /\ x.live = {}
      /\ x.pc = (IF turn[t].status = "completed" THEN "tell" ELSE "over")
  BY DEF NoTurn, Good
<1>4. turn[t].pc = "finish" /\ UNCHANGED <<EditVars, told, faults>>
  BY DEF Finish, Doing
<1>5. turn[t] \in TurnStates /\ Good(turn[t]) /\ turn[t].live \subseteq Ids
  BY DEF ChatInv, TypeOK, TurnsGood
<1> HIDE DEF x
<1>6. /\ turn'[t] = x /\ chat'[t] = turn[t]
      /\ \A o \in Turns \ {t} : turn'[o] = turn[o] /\ chat'[o] = chat[o]
  BY <1>1 DEF ChatInv, TypeOK
<1>7. Ids' = Ids BY <1>4 DEF Ids, EditVars
<1>8. t \notin told BY <1>4 DEF ChatInv, ChatGood, Doing
<1>9. ChatGood'
  <2>1. /\ turn[t].open = 0 /\ turn[t].total = turn[t].traced
        /\ turn[t].status \in {"completed", "failed"}
        /\ turn[t].used \subseteq turn[t].live \cap Ids
    BY <1>4, <1>5 DEF Good
  <2>2. turn[t] # None BY <1>5, ChatAssumption
  <2>3. Doing(t, "tell")' => Stored(t)' BY <1>3, <1>6, <2>2 DEF Doing, Stored
  <2>4. \A o \in Turns \ {t} :
          /\ Doing(o, "tell")' <=> Doing(o, "tell")
          /\ Doing(o, "over")' <=> Doing(o, "over")
          /\ Stored(o)' <=> Stored(o)
    BY <1>6 DEF Doing, Stored
  <2>5. told \subseteq Turns BY DEF ChatInv, TypeOK
  <2>6. \A o \in Turns : chat'[o] # None =>
          /\ chat'[o].open = 0 /\ chat'[o].total = chat'[o].traced
          /\ chat'[o].status \in {"completed", "failed"}
          /\ chat'[o].used \subseteq chat'[o].live \cap Ids
    BY <1>6, <2>1 DEF ChatInv, ChatGood
  <2>7. QED BY <1>4, <1>7, <1>8, <2>3, <2>4, <2>5, <2>6 DEF ChatInv, ChatGood
<1>10. chat' \in [Turns -> TurnStates \cup {None}]
  BY <1>1, <1>5 DEF ChatInv, TypeOK
<1>11. QED
  BY <1>1, <1>2, <1>3, <1>4, <1>9, <1>10, PassedKeeps DEF ChatInv, TypeOK

LEMMA TellKeeps == ASSUME ChatInv, NEW t \in Turns, Tell(t) PROVE ChatInv'
<1> DEFINE x == [turn[t] EXCEPT !.pc = "over"]
<1>1. turn' = [turn EXCEPT ![t] = x] BY DEF Tell, ChatInv, TypeOK
<1>2. turn[t].pc = "tell" /\ UNCHANGED <<EditVars, chat, faults>>
  BY DEF Tell, Doing
<1>3. turn[t] \in TurnStates /\ Good(turn[t]) /\ turn[t].live \subseteq Ids
  BY DEF ChatInv, TypeOK, TurnsGood
<1>4. x \in TurnStates /\ x.pc = "over" /\ x.live = turn[t].live
  BY <1>3 DEF TurnStates
<1>5. Good(x) BY <1>2, <1>3 DEF TurnStates, Good
<1> HIDE DEF x
<1>6. turn'[t] = x /\ \A o \in Turns \ {t} : turn'[o] = turn[o]
  BY <1>1 DEF ChatInv, TypeOK
<1>7. told' = told \cup {t} /\ told' \subseteq Turns BY DEF Tell, ChatInv, TypeOK
<1>8. ChatGood'
  <2>1. \A o \in Turns : Doing(o, "tell")' => Doing(o, "tell")
    BY <1>4, <1>6 DEF Doing
  <2>2. \A o \in Turns : Doing(o, "over") => Doing(o, "over")'
    BY <1>4, <1>6 DEF Doing
  <2>3. \A o \in Turns : Stored(o)' <=> Stored(o) BY <1>2 DEF Stored
  <2>4. Ids' = Ids BY <1>2 DEF Ids, EditVars
  <2>5. Stored(t) /\ Doing(t, "over")'
    BY <1>2, <1>4, <1>6 DEF ChatInv, ChatGood, Doing
  <2>6. QED BY <1>2, <1>7, <2>1, <2>2, <2>3, <2>4, <2>5 DEF ChatInv, ChatGood
<1>9. QED
  BY <1>1, <1>2, <1>3, <1>4, <1>5, <1>7, <1>8, PassedKeeps DEF ChatInv, TypeOK

LEMMA DropKeeps == ASSUME ChatInv, NEW t \in Turns, Drop(t) PROVE ChatInv'
<1> DEFINE x == [NoTurn EXCEPT !.pc = "over"]
<1>1. turn' = [turn EXCEPT ![t] = x] BY DEF Drop
<1>2. /\ UNCHANGED <<EditVars, chat, told>> /\ turn[t].pc # "over"
      /\ faults' \in 0..MaxFaults
  BY ChatAssumption DEF Drop, Fault, ChatInv, TypeOK
<1>3. x \in TurnStates BY NoTurnType DEF NoTurn, TurnStates
<1>4. Good(x) /\ x.live = {} /\ x.pc = "over" BY DEF NoTurn, Good
<1> HIDE DEF x
<1>5. turn'[t] = x /\ \A o \in Turns \ {t} : turn'[o] = turn[o]
  BY <1>1 DEF ChatInv, TypeOK
<1>6. ChatGood'
  <2>1. \A o \in Turns : Doing(o, "tell")' => Doing(o, "tell")
    BY <1>4, <1>5 DEF Doing
  <2>2. \A o \in Turns : Doing(o, "over") => Doing(o, "over")'
    BY <1>4, <1>5 DEF Doing
  <2>3. \A o \in Turns : Stored(o)' <=> Stored(o) BY <1>2 DEF Stored
  <2>4. told \subseteq Turns /\ Ids' = Ids
    BY <1>2 DEF ChatInv, TypeOK, Ids, EditVars
  <2>5. QED BY <1>2, <2>1, <2>2, <2>3, <2>4 DEF ChatInv, ChatGood
<1>7. QED BY <1>1, <1>2, <1>3, <1>4, <1>6, PassedKeeps DEF ChatInv, TypeOK

LEMMA StepKeeps == ASSUME ChatInv, [Next]_vars PROVE ChatInv'
<1>1. ASSUME NEW e \in Editors, EditStep(e) \/ Abandon(e) PROVE ChatInv'
  BY <1>1, ReadActiveKeeps, EditEndsKeeps, RetireKeeps, SaveKeeps, CommitSaveKeeps,
     AbandonKeeps
  DEF EditStep
<1>2. ASSUME NEW t \in Turns, TurnStep(t) \/ Drop(t) PROVE ChatInv'
  BY <1>2, OpenKeeps, RoundKeeps, CallKeeps, FinishKeeps, TellKeeps, DropKeeps
  DEF TurnStep
<1>3. CASE UNCHANGED vars
  BY <1>3 DEF ChatInv, TypeOK, Numbering, OneActiveVersion, EditsNumbered,
     TurnsGood, ChatGood, Stored, Ids, Card, Editing, Doing, vars
<1>4. QED BY <1>1, <1>2, <1>3 DEF Next

(* Every reachable state satisfies the invariant: editors have distinct    *)
(* numbers in hand, and a turn knows every version active while it lasts.  *)
THEOREM ChatInvariant == Spec => []ChatInv
<1>1. Init => ChatInv BY InitHolds
<1>2. ChatInv /\ [Next]_vars => ChatInv' BY StepKeeps
<1>3. QED BY <1>1, <1>2, PTL DEF Spec

(* The variables of the chat keep their types. *)
THEOREM ChatTypeCorrect == Spec => []TypeOK
<1>1. ChatInv => TypeOK BY DEF ChatInv
<1>2. QED BY <1>1, ChatInvariant, PTL

(* Whatever editors do at the same time, one version is active, the one    *)
(* the specialist points at, and the numbers leave no gap.                 *)
THEOREM OneActiveVersionHolds == Spec => []OneActiveVersion
<1>1. ChatInv => OneActiveVersion BY DEF ChatInv
<1>2. QED BY <1>1, ChatInvariant, PTL

(* A stored turn answered every call it made, and counted its tokens once  *)
(* for the message and once for the trace.                                 *)
THEOREM TurnRecordedHolds == Spec => []TurnRecorded
<1>1. ChatInv => TurnRecorded BY DEF ChatInv, ChatGood, TurnRecorded
<1>2. QED BY <1>1, ChatInvariant, PTL

(* A stored turn names versions that exist and were active while it ran.   *)
THEOREM ConsultedWasActiveHolds == Spec => []ConsultedWasActive
<1>1. ChatInv => ConsultedWasActive
  BY DEF ChatInv, ChatGood, ConsultedWasActive, Ids
<1>2. QED BY <1>1, ChatInvariant, PTL

(* The done event is sent for a turn that is committed and complete. *)
THEOREM DoneIsStoredHolds == Spec => []DoneIsStored
<1>1. ChatInv => DoneIsStored BY DEF ChatInv, ChatGood, Stored, DoneIsStored
<1>2. QED BY <1>1, ChatInvariant, PTL
=============================================================================
