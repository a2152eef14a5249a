---------------------------- MODULE IntakeProofs ----------------------------
(***************************************************************************)
(* Proofs about the mail intake, for any items, folders and bounds.        *)
(*                                                                         *)
(* A message that is open, that is dropped, still to be recovered and not  *)
(* overtaken by a renewal, lies in the window of its folder's row; and     *)
(* while the backfill works on the inbox, an open message that it does not *)
(* have on its list came after the backfill began.  The second needs a     *)
(* listing that holds the whole window.                                    *)
(***************************************************************************)
EXTENDS MailIntake, FiniteSetTheorems, TLAPS

Open(i) == Unrecovered(i) /\ i \notin outrun

ClocksOrdered ==
  /\ \A f \in Folders : row[f].renewed <= now
  /\ Running =>
       /\ sweep.at <= now
       /\ \A f \in Folders : /\ sweep.since[f] <= sweep.at
                             /\ sweep.since[f] <= row[f].renewed

DroppedHere == \A i \in dropped : Here(i)

ClaimsExplained == \A i \in Items : claimed[i] # Never => runs[i] > 0 \/ i \in cut

OpenInWindow == \A i \in Inbox : Open(i) => received[i] >= row["inbox"].renewed

CaughtUp ==
  Running /\ sweep.folder = "inbox" =>
    \A i \in Inbox : Open(i) /\ i \notin sweep.todo => received[i] >= sweep.at

(* What holds whatever one listing holds, and what needs all of it. *)
BasicInv == TypeOK /\ ClocksOrdered /\ DroppedHere /\ ClaimsExplained
IntakeInv == BasicInv /\ OpenInWindow /\ CaughtUp

(* One listing holds the mailbox. *)
OneListing == Cardinality(Mail) <= Top

SweepType ==
  [at : Times \cup {Never}, rows : SUBSET Folders, since : [Folders -> Times],
   folder : Folders \cup {None}, listed : SUBSET Mail, todo : SUBSET Mail]

-----------------------------------------------------------------------------
LEMMA MailItems ==
  /\ Inbox \subseteq Mail /\ Mail \subseteq Items /\ IsFiniteSet(Mail)
  /\ "inbox" \in Folders /\ None # "inbox" /\ Times \subseteq Nat
  /\ Never \notin Times /\ 0 \in Times
<1>1. Inbox \subseteq Mail /\ Mail \subseteq Items BY DEF Inbox, Mail
<1>2. IsFiniteSet(Mail) BY <1>1, IntakeAssumption, FS_Subset
<1>3. Times \subseteq Nat /\ Never \notin Times /\ 0 \in Times
  BY IntakeAssumption DEF Times
<1>4. QED BY <1>1, <1>2, <1>3, IntakeAssumption

LEMMA InitHolds == ASSUME Init PROVE IntakeInv
<1> USE MailItems
<1>1. Asleep \in SweepType BY DEF Asleep, SweepType
<1>2. TypeOK
  BY <1>1, IntakeAssumption DEF Init, TypeOK, SweepType
<1>3. ~Running BY DEF Init, Asleep, Running
<1>4. ClocksOrdered BY <1>3 DEF Init, ClocksOrdered
<1>5. DroppedHere /\ ClaimsExplained BY DEF Init, DroppedHere, ClaimsExplained
<1>6. OpenInWindow BY DEF Init, OpenInWindow, Open, Unrecovered
<1>7. CaughtUp BY <1>3 DEF CaughtUp
<1>8. QED BY <1>2, <1>4, <1>5, <1>6, <1>7 DEF IntakeInv, BasicInv

-----------------------------------------------------------------------------
(* Types. *)
LEMMA ItemTypes ==
  ASSUME TypeOK, NEW i \in Items
  PROVE  /\ queue[i] \in Nat /\ runs[i] \in Nat
         /\ received[i] \in Times \cup {Never} /\ claimed[i] \in Times \cup {Never}
         /\ Here(i) => received[i] \in Nat
         /\ now \in Times /\ now \in Nat
BY MailItems DEF TypeOK, Here

LEMMA FolderTypes ==
  ASSUME TypeOK, NEW f \in Folders
  PROVE  /\ row[f] \in [renewed : Times, missed : BOOLEAN]
         /\ row[f].renewed \in Nat
         /\ sweep \in SweepType /\ sweep.since[f] \in Nat
         /\ Running => sweep.at \in Times /\ sweep.at \in Nat
BY MailItems DEF TypeOK, SweepType, Running

LEMMA MailboxTypes ==
  ASSUME TypeOK,
         \/ \E i \in Items : Arrive(i) \/ File(i) \/ ArriveUnseen(i) \/ Update(i)
         \/ \E f \in Folders : UpdateUnseen(f) \/ Missed(f) \/ Renew(f)
         \/ Tick
  PROVE  TypeOK'
<1> USE MailItems, IntakeAssumption
<1>1. ASSUME NEW i \in Items, Arrive(i) \/ File(i) \/ ArriveUnseen(i) \/ Update(i)
      PROVE  TypeOK'
  <2>1. queue[i] \in Nat /\ now \in Times BY ItemTypes
  <2>2. queue' \in [Items -> Nat] /\ received' \in [Items -> Times \cup {Never}]
    BY <1>1, <2>1 DEF Arrive, File, ArriveUnseen, Update, TypeOK
  <2>3. dropped' \subseteq Items /\ due' \subseteq Folders
    BY <1>1 DEF Arrive, File, ArriveUnseen, Update, TypeOK
  <2>4. updates' \in 0..MaxUpdates
    BY <1>1 DEF Arrive, File, ArriveUnseen, Update, TypeOK
  <2>5. /\ now' = now /\ row' = row /\ claimed' = claimed /\ runs' = runs
        /\ cut' = cut /\ outrun' = outrun /\ sweep' = sweep /\ faults' = faults
    BY <1>1 DEF Arrive, File, ArriveUnseen, Update
  <2>6. QED BY <2>2, <2>3, <2>4, <2>5 DEF TypeOK
<1>2. ASSUME NEW f \in Folders, UpdateUnseen(f) \/ Missed(f) \/ Renew(f)
      PROVE  TypeOK'
  <2>1. row[f] \in [renewed : Times, missed : BOOLEAN] /\ now \in Times
    BY FolderTypes DEF TypeOK
  <2>2. row' \in [Folders -> [renewed : Times, missed : BOOLEAN]]
    <3>1. CASE UpdateUnseen(f) BY <3>1 DEF UpdateUnseen, TypeOK
    <3>2. CASE Missed(f)
      <4>1. row' = [row EXCEPT ![f] = [@ EXCEPT !.missed = TRUE]]
        BY <3>2 DEF Missed
      <4>2. [row[f] EXCEPT !.missed = TRUE] \in [renewed : Times, missed : BOOLEAN]
        BY <2>1
      <4>3. QED BY <4>1, <4>2 DEF TypeOK
    <3>3. CASE Renew(f)
      <4>1. row' = [row EXCEPT ![f] = [@ EXCEPT !.renewed = now]]
        BY <3>3 DEF Renew
      <4>2. [row[f] EXCEPT !.renewed = now] \in [renewed : Times, missed : BOOLEAN]
        BY <2>1
      <4>3. QED BY <4>1, <4>2 DEF TypeOK
    <3>4. QED BY <1>2, <3>1, <3>2, <3>3
  <2>3. updates' \in 0..MaxUpdates /\ outrun' \subseteq Items /\ due' \subseteq Folders
    BY <1>2 DEF UpdateUnseen, Missed, Renew, TypeOK
  <2>4. /\ now' = now /\ received' = received /\ dropped' = dropped
        /\ queue' = queue /\ claimed' = claimed /\ runs' = runs
        /\ cut' = cut /\ sweep' = sweep /\ faults' = faults
    BY <1>2 DEF UpdateUnseen, Missed, Renew
  <2>5. QED BY <2>2, <2>3, <2>4 DEF TypeOK
<1>3. ASSUME Tick PROVE TypeOK'
  <2>1. now' \in Times BY <1>3 DEF Tick, TypeOK, Times
  <2>2. QED BY <1>3, <2>1 DEF Tick, TypeOK
<1>4. QED BY <1>1, <1>2, <1>3

LEMMA WorkTypes ==
  ASSUME TypeOK, NEW i \in Items, Work(i) \/ WorkFails(i)
  PROVE  TypeOK'
<1> USE MailItems, IntakeAssumption
<1>1. queue[i] \in Nat /\ runs[i] \in Nat /\ now \in Times BY ItemTypes
<1>2. queue[i] > 0 => queue[i] - 1 \in Nat BY <1>1
<1>3. queue' \in [Items -> Nat] BY <1>2 DEF Work, WorkFails, TypeOK
<1>4. claimed' \in [Items -> Times \cup {Never}] /\ runs' \in [Items -> Nat]
  <2>1. CASE Work(i) BY <1>1, <2>1 DEF Work, TypeOK
  <2>2. CASE WorkFails(i) BY <1>1, <2>2 DEF WorkFails, TypeOK
  <2>3. QED BY <2>1, <2>2
<1>5. cut' \subseteq Items /\ faults' \in 0..MaxFaults
  BY DEF Work, WorkFails, Fault, TypeOK
<1>6. /\ now' = now /\ received' = received /\ dropped' = dropped /\ due' = due
      /\ row' = row /\ outrun' = outrun /\ sweep' = sweep /\ updates' = updates
  BY DEF Work, WorkFails
<1>7. QED BY <1>3, <1>4, <1>5, <1>6 DEF TypeOK

LEMMA SweepTypes ==
  ASSUME TypeOK,
         \/ Start \/ Clear \/ End \/ Crash
         \/ \E f \in Folders : List(f) \/ ListFails(f)
         \/ \E i \in Items : Post(i)
  PROVE  TypeOK'
<1> USE MailItems, IntakeAssumption
<1>0. sweep \in SweepType BY DEF TypeOK, SweepType
<1>1. Asleep \in SweepType BY DEF Asleep, SweepType
<1>2. RowDone \in SweepType BY <1>0 DEF RowDone, SweepType
<1>3. ASSUME sweep' \in SweepType, row' = row, queue' = queue,
             faults' = faults \/ Fault,
             UNCHANGED <<now, received, dropped, due, claimed, runs, cut, outrun,
                         updates>>
      PROVE  TypeOK'
  <2>1. faults' \in 0..MaxFaults BY <1>3 DEF Fault, TypeOK
  <2>2. QED BY <1>3, <2>1 DEF TypeOK, SweepType
<1>4. CASE Start
  <2>1. sweep' \in SweepType
    <3>1. [f \in Folders |-> row[f].renewed] \in [Folders -> Times]
      BY DEF TypeOK
    <3>2. now \in Times BY DEF TypeOK
    <3>3. QED BY <1>1, <1>4, <3>1, <3>2 DEF Start, SweepType
  <2>2. QED BY <1>3, <1>4, <2>1 DEF Start
<1>5. CASE Clear
  <2> DEFINE f == sweep.folder
  <2>1. f \in Folders /\ Running BY <1>0, <1>5 DEF Clear, SweepType
  <2>2. row[f] \in [renewed : Times, missed : BOOLEAN] /\ sweep.at \in Times
    BY <2>1, FolderTypes
  <2>3. row' \in [Folders -> [renewed : Times, missed : BOOLEAN]]
    BY <1>5, <2>1, <2>2 DEF Clear, TypeOK
  <2>4. QED BY <1>2, <1>5, <2>3 DEF Clear, TypeOK, SweepType
<1>6. CASE End \/ Crash BY <1>1, <1>3, <1>6 DEF End, Crash
<1>7. ASSUME NEW f \in Folders, List(f) \/ ListFails(f) PROVE TypeOK'
  <2>1. CASE ListFails(f)
    <3>1. sweep' \in SweepType BY <1>0, <2>1 DEF ListFails, SweepType
    <3>2. QED BY <1>3, <2>1, <3>1 DEF ListFails
  <2>2. CASE List(f)
    <3>1. PICK L \in SUBSET Window(f) :
            sweep' = [sweep EXCEPT !.rows = @ \ {f}, !.folder = f,
                                   !.listed = L, !.todo = L]
      BY <2>2 DEF List
    <3>2. L \in SUBSET Mail BY DEF Window
    <3>3. sweep' \in SweepType BY <1>0, <3>1, <3>2 DEF SweepType
    <3>4. QED BY <1>3, <2>2, <3>3 DEF List
  <2>3. QED BY <1>7, <2>1, <2>2
<1>8. ASSUME NEW i \in Items, Post(i) PROVE TypeOK'
  <2>1. sweep' \in SweepType BY <1>0, <1>8 DEF Post, SweepType
  <2>2. queue' \in [Items -> Nat] BY <1>8, ItemTypes DEF Post, TypeOK
  <2>3. QED BY <1>8, <2>1, <2>2 DEF Post, TypeOK, SweepType
<1>9. QED BY <1>4, <1>5, <1>6, <1>7, <1>8

LEMMA TypeKept == TypeOK /\ [Next]_vars => TypeOK'
<1> SUFFICES ASSUME TypeOK, [Next]_vars PROVE TypeOK' OBVIOUS
<1>1. CASE UNCHANGED vars BY <1>1 DEF vars, TypeOK
<1>2. CASE Next
  BY <1>2, MailboxTypes, WorkTypes, SweepTypes DEF Next, SweepStep
<1>3. QED BY <1>1, <1>2

-----------------------------------------------------------------------------
(* Clocks, dropped items and claims. *)

(* A step that leaves the rows' windows and the backfill alone. *)
Aside ==
  /\ sweep' = sweep
  /\ \A f \in Folders : row'[f].renewed = row[f].renewed
  /\ now' >= now

LEMMA AsideClocks ==
  ASSUME TypeOK, TypeOK', ClocksOrdered, Aside PROVE ClocksOrdered'
<1>1. Running' = Running /\ sweep'.at = sweep.at /\ sweep'.since = sweep.since
  BY DEF Aside, Running
<1>2. now \in Nat /\ now' \in Nat BY MailItems DEF TypeOK
<1>3. \A f \in Folders : row[f].renewed \in Nat /\ row'[f].renewed <= now'
  BY <1>2, FolderTypes DEF Aside, ClocksOrdered
<1>4. ASSUME Running
      PROVE  /\ sweep'.at <= now'
             /\ \A f \in Folders : /\ sweep'.since[f] <= sweep'.at
                                   /\ sweep'.since[f] <= row'[f].renewed
  <2>1. sweep.at \in Nat BY <1>4, MailItems DEF TypeOK, Running
  <2>2. QED BY <1>1, <1>2, <1>4, <2>1 DEF Aside, ClocksOrdered
<1>5. QED BY <1>1, <1>3, <1>4 DEF ClocksOrdered

(* A step of the backfill that keeps what it read, or ends it. *)
LEMMA GoesOnClocks ==
  ASSUME TypeOK, ClocksOrdered, UNCHANGED <<row, now>>,
         \/ sweep' = Asleep
         \/ sweep'.at = sweep.at /\ sweep'.since = sweep.since
  PROVE  ClocksOrdered'
<1>1. CASE sweep' = Asleep
  <2>1. ~Running' BY <1>1 DEF Running, Asleep
  <2>2. QED BY <2>1 DEF ClocksOrdered
<1>2. CASE sweep'.at = sweep.at /\ sweep'.since = sweep.since
  BY <1>2 DEF ClocksOrdered, Running
<1>3. QED BY <1>1, <1>2

LEMMA ClocksKept ==
  ASSUME TypeOK, TypeOK', ClocksOrdered, Next PROVE ClocksOrdered'
<1> USE MailItems
<1>0. now \in Nat /\ sweep \in SweepType BY DEF TypeOK, SweepType
<1>1. ASSUME NEW i \in Items,
             Arrive(i) \/ File(i) \/ ArriveUnseen(i) \/ Update(i) \/ Work(i)
             \/ WorkFails(i)
      PROVE  Aside
  BY <1>0, <1>1 DEF Arrive, File, ArriveUnseen, Update, Work, WorkFails, Aside
<1>2. ASSUME NEW f \in Folders, UpdateUnseen(f) \/ Missed(f) PROVE Aside
  <2>1. CASE UpdateUnseen(f) BY <1>0, <2>1 DEF UpdateUnseen, Aside
  <2>2. CASE Missed(f)
    <3>1. row' = [row EXCEPT ![f] = [@ EXCEPT !.missed = TRUE]] BY <2>2 DEF Missed
    <3>2. row[f] \in [renewed : Times, missed : BOOLEAN] BY FolderTypes
    <3>3. [row[f] EXCEPT !.missed = TRUE].renewed = row[f].renewed BY <3>2
    <3>4. \A g \in Folders : row'[g].renewed = row[g].renewed
      BY <3>1, <3>3 DEF TypeOK
    <3>5. QED BY <1>0, <2>2, <3>4 DEF Missed, Aside
  <2>3. QED BY <1>2, <2>1, <2>2
<1>3. ASSUME Tick PROVE Aside BY <1>0, <1>3 DEF Tick, Aside
<1>4. ASSUME NEW f \in Folders, Renew(f) PROVE ClocksOrdered'
  <2>1. row' = [row EXCEPT ![f] = [@ EXCEPT !.renewed = now]] BY <1>4 DEF Renew
  <2>2. row[f] \in [renewed : Times, missed : BOOLEAN] BY FolderTypes
  <2>3. [row[f] EXCEPT !.renewed = now].renewed = now BY <2>2
  <2>4. \A g \in Folders :
          row'[g].renewed = IF g = f THEN now ELSE row[g].renewed
    BY <2>1, <2>3 DEF TypeOK
  <2>5. sweep' = sweep /\ now' = now BY <1>4 DEF Renew
  <2>6. ASSUME NEW g \in Folders PROVE row'[g].renewed <= now
    BY <1>0, <2>4, <2>6 DEF ClocksOrdered
  <2>7. ASSUME Running, NEW g \in Folders
        PROVE  sweep.since[g] <= row'[g].renewed
    <3>1. sweep.since[g] \in Nat /\ sweep.at \in Nat BY <2>7, FolderTypes
    <3>2. sweep.since[g] <= now BY <1>0, <2>7, <3>1 DEF ClocksOrdered
    <3>3. QED BY <2>4, <2>7, <3>2 DEF ClocksOrdered
  <2>8. QED BY <2>5, <2>6, <2>7 DEF ClocksOrdered, Running
<1>5. CASE Start
  <2>1. /\ sweep'.at = now
        /\ sweep'.since = [f \in Folders |-> row[f].renewed]
    BY <1>5 DEF Start, Asleep
  <2>2. row' = row /\ now' = now BY <1>5 DEF Start
  <2>3. ASSUME NEW f \in Folders
        PROVE  /\ sweep'.since[f] <= now /\ sweep'.since[f] <= row[f].renewed
    <3>1. row[f].renewed \in Nat BY FolderTypes
    <3>2. QED BY <2>1, <3>1 DEF ClocksOrdered
  <2>4. QED BY <1>0, <2>1, <2>2, <2>3 DEF ClocksOrdered
<1>6. CASE Clear
  <2> DEFINE f == sweep.folder
             x == [renewed |-> IF sweep.listed = {} THEN row[f].renewed ELSE sweep.at,
                   missed |-> FALSE]
  <2>1. f \in Folders /\ Running BY <1>0, <1>6 DEF Clear, SweepType
  <2>2. row' = [row EXCEPT ![f] = x] /\ now' = now /\ sweep' = RowDone
    BY <1>6 DEF Clear
  <2>3. sweep'.at = sweep.at /\ sweep'.since = sweep.since
    BY <1>0, <2>2 DEF RowDone, SweepType
  <2>4. \A g \in Folders : row'[g].renewed =
          IF g = f /\ sweep.listed # {} THEN sweep.at ELSE row[g].renewed
    BY <2>1, <2>2 DEF TypeOK
  <2>5. ASSUME NEW g \in Folders
        PROVE  row'[g].renewed <= now /\ sweep.since[g] <= row'[g].renewed
    BY <2>1, <2>4 DEF ClocksOrdered
  <2>6. QED BY <2>1, <2>2, <2>3, <2>5 DEF ClocksOrdered, Running
<1>7. ASSUME \/ End \/ Crash
             \/ \E f \in Folders : List(f) \/ ListFails(f)
             \/ \E i \in Items : Post(i)
      PROVE  ClocksOrdered'
  <2>1. UNCHANGED <<row, now>>
    BY <1>7 DEF End, Crash, List, ListFails, Post
  <2>2. \/ sweep' = Asleep
        \/ sweep'.at = sweep.at /\ sweep'.since = sweep.since
    BY <1>0, <1>7 DEF End, Crash, List, ListFails, Post, SweepType
  <2>3. QED BY <2>1, <2>2, GoesOnClocks
<1>8. QED
  BY <1>1, <1>2, <1>3, <1>4, <1>5, <1>6, <1>7, AsideClocks DEF Next, SweepStep

LEMMA DroppedKept ==
  ASSUME TypeOK, DroppedHere, Next PROVE DroppedHere'
<1> USE MailItems, IntakeAssumption
<1>1. CASE received' = received /\ dropped' = dropped
  BY <1>1 DEF DroppedHere, Here
<1>2. ASSUME NEW i \in Items, Arrive(i) \/ File(i) \/ ArriveUnseen(i)
      PROVE  DroppedHere'
  <2>1. now # Never BY DEF TypeOK
  <2>2. dropped' \subseteq dropped \cup {i}
    BY <1>2 DEF Arrive, File, ArriveUnseen
  <2>3. received' = [received EXCEPT ![i] = now]
    BY <1>2 DEF Arrive, File, ArriveUnseen
  <2>4. dropped \subseteq Items BY DEF TypeOK
  <2>5. QED BY <2>1, <2>2, <2>3, <2>4 DEF DroppedHere, Here, TypeOK
<1>3. QED
  BY <1>1, <1>2 DEF Next, SweepStep, Update, UpdateUnseen, Missed, Renew, Tick,
     Work, WorkFails, Start, List, Post, Clear, ListFails, End, Crash

LEMMA ClaimsKept ==
  ASSUME TypeOK, ClaimsExplained, Next PROVE ClaimsExplained'
<1>1. CASE UNCHANGED <<claimed, runs, cut>> BY <1>1 DEF ClaimsExplained
<1>2. ASSUME NEW i \in Items, Work(i) PROVE ClaimsExplained'
  <2>1. runs[i] \in Nat /\ cut' = cut BY <1>2, ItemTypes DEF Work
  <2>2. CASE Claimed(i) BY <1>2, <2>2 DEF Work, ClaimsExplained
  <2>3. CASE ~Claimed(i)
    <3>1. runs' = [runs EXCEPT ![i] = @ + 1] /\ claimed' = [claimed EXCEPT ![i] = now]
      BY <1>2, <2>3 DEF Work
    <3>2. runs'[i] > 0 BY <2>1, <3>1 DEF TypeOK
    <3>3. QED BY <2>1, <3>1, <3>2 DEF ClaimsExplained, TypeOK
  <2>4. QED BY <2>2, <2>3
<1>3. ASSUME NEW i \in Items, WorkFails(i) PROVE ClaimsExplained'
  BY <1>3 DEF WorkFails, ClaimsExplained, TypeOK
<1>4. QED
  BY <1>1, <1>2, <1>3 DEF Next, SweepStep, Arrive, File, ArriveUnseen, Update,
     UpdateUnseen, Missed, Renew, Tick, Start, List, Post, Clear, ListFails, End,
     Crash

LEMMA BasicKept == BasicInv /\ [Next]_vars => BasicInv'
<1> SUFFICES ASSUME BasicInv, [Next]_vars PROVE BasicInv' OBVIOUS
<1> USE DEF BasicInv
<1>1. TypeOK' BY TypeKept
<1>2. CASE Next BY <1>1, <1>2, ClocksKept, DroppedKept, ClaimsKept
<1>3. CASE UNCHANGED vars
  BY <1>1, <1>3 DEF vars, ClocksOrdered, DroppedHere, ClaimsExplained, Running, Here
<1>4. QED BY <1>2, <1>3

-----------------------------------------------------------------------------
(* Open messages.  A message that is open after a step was open before or  *)
(* has just come.                                                          *)
LEMMA OpenBefore ==
  ASSUME BasicInv, Next, NEW i \in Inbox, Open(i)'
  PROVE  \/ Open(i) /\ received'[i] = received[i]
         \/ received'[i] = now
<1> USE MailItems DEF BasicInv
<1>0. i \in Items /\ queue[i] \in Nat /\ runs[i] \in Nat BY ItemTypes
<1>1. ASSUME UNCHANGED <<received, dropped, runs, queue, cut>>,
             outrun \subseteq outrun'
      PROVE  Open(i) /\ received'[i] = received[i]
  BY <1>1 DEF Open, Unrecovered
<1>2. ASSUME NEW j \in Items, Arrive(j) \/ Update(j) \/ Post(j)
      PROVE  Open(i) /\ received'[i] = received[i]
  <2>1. queue' = [queue EXCEPT ![j] = @ + 1] /\ dropped' = dropped
        /\ runs' = runs /\ cut' = cut /\ outrun' = outrun
    BY <1>2 DEF Arrive, Update, Post
  <2>2. i # j
    <3>1. SUFFICES ASSUME i = j PROVE FALSE OBVIOUS
    <3>2. queue'[i] = queue[i] + 1 BY <1>0, <2>1, <3>1 DEF TypeOK
    <3>3. QED BY <1>0, <3>2 DEF Open, Unrecovered
  <2>3. received'[i] = received[i]
    BY <1>0, <1>2, <2>2 DEF Arrive, Update, Post, TypeOK
  <2>4. queue'[i] = queue[i] BY <2>1, <2>2
  <2>5. QED BY <2>1, <2>3, <2>4 DEF Open, Unrecovered
<1>3. ASSUME NEW j \in Items, File(j)
      PROVE  Open(i) /\ received'[i] = received[i]
  BY <1>3 DEF File, Inbox, Open, Unrecovered
<1>4. ASSUME NEW j \in Items, ArriveUnseen(j)
      PROVE  \/ Open(i) /\ received'[i] = received[i]
             \/ received'[i] = now
  <2>1. CASE i = j BY <1>0, <1>4, <2>1 DEF ArriveUnseen, TypeOK
  <2>2. CASE i # j BY <1>4, <2>2 DEF ArriveUnseen, Open, Unrecovered
  <2>3. QED BY <2>1, <2>2
<1>5. ASSUME NEW j \in Items, Work(j)
      PROVE  Open(i) /\ received'[i] = received[i]
  <2>1. received' = received /\ dropped' = dropped /\ cut' = cut /\ outrun' = outrun
    BY <1>5 DEF Work
  <2>2. i # j
    <3>1. SUFFICES ASSUME i = j PROVE FALSE OBVIOUS
    <3>2. runs'[i] = 0 /\ i \notin cut BY <2>1 DEF Open, Unrecovered
    <3>3. CASE Claimed(i)
      <4>1. runs'[i] = runs[i] BY <1>5, <3>1, <3>3 DEF Work
      <4>2. runs[i] > 0 BY <1>0, <3>2, <3>3 DEF Claimed, ClaimsExplained
      <4>3. QED BY <3>2, <4>1, <4>2
    <3>4. CASE ~Claimed(i)
      <4>1. runs' = [runs EXCEPT ![i] = @ + 1] BY <1>5, <3>1, <3>4 DEF Work
      <4>2. runs'[i] = runs[i] + 1 BY <1>0, <4>1 DEF TypeOK
      <4>3. QED BY <1>0, <3>2, <4>2
    <3>5. QED BY <3>3, <3>4
  <2>3. queue'[i] = queue[i] /\ runs'[i] = runs[i]
    BY <1>0, <1>5, <2>2 DEF Work, TypeOK
  <2>4. QED BY <2>1, <2>3 DEF Open, Unrecovered
<1>6. ASSUME NEW j \in Items, WorkFails(j)
      PROVE  Open(i) /\ received'[i] = received[i]
  <2>1. i # j /\ i \notin cut BY <1>6 DEF WorkFails, Open, Unrecovered
  <2>2. queue'[i] = queue[i] BY <1>6, <2>1 DEF WorkFails
  <2>3. QED BY <1>6, <2>1, <2>2 DEF WorkFails, Open, Unrecovered
<1>7. QED
  BY <1>1, <1>2, <1>3, <1>4, <1>5, <1>6 DEF Next, SweepStep, UpdateUnseen, Missed,
     Renew, Tick, Start, List, Clear, ListFails, End, Crash

LEMMA ArrivedInTime ==
  ASSUME BasicInv
  PROVE  /\ now >= row["inbox"].renewed
         /\ Running => now >= sweep.at
<1> USE MailItems DEF BasicInv
<1>1. now \in Nat BY DEF TypeOK
<1>2. row["inbox"].renewed \in Nat /\ (Running => sweep.at \in Nat) BY FolderTypes
<1>3. QED BY <1>1, <1>2 DEF ClocksOrdered

LEMMA WindowKept ==
  ASSUME IntakeInv, Next PROVE OpenInWindow'
<1> USE MailItems DEF BasicInv, IntakeInv
<1>0. sweep \in SweepType BY DEF TypeOK, SweepType
<1>1. ASSUME row'["inbox"].renewed = row["inbox"].renewed PROVE OpenInWindow'
  <2>1. ASSUME NEW i \in Inbox, Open(i)' PROVE received'[i] >= row'["inbox"].renewed
    BY <1>1, <2>1, OpenBefore, ArrivedInTime DEF OpenInWindow
  <2>2. Inbox' = Inbox BY DEF Inbox
  <2>3. QED BY <2>1, <2>2 DEF OpenInWindow
<1>2. ASSUME NEW f \in Folders, Renew(f) PROVE OpenInWindow'
  <2>1. row' = [row EXCEPT ![f] = [@ EXCEPT !.renewed = now]] BY <1>2 DEF Renew
  <2>2. CASE f # "inbox" BY <1>1, <2>1, <2>2
  <2>3. CASE f = "inbox"
    <3>1. row[f] \in [renewed : Times, missed : BOOLEAN] BY FolderTypes
    <3>2. [row[f] EXCEPT !.renewed = now].renewed = now BY <3>1
    <3>3. row'["inbox"].renewed = now BY <2>1, <2>3, <3>2 DEF TypeOK
    <3>4. ASSUME NEW i \in Inbox, Open(i)' PROVE received'[i] >= now
      <4>1. i \in Items /\ FolderOf[i] = "inbox" BY DEF Inbox
      <4>2. Unrecovered(i) /\ received'[i] = received[i]
        BY <1>2, <3>4 DEF Renew, Open, Unrecovered
      <4>3. ~(received[i] < now)
        BY <1>2, <2>3, <3>4, <4>1, <4>2 DEF Renew, Open
      <4>4. received[i] \in Nat /\ now \in Nat
        BY <4>1, <4>2, ItemTypes DEF Unrecovered, DroppedHere
      <4>5. QED BY <4>2, <4>3, <4>4
    <3>5. QED BY <3>3, <3>4 DEF OpenInWindow, Inbox
  <2>4. QED BY <2>2, <2>3
<1>3. CASE Clear
  <2> DEFINE f == sweep.folder
             x == [renewed |-> IF sweep.listed = {} THEN row[f].renewed ELSE sweep.at,
                   missed |-> FALSE]
  <2>1. f \in Folders /\ Running /\ sweep.todo = {}
    BY <1>0, <1>3 DEF Clear, SweepType
  <2>2. row' = [row EXCEPT ![f] = x] BY <1>3 DEF Clear
  <2>3. CASE f # "inbox" \/ sweep.listed = {}
    <3>1. row'["inbox"].renewed = row["inbox"].renewed
      BY <2>1, <2>2, <2>3 DEF TypeOK
    <3>2. QED BY <1>1, <3>1
  <2>4. CASE f = "inbox" /\ sweep.listed # {}
    <3>1. row'["inbox"].renewed = sweep.at BY <2>2, <2>4 DEF TypeOK
    <3>2. ASSUME NEW i \in Inbox, Open(i)' PROVE received'[i] >= sweep.at
      <4>1. Open(i) /\ received'[i] = received[i]
        BY <1>3, <3>2 DEF Clear, Open, Unrecovered
      <4>2. QED BY <2>1, <2>4, <4>1 DEF CaughtUp
    <3>3. QED BY <3>1, <3>2 DEF OpenInWindow, Inbox
  <2>5. QED BY <2>3, <2>4
<1>4. CASE UNCHANGED row BY <1>1, <1>4
<1>5. ASSUME NEW f \in Folders, Missed(f) PROVE OpenInWindow'
  <2>1. row' = [row EXCEPT ![f] = [@ EXCEPT !.missed = TRUE]] BY <1>5 DEF Missed
  <2>2. row[f] \in [renewed : Times, missed : BOOLEAN] BY FolderTypes
  <2>3. [row[f] EXCEPT !.missed = TRUE].renewed = row[f].renewed BY <2>2
  <2>4. row'["inbox"].renewed = row["inbox"].renewed BY <2>1, <2>3 DEF TypeOK
  <2>5. QED BY <1>1, <2>4
<1>6. QED
  BY <1>2, <1>3, <1>4, <1>5 DEF Next, SweepStep, Arrive, File, ArriveUnseen, Update,
     UpdateUnseen, Tick, Work, WorkFails, Start, List, Post, ListFails, End, Crash

(* A listing that holds the mailbox holds the whole window. *)
LEMMA WholeWindow ==
  ASSUME OneListing, NEW f \in Folders, NEW L \in SUBSET Window(f),
         Newest(Window(f), L)
  PROVE  L = Window(f)
<1>1. Window(f) \subseteq Mail /\ IsFiniteSet(Mail) BY MailItems DEF Window
<1>2. /\ IsFiniteSet(Window(f))
      /\ Cardinality(Window(f)) <= Cardinality(Mail)
  BY <1>1, FS_Subset
<1>3. Cardinality(Window(f)) \in Nat /\ Cardinality(Mail) \in Nat /\ Top \in Nat
  BY <1>1, <1>2, FS_CardinalityType, IntakeAssumption
<1>4. Cardinality(L) = Cardinality(Window(f))
  BY <1>2, <1>3 DEF Newest, OneListing
<1>5. QED BY <1>2, <1>4, FS_Subset

LEMMA CaughtUpKept ==
  ASSUME OneListing, IntakeInv, Next PROVE CaughtUp'
<1> USE MailItems DEF BasicInv, IntakeInv
<1>0. sweep \in SweepType /\ Inbox' = Inbox BY DEF TypeOK, SweepType, Inbox
<1>1. ASSUME sweep'.at = sweep.at, sweep'.folder = sweep.folder,
             \A i \in Inbox : Open(i)' /\ i \notin sweep'.todo => i \notin sweep.todo
      PROVE  CaughtUp'
  <2>1. SUFFICES ASSUME Running', sweep'.folder = "inbox",
                        NEW i \in Inbox, Open(i)', i \notin sweep'.todo
                 PROVE  received'[i] >= sweep'.at
    BY <1>0 DEF CaughtUp
  <2>2. Running /\ sweep.folder = "inbox" /\ i \notin sweep.todo
    BY <1>1, <2>1 DEF Running
  <2>3. QED BY <1>1, <2>1, <2>2, OpenBefore, ArrivedInTime DEF CaughtUp
<1>2. ASSUME sweep'.folder # "inbox" PROVE CaughtUp' BY <1>2 DEF CaughtUp
<1>3. ASSUME NEW f \in Folders, List(f) PROVE CaughtUp'
  <2>1. PICK L \in SUBSET Window(f) :
          /\ Newest(Window(f), L)
          /\ sweep' = [sweep EXCEPT !.rows = @ \ {f}, !.folder = f,
                                    !.listed = L, !.todo = L]
    BY <1>3 DEF List
  <2>2. sweep'.folder = f /\ sweep'.todo = L /\ sweep'.at = sweep.at
    BY <1>0, <2>1 DEF SweepType
  <2>3. L = Window(f) BY <2>1, WholeWindow
  <2>4. CASE f # "inbox" BY <1>2, <2>2, <2>4
  <2>5. CASE f = "inbox"
    <3>1. ASSUME NEW i \in Inbox, Open(i)', i \notin L PROVE FALSE
      <4>1. Open(i) /\ received'[i] = received[i]
        BY <1>3, <3>1 DEF List, Open, Unrecovered
      <4>2. i \in Mail /\ i \in Items /\ Here(i)
        BY <4>1 DEF Open, Unrecovered, DroppedHere
      <4>3. received[i] >= row[f].renewed BY <2>5, <4>1 DEF OpenInWindow
      <4>4. Running BY <1>3 DEF List
      <4>5. sweep.since[f] <= row[f].renewed BY <4>4 DEF ClocksOrdered
      <4>6. received[i] \in Nat /\ row[f].renewed \in Nat /\ sweep.since[f] \in Nat
        BY <4>2, ItemTypes, FolderTypes
      <4>7. i \in Window(f) BY <4>2, <4>3, <4>5, <4>6 DEF Window
      <4>8. QED BY <2>3, <3>1, <4>7
    <3>2. QED BY <1>0, <2>2, <3>1 DEF CaughtUp
  <2>6. QED BY <2>4, <2>5
<1>4. ASSUME NEW j \in Items, Post(j) PROVE CaughtUp'
  <2>1. /\ sweep'.at = sweep.at /\ sweep'.folder = sweep.folder
        /\ sweep'.todo = sweep.todo \ {j}
    BY <1>0, <1>4 DEF Post, SweepType
  <2>2. queue[j] \in Nat BY ItemTypes
  <2>3. queue'[j] = queue[j] + 1 BY <1>4 DEF Post, TypeOK
  <2>4. ~Open(j)' BY <2>2, <2>3 DEF Open, Unrecovered
  <2>5. QED BY <1>1, <2>1, <2>4
<1>5. CASE Start \/ End \/ Crash
  <2>1. CASE Start BY <2>1, <1>2 DEF Start, Asleep
  <2>2. CASE End \/ Crash BY <2>2, <1>2 DEF End, Crash, Asleep
  <2>3. QED BY <1>5, <2>1, <2>2
<1>6. CASE Clear
  <2>1. sweep'.folder = None BY <1>0, <1>6 DEF Clear, RowDone, SweepType
  <2>2. QED BY <1>2, <2>1
<1>7. ASSUME NEW f \in Folders, ListFails(f) PROVE CaughtUp'
  <2>1. sweep'.folder = None BY <1>0, <1>7 DEF ListFails, SweepType
  <2>2. QED BY <1>2, <2>1
<1>8. CASE sweep' = sweep BY <1>1, <1>8
<1>9. QED
  BY <1>3, <1>4, <1>5, <1>6, <1>7, <1>8 DEF Next, SweepStep, Arrive, File,
     ArriveUnseen, Update, UpdateUnseen, Missed, Renew, Tick, Work, WorkFails

LEMMA StepKeeps ==
  ASSUME OneListing PROVE IntakeInv /\ [Next]_vars => IntakeInv'
<1> SUFFICES ASSUME IntakeInv, [Next]_vars PROVE IntakeInv' OBVIOUS
<1>1. BasicInv' BY BasicKept DEF IntakeInv
<1>2. CASE Next BY <1>1, <1>2, WindowKept, CaughtUpKept DEF IntakeInv
<1>3. CASE UNCHANGED vars
  BY <1>1, <1>3 DEF vars, IntakeInv, OpenInWindow, CaughtUp, Open, Unrecovered,
     Running, Inbox
<1>4. QED BY <1>2, <1>3

-----------------------------------------------------------------------------
(* The variables of the mail intake keep their types. *)
THEOREM IntakeTypeCorrect == Spec => []TypeOK
<1>1. Init => TypeOK BY InitHolds DEF IntakeInv, BasicInv
<1>2. QED BY <1>1, TypeKept, PTL DEF Spec

(* The invariant of the backfill, in a mailbox that one listing holds. *)
THEOREM IntakeInvariant == ASSUME OneListing PROVE Spec => []IntakeInv
<1>1. Init => IntakeInv BY InitHolds
<1>2. IntakeInv /\ [Next]_vars => IntakeInv' BY StepKeeps
<1>3. QED BY <1>1, <1>2, PTL DEF Spec

(* The backfill never moves the window past a message that is still to be  *)
(* recovered (graph/subscription_backfill.py).                             *)
THEOREM BackfillKeepsWindowHolds ==
  ASSUME OneListing PROVE Spec => []BackfillKeepsWindow
<1>1. IntakeInv => BackfillKeepsWindow
  BY DEF IntakeInv, OpenInWindow, Open, BackfillKeepsWindow
<1>2. QED BY <1>1, IntakeInvariant, PTL

(* No step clears the inbox's marker before what was missed up to the      *)
(* start of its sweep is enqueued (graph/missed_sweep.py).                 *)
THEOREM ClearedAfterCatchUpHolds ==
  ASSUME OneListing PROVE Spec => ClearedAfterCatchUp
<1> DEFINE Allowed ==
      row["inbox"].missed /\ ~row'["inbox"].missed =>
        /\ Running
        /\ \A i \in Inbox :
             Unrecovered(i) /\ received[i] < sweep.at => i \in outrun
<1>1. IntakeInv /\ [Next]_vars => [Allowed]_vars
  <2> USE MailItems DEF IntakeInv, BasicInv
  <2> SUFFICES ASSUME IntakeInv, Next,
                      row["inbox"].missed, ~row'["inbox"].missed
               PROVE  /\ Running
                      /\ \A i \in Inbox :
                           Unrecovered(i) /\ received[i] < sweep.at => i \in outrun
    OBVIOUS
  <2>1. Clear /\ sweep.folder = "inbox"
    <3>1. row' # row OBVIOUS
    <3>2. ASSUME NEW f \in Folders, Missed(f) \/ Renew(f) PROVE FALSE
      <4>1. row["inbox"] \in [renewed : Times, missed : BOOLEAN] BY FolderTypes
      <4>2. CASE f = "inbox"
        BY <3>2, <4>1, <4>2 DEF Missed, Renew, TypeOK
      <4>3. CASE f # "inbox" BY <3>2, <4>3 DEF Missed, Renew, TypeOK
      <4>4. QED BY <4>2, <4>3
    <3>3. Clear
      BY <3>1, <3>2 DEF Next, SweepStep, Arrive, File, ArriveUnseen, Update,
         UpdateUnseen, Tick, Work, WorkFails, Start, List, Post, ListFails, End, Crash
    <3>4. QED BY <3>3 DEF Clear, TypeOK
  <2>2. Running /\ sweep.todo = {} BY <2>1 DEF Clear
  <2>3. ASSUME NEW i \in Inbox, Unrecovered(i), received[i] < sweep.at, i \notin outrun
        PROVE  FALSE
    <3>1. received[i] >= sweep.at BY <2>1, <2>2, <2>3 DEF CaughtUp, Open
    <3>2. i \in Items /\ sweep.at \in Nat
      BY <2>2, FolderTypes DEF Inbox
    <3>3. received[i] \in Nat BY <2>3, <3>2, ItemTypes DEF Unrecovered, DroppedHere
    <3>4. QED BY <2>3, <3>1, <3>2, <3>3
  <2>4. QED BY <2>2, <2>3
<1>2. Spec => [][Allowed]_vars BY <1>1, IntakeInvariant, PTL DEF Spec
<1>3. QED BY <1>2 DEF ClearedAfterCatchUp
=============================================================================
