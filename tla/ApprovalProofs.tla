--------------------------- MODULE ApprovalProofs ---------------------------
(***************************************************************************)
(* Proofs about the approval queue, for every number of items, users and   *)
(* concurrent requests.                                                    *)
(***************************************************************************)
EXTENDS ApprovalQueue, FiniteSetTheorems, TLAPS

-----------------------------------------------------------------------------
(* Lemmas about operators.                                                 *)

(* A row that stands for nothing yet is a row. *)
LEMMA AnyRowType == AnyRow \in Rows
BY ConstAssumption DEF AnyRow, Rows, Statuses

(* What a commit of the sweep's session makes of a row is a row, with the  *)
(* policy it was created with.                                             *)
LEMMA FlushedType ==
  ASSUME TypeOK, NEW i \in Items
  PROVE  /\ Flushed(i) \in Rows
         /\ Flushed(i).required = row[i].required
         /\ Flushed(i).confident = row[i].confident
         /\ Flushed(i).sigs = row[i].sigs
         /\ Flushed(i).status \in {row[i].status, "sent", "dispatch_failed"}
         /\ Flushed(i).status # row[i].status => pend[i] # "none"
BY DEF TypeOK, Flushed, Rows, Statuses

(* What the UPDATE of each request does to the columns of the rows. *)
LEMMA RejectColumns ==
  ASSUME TypeOK, NEW j \in Items, NEW i \in Items, NEW st,
         row' = [row EXCEPT ![j].status = st]
  PROVE  /\ row'[i].sigs = row[i].sigs
         /\ row'[i].required = row[i].required
         /\ row'[i].confident = row[i].confident
         /\ i = j => row'[i].status = st
         /\ i # j => row'[i].status = row[i].status
<1>1. row[i] \in Rows /\ row[j] \in Rows /\ row \in [Items -> Rows]
  BY DEF TypeOK
<1>2. CASE i = j
  <2>1. row'[i] = [row[j] EXCEPT !.status = st]
    BY <1>1, <1>2
  <2>2. QED BY <1>1, <1>2, <2>1 DEF Rows
<1>3. CASE i # j
  BY <1>1, <1>3
<1>4. QED BY <1>2, <1>3

LEMMA EditColumns ==
  ASSUME TypeOK, NEW j \in Items, NEW i \in Items, NEW p,
         row' = [row EXCEPT ![j].payload = p]
  PROVE  /\ row'[i].sigs = row[i].sigs
         /\ row'[i].required = row[i].required
         /\ row'[i].confident = row[i].confident
         /\ row'[i].status = row[i].status
<1>1. row[i] \in Rows /\ row[j] \in Rows /\ row \in [Items -> Rows]
  BY DEF TypeOK
<1>2. CASE i = j
  <2>1. row'[i] = [row[j] EXCEPT !.payload = p]
    BY <1>1, <1>2
  <2>2. QED BY <1>1, <1>2, <2>1 DEF Rows
<1>3. CASE i # j
  BY <1>1, <1>3
<1>4. QED BY <1>2, <1>3

LEMMA ApproveColumns ==
  ASSUME TypeOK, NEW j \in Items, NEW i \in Items, NEW sg, NEW st,
         row' = [row EXCEPT ![j] = [row[j] EXCEPT !.sigs = sg, !.status = st]]
  PROVE  /\ row'[i].required = row[i].required
         /\ row'[i].confident = row[i].confident
         /\ i = j => row'[i].sigs = sg
         /\ i # j => row'[i].sigs = row[i].sigs
         /\ i = j => row'[i].status = st
         /\ i # j => row'[i].status = row[i].status
<1>1. row[i] \in Rows /\ row[j] \in Rows /\ row \in [Items -> Rows]
  BY DEF TypeOK
<1>2. CASE i = j
  <2>1. row'[i] = [row[j] EXCEPT !.sigs = sg, !.status = st]
    BY <1>1, <1>2
  <2>2. QED BY <1>1, <1>2, <2>1 DEF Rows
<1>3. CASE i # j
  BY <1>1, <1>3
<1>4. QED BY <1>2, <1>3

(* The signers of a list with one more signature. *)
LEMMA RangeAppend ==
  ASSUME NEW S, NEW s \in Seq(S), NEW e \in S
  PROVE  Range(Append(s, e)) = Range(s) \cup {e}
<1>1. /\ DOMAIN Append(s, e) = 1..(Len(s) + 1)
      /\ \A k \in 1..Len(s) : Append(s, e)[k] = s[k]
      /\ Append(s, e)[Len(s) + 1] = e
      /\ DOMAIN s = 1..Len(s) /\ Len(s) \in Nat
  OBVIOUS
<1>2. ASSUME NEW x \in Range(Append(s, e)) PROVE x \in Range(s) \cup {e}
  BY <1>1 DEF Range
<1>3. ASSUME NEW x \in Range(s) \cup {e} PROVE x \in Range(Append(s, e))
  <2>1. CASE x = e  BY <1>1, <2>1 DEF Range
  <2>2. CASE x \in Range(s)  BY <1>1, <2>2 DEF Range
  <2>3. QED BY <2>1, <2>2
<1>4. QED BY <1>2, <1>3

-----------------------------------------------------------------------------
(* The type invariant, one step per action.                                *)

LEMMA TypeInit == Init => TypeOK
BY AnyRowType, ConstAssumption DEF Init, TypeOK

LEMMA TypeStep == TypeOK /\ [Next]_vars => TypeOK'
<1> SUFFICES ASSUME TypeOK, [Next]_vars PROVE TypeOK'
  OBVIOUS
<1> USE AnyRowType, ConstAssumption DEF TypeOK
<1>f. ASSUME CommitPend PROVE row' \in [Items -> Rows]
  BY <1>f, FlushedType DEF CommitPend
<1>n. NothingPending \in [Items -> {"none", "failed", "sent"}]
      /\ NothingLoaded \in [Items -> Rows]
  BY DEF NothingPending, NothingLoaded
<1>m. ASSUME NEW i \in batch, NEW b \in BOOLEAN, MarkFailed(i, b)
      PROVE  /\ row' \in [Items -> Rows]
             /\ pend' \in [Items -> {"none", "failed", "sent"}]
             /\ locked' \in SUBSET batch
  <2>1. CASE b
    BY <1>m, <1>f, <1>n, <2>1 DEF MarkFailed
  <2>2. CASE ~b
    BY <1>m, <2>2 DEF MarkFailed
  <2>3. QED BY <2>1, <2>2
<1>1. ASSUME Propose PROVE TypeOK'
  <2>1. PICK i \in Items, c \in Categories, o \in Overrides \cup {None},
             confident \in BOOLEAN, p \in Payloads :
               Create(i, c, o, confident, p)
    BY <1>1 DEF Propose
  <2>2. (IF o = None THEN RequiredFor(c) ELSE o) \in Nat
    BY DEF RequiredFor
  <2>3. (IF (IF o = None THEN RequiredFor(c) ELSE o) = 1 /\ confident
         THEN <<SYSTEM>> ELSE <<>>) \in Seq(Users \cup {SYSTEM})
    <3>1. <<SYSTEM>> \in Seq(Users \cup {SYSTEM}) /\ <<>> \in Seq(Users \cup {SYSTEM})
      OBVIOUS
    <3>2. QED BY <3>1, Zenon
  <2>4. row' \in [Items -> Rows]
    BY <2>1, <2>2, <2>3 DEF Create, Rows, Statuses
  <2>5. QED BY <2>1, <2>4 DEF Create, sweepVars
<1>2. ASSUME NEW r \in Requests, CommitApprove(r) PROVE TypeOK'
  <2> DEFINE i == call[r].item
             sg == Append(call[r].sigs, call[r].user)
             enough == Len(sg) >= row[i].required
             st == IF enough THEN "approved" ELSE row[i].status
  <2>1. i \in Items /\ sg \in Seq(Users \cup {SYSTEM}) /\ call[r].user \in Users
    BY <1>2 DEF CommitApprove, Ready, Calls
  <2>2. /\ row' = [row EXCEPT ![i] = [row[i] EXCEPT !.sigs = sg, !.status = st]]
        /\ approvers' = [approvers EXCEPT ![i] = @ \cup {call[r].user}]
        /\ excess' = excess \/ excess' = [excess EXCEPT ![i] = @ + 1]
        /\ call' = [call EXCEPT ![r] = None]
        /\ UNCHANGED <<sweepVars, faults, drafts>>
    BY <1>2 DEF CommitApprove
  <2>3. row[i] \in Rows /\ st \in Statuses
    BY <2>1 DEF Rows, Statuses
  <2> HIDE DEF i, sg, st
  <2>4. [row[i] EXCEPT !.sigs = sg, !.status = st] \in Rows
    BY <2>1, <2>3 DEF Rows
  <2>5. row' \in [Items -> Rows]
    BY <2>1, <2>2, <2>4
  <2>6. approvers' \in [Items -> SUBSET Users] /\ excess' \in [Items -> Nat]
    BY <2>1, <2>2
  <2>7. QED BY <2>2, <2>5, <2>6 DEF sweepVars
<1>3. ASSUME NEW r \in Requests, CommitReject(r) PROVE TypeOK'
  <2>1. call[r].item \in Items
    BY <1>3 DEF CommitReject, Ready, Calls
  <2>2. row' \in [Items -> Rows]
    BY <1>3, <2>1 DEF CommitReject, Rows, Statuses
  <2>3. QED BY <1>3, <2>2 DEF CommitReject, sweepVars
<1>4. ASSUME NEW r \in Requests, CommitEdit(r) PROVE TypeOK'
  <2>1. call[r].item \in Items /\ call[r].payload \in Payloads
    BY <1>4 DEF CommitEdit, Ready, Calls
  <2>2. row' \in [Items -> Rows]
    BY <1>4, <2>1 DEF CommitEdit, Rows
  <2>3. QED BY <1>4, <2>2 DEF CommitEdit, sweepVars
<1>5. ASSUME NEW r \in Requests, Abandon(r) PROVE TypeOK'
  BY <1>5 DEF Abandon, rowVars, sweepVars
<1>6. ASSUME NEW r \in Requests, NEW u \in Users, NEW i \in Items,
             BeginApprove(r, u, i) \/ BeginReject(r, u, i)
               \/ \E p \in Payloads : BeginEdit(r, u, i, p)
      PROVE  TypeOK'
  <2>1. row[i].sigs \in Seq(Users \cup {SYSTEM})
    BY DEF Rows
  <2>2. PICK c \in Calls : Begin(r, c)
    BY <1>6, <2>1 DEF BeginApprove, BeginReject, BeginEdit, Calls
  <2>3. QED BY <2>2 DEF Begin, rowVars, sweepVars
<1>7. CASE SweepStart
  BY <1>7 DEF SweepStart, rowVars
<1>8. CASE DraftDone
  BY <1>8, <1>f, <1>n DEF DraftDone
<1>9. CASE SweepEnd
  BY <1>9, <1>f, <1>n DEF SweepEnd
<1>10. ASSUME NEW i \in Items, NEW b \in BOOLEAN, PostDraft(i, b)
       PROVE  TypeOK'
  <2>1. loaded[i].payload \in Payloads
    BY DEF Rows
  <2>2. drafts' \in [Items -> Seq(Payloads)]
    BY <1>10, <2>1 DEF PostDraft
  <2>3. QED BY <1>10, <2>2, <1>f, <1>n DEF PostDraft
<1>11. ASSUME NEW b \in BOOLEAN, DraftLost(b) PROVE TypeOK'
  <2>1. /\ UNCHANGED <<approvers, call, batch, loaded, drafts>>
        /\ posting \in todo /\ posting' = None /\ todo' = todo \ {posting}
        /\ faults' \in 0..MaxFaults /\ excess' \in [Items -> Nat]
    BY <1>11 DEF DraftLost
  <2>2. MarkFailed(posting, b)
    BY <1>11 DEF DraftLost
  <2>3. QED BY <2>1, <2>2, <1>m
<1>12. CASE SweepCrash
  <2>1. excess' \in [Items -> Nat] /\ faults' \in 0..MaxFaults
    BY <1>12 DEF SweepCrash
  <2>2. QED
    <3> USE <1>12 DEF SweepCrash, rowVars
    <3>1. /\ row' \in [Items -> Rows] /\ call' \in [Requests -> Calls \cup {None}]
          /\ drafts' \in [Items -> Seq(Payloads)]
          /\ approvers' \in [Items -> SUBSET Users]
      OBVIOUS
    <3>2. /\ batch' \in SUBSET Items /\ todo' \in SUBSET batch'
          /\ locked' \in SUBSET batch' /\ posting' \in todo' \cup {None}
      OBVIOUS
    <3>3. QED BY <1>n, <2>1, <3>1, <3>2
<1>13. ASSUME NEW i \in Items, NEW b \in BOOLEAN, DispatchFail(i, b)
       PROVE  TypeOK'
  <2>1. /\ UNCHANGED <<approvers, call, batch, loaded, posting, drafts, excess>>
        /\ posting = None /\ i \in todo /\ todo' = todo \ {i}
        /\ faults' \in 0..MaxFaults
    BY <1>13 DEF DispatchFail
  <2>2. MarkFailed(i, b)
    BY <1>13 DEF DispatchFail
  <2>3. QED BY <2>1, <2>2, <1>m
<1>14. CASE UNCHANGED vars
  BY <1>14 DEF vars
<1>15. QED
  BY <1>1, <1>2, <1>3, <1>4, <1>5, <1>6, <1>7, <1>8, <1>9, <1>10, <1>11,
     <1>12, <1>13, <1>14
  DEF Next, Request, SweepStep, SweepFault

(* The columns, the requests and the sweep always have the values their    *)
(* declarations allow: among others no step writes a status outside the    *)
(* CHECK constraint of the table.                                          *)
THEOREM TypeCorrect == Spec => []TypeOK
BY TypeInit, TypeStep, PTL DEF Spec

-----------------------------------------------------------------------------
(* The approval gate.                                                      *)

(* What every step does to rows and approvers: the policy of an existing   *)
(* item never changes and a committed approval is never taken back.        *)
Kept ==
  \A i \in Items :
    /\ row[i].status # "absent" =>
         /\ row'[i].status # "absent"
         /\ row'[i].required = row[i].required
         /\ row'[i].confident = row[i].confident
    /\ approvers[i] \subseteq approvers'[i]

LEMMA StepKeeps == TypeOK /\ [Next]_vars => Kept
<1> SUFFICES ASSUME TypeOK, [Next]_vars PROVE Kept
  OBVIOUS
<1>f. ASSUME CommitPend, UNCHANGED approvers PROVE Kept
  <2> SUFFICES ASSUME NEW i \in Items, row[i].status # "absent"
               PROVE  /\ row'[i].status # "absent"
                      /\ row'[i].required = row[i].required
                      /\ row'[i].confident = row[i].confident
    BY <1>f DEF Kept
  <2>1. row'[i] = Flushed(i)
    BY <1>f DEF CommitPend
  <2>2. QED BY <2>1, FlushedType
<1>u. ASSUME UNCHANGED rowVars PROVE Kept
  BY <1>u DEF Kept, rowVars
<1>1. CASE Propose
  BY <1>1 DEF Propose, Create, Kept, TypeOK
<1>2. ASSUME NEW r \in Requests, CommitApprove(r) PROVE Kept
  <2>1. call[r].item \in Items /\ call[r].op = "approve"
    BY <1>2 DEF CommitApprove, Ready, Calls, TypeOK
  <2>2. PICK sg, st :
          /\ row' = [row EXCEPT ![call[r].item] =
                       [row[call[r].item] EXCEPT !.sigs = sg, !.status = st]]
          /\ st \in {"approved", row[call[r].item].status}
    BY <1>2 DEF CommitApprove
  <2>3. approvers' = [approvers EXCEPT ![call[r].item] = @ \cup {call[r].user}]
    BY <1>2 DEF CommitApprove
  <2>4. ASSUME NEW i \in Items, row[i].status # "absent"
        PROVE  /\ row'[i].status # "absent"
               /\ row'[i].required = row[i].required
               /\ row'[i].confident = row[i].confident
    <3>1. /\ row'[i].required = row[i].required
          /\ row'[i].confident = row[i].confident
      BY <2>1, <2>2, ApproveColumns
    <3>2. CASE i = call[r].item
      <4>1. row'[i] = [row[i] EXCEPT !.sigs = sg, !.status = st]
            /\ row[i] \in Rows
        BY <2>1, <2>2, <3>2 DEF TypeOK
      <4>2. row'[i].status = st
        BY <4>1 DEF Rows
      <4>3. QED BY <2>2, <2>4, <3>1, <3>2, <4>2
    <3>3. CASE i # call[r].item
      BY <2>1, <2>2, <2>4, <3>1, <3>3 DEF TypeOK
    <3>4. QED BY <3>2, <3>3
  <2>5. \A i \in Items : approvers[i] \subseteq approvers'[i]
    BY <2>1, <2>3 DEF TypeOK
  <2>6. QED BY <2>4, <2>5 DEF Kept
<1>3. ASSUME NEW r \in Requests, CommitReject(r) PROVE Kept
  <2>1. call[r].item \in Items
    BY <1>3 DEF CommitReject, Ready, Calls, TypeOK
  <2>2. QED BY <1>3, <2>1, RejectColumns DEF CommitReject, Kept
<1>4. ASSUME NEW r \in Requests, CommitEdit(r) PROVE Kept
  <2>1. call[r].item \in Items
    BY <1>4 DEF CommitEdit, Ready, Calls, TypeOK
  <2>2. QED BY <1>4, <2>1, EditColumns DEF CommitEdit, Kept
<1>5. ASSUME NEW r \in Requests,
             \/ Abandon(r)
             \/ \E u \in Users, i \in Items :
                  \/ BeginApprove(r, u, i) \/ BeginReject(r, u, i)
                  \/ \E p \in Payloads : BeginEdit(r, u, i, p)
      PROVE  Kept
  BY <1>5, <1>u DEF Abandon, BeginApprove, BeginReject, BeginEdit, Begin
<1>6. CASE SweepStart \/ SweepCrash
  BY <1>6, <1>u DEF SweepStart, SweepCrash
<1>7. CASE DraftDone \/ SweepEnd \/ \E b \in BOOLEAN : DraftLost(b)
  <2>1. UNCHANGED approvers /\ (CommitPend \/ UNCHANGED row)
    BY <1>7 DEF DraftDone, DraftLost, MarkFailed, SweepEnd
  <2>2. QED BY <2>1, <1>f, <1>u DEF rowVars
<1>8. ASSUME NEW i \in Items, NEW b \in BOOLEAN,
             PostDraft(i, b) \/ DispatchFail(i, b)
      PROVE  Kept
  <2>1. UNCHANGED approvers /\ (CommitPend \/ UNCHANGED row)
    BY <1>8 DEF PostDraft, DispatchFail, MarkFailed
  <2>2. QED BY <2>1, <1>f, <1>u DEF rowVars
<1>9. CASE UNCHANGED vars
  BY <1>9, <1>u DEF vars, rowVars
<1>10. QED
  BY <1>1, <1>2, <1>3, <1>4, <1>5, <1>6, <1>7, <1>8, <1>9
  DEF Next, Request, SweepStep, SweepFault

(* Authorisation and the backing of a signature list survive every step.   *)
LEMMA AuthorisationLasts ==
  ASSUME TypeOK, TypeOK', Kept, NEW i \in Items
  PROVE  /\ row[i].status # "absent" /\ Authorised(i) => Authorised(i)'
         /\ row[i].status # "absent" /\ AutoApproved(i) => AutoApproved(i)'
         /\ \A s \in Seq(Users \cup {SYSTEM}) : Signed(s, i) => Signed(s, i)'
<1>1. /\ approvers[i] \subseteq approvers'[i]
      /\ IsFiniteSet(approvers'[i]) /\ IsFiniteSet(approvers[i])
  BY FS_Subset, ConstAssumption DEF Kept, TypeOK
<1>2. /\ Cardinality(approvers[i]) <= Cardinality(approvers'[i])
      /\ Cardinality(approvers[i]) \in Nat /\ Cardinality(approvers'[i]) \in Nat
  BY <1>1, FS_Subset, FS_CardinalityType
<1>3. row[i].required \in Nat
  BY DEF TypeOK, Rows
<1>4. ASSUME row[i].status # "absent", AutoApproved(i) PROVE AutoApproved(i)'
  BY <1>4 DEF Kept, AutoApproved
<1>5. ASSUME row[i].status # "absent",
             Cardinality(approvers[i]) >= row[i].required
      PROVE  Cardinality(approvers'[i]) >= row'[i].required
  BY <1>5, <1>2, <1>3 DEF Kept
<1>6. QED BY <1>1, <1>4, <1>5 DEF Authorised, Signed

LEMMA GateInit == Init => GateInv
<1> SUFFICES ASSUME Init PROVE GateInv
  OBVIOUS
<1>1. \A i \in Items : Range(row[i].sigs) = {} /\ Len(row[i].sigs) = 0
  BY DEF Init, AnyRow, Range
<1>2. SigsSigned
  BY <1>1, FS_EmptySet DEF SigsSigned, Signed
<1>3. AbsentClean /\ LeavingAuthorised /\ PendInBatch /\ CallsSigned
  BY DEF Init, AnyRow, AbsentClean, LeavingAuthorised, Leaving, PendInBatch,
         CallsSigned
<1>4. QED BY <1>2, <1>3 DEF GateInv

(* Signatures in the rows are backed by approvals after every step. *)
LEMMA SigsStep == TypeOK /\ TypeOK' /\ GateInv /\ [Next]_vars => SigsSigned'
<1> SUFFICES ASSUME TypeOK, TypeOK', GateInv, [Next]_vars, NEW i \in Items
             PROVE  (AutoApproved(i) \/ Signed(row[i].sigs, i))'
  BY DEF SigsSigned, AutoApproved, Signed
<1>k. Kept
  BY StepKeeps
<1>s. row[i].sigs \in Seq(Users \cup {SYSTEM})
  BY DEF TypeOK, Rows
<1>1. ASSUME row'[i].sigs = row[i].sigs, row[i].status # "absent"
      PROVE  (AutoApproved(i) \/ Signed(row[i].sigs, i))'
  <2>1. AutoApproved(i) \/ Signed(row[i].sigs, i)
    BY DEF GateInv, SigsSigned
  <2>2. Signed(row[i].sigs, i) => (Signed(row[i].sigs, i))'
    BY <1>1, <1>k, <1>s, AuthorisationLasts DEF Signed
  <2>3. QED BY <2>1, <2>2, <1>1, <1>k, AuthorisationLasts
<1>2. ASSUME row'[i].sigs = row[i].sigs,
             row'[i].required = row[i].required,
             row'[i].confident = row[i].confident
      PROVE  (AutoApproved(i) \/ Signed(row[i].sigs, i))'
  <2>1. AutoApproved(i) \/ Signed(row[i].sigs, i)
    BY DEF GateInv, SigsSigned
  <2>2. Signed(row[i].sigs, i) => (Signed(row[i].sigs, i))'
    BY <1>2, <1>k, <1>s, AuthorisationLasts DEF Signed
  <2>3. AutoApproved(i) => AutoApproved(i)'
    BY <1>2 DEF AutoApproved
  <2>4. QED BY <2>1, <2>2, <2>3
<1>3. ASSUME CommitPend PROVE (AutoApproved(i) \/ Signed(row[i].sigs, i))'
  BY <1>2, <1>3, FlushedType DEF CommitPend
<1>4. ASSUME UNCHANGED row PROVE (AutoApproved(i) \/ Signed(row[i].sigs, i))'
  BY <1>2, <1>4
<1>5. CASE Propose
  <2>1. PICK j \in Items, c \in Categories, o \in Overrides \cup {None},
             confident \in BOOLEAN, p \in Payloads :
               Create(j, c, o, confident, p)
    BY <1>5 DEF Propose
  <2>2. CASE i # j
    BY <1>2, <2>1, <2>2 DEF Create, TypeOK
  <2>3. CASE i = j /\ row'[i].status = "approved"
    <3>1. row'[i].required = 1 /\ row'[i].confident
      BY <2>1, <2>3 DEF Create, TypeOK
    <3>2. QED BY <3>1 DEF AutoApproved
  <2>4. CASE i = j /\ row'[i].status # "approved"
    <3>1. row'[i].sigs = <<>>
      BY <2>1, <2>4 DEF Create, TypeOK
    <3>2. Range(<<>>) = {} /\ Len(<<>>) = 0
      BY DEF Range
    <3>3. QED BY <3>1, <3>2, FS_EmptySet DEF Signed
  <2>5. QED BY <2>2, <2>3, <2>4
<1>6. ASSUME NEW r \in Requests, CommitApprove(r)
      PROVE  (AutoApproved(i) \/ Signed(row[i].sigs, i))'
  <2> DEFINE c == call[r]
             sg == Append(c.sigs, c.user)
  <2>1. /\ c.item \in Items /\ c.op = "approve" /\ c.user \in Users
        /\ c.sigs \in Seq(Users \cup {SYSTEM}) /\ c # None
    BY <1>6 DEF CommitApprove, Ready, Calls, TypeOK
  <2>2. CASE i # c.item
    BY <1>2, <1>6, <2>1, <2>2 DEF CommitApprove, TypeOK
  <2>3. CASE i = c.item /\ AutoApproved(i)
    BY <2>1, <2>3, <1>k, AuthorisationLasts DEF GateInv, CallsSigned, CallSigned
  <2>4. CASE i = c.item /\ ~AutoApproved(i)
    <3>1. /\ row'[i].sigs = sg
          /\ approvers'[i] = approvers[i] \cup {c.user}
      BY <1>6, <2>1, <2>4 DEF CommitApprove, TypeOK, Rows
    <3>2. Signed(c.sigs, i) /\ c.user \notin Range(c.sigs)
      BY <2>1, <2>4 DEF GateInv, CallsSigned, CallSigned
    <3>3. Range(sg) = Range(c.sigs) \cup {c.user} /\ Len(sg) = Len(c.sigs) + 1
      BY <2>1, RangeAppend
    <3>4. IsFiniteSet(Range(c.sigs))
      BY <3>2, FS_Subset, ConstAssumption DEF Signed, TypeOK
    <3>5. Cardinality(Range(sg)) = Cardinality(Range(c.sigs)) + 1
      BY <3>2, <3>3, <3>4, FS_AddElement
    <3>6. QED BY <3>1, <3>2, <3>3, <3>5 DEF Signed
  <2>5. QED BY <2>2, <2>3, <2>4
<1>7. ASSUME NEW r \in Requests, CommitReject(r) \/ CommitEdit(r)
      PROVE  (AutoApproved(i) \/ Signed(row[i].sigs, i))'
  <2>1. call[r].item \in Items
    BY <1>7 DEF CommitReject, CommitEdit, Ready, Calls, TypeOK
  <2>2. CASE CommitReject(r)
    <3>1. row' = [row EXCEPT ![call[r].item].status = "rejected"]
      BY <2>2 DEF CommitReject
    <3>2. QED BY <1>2, <2>1, <3>1, RejectColumns
  <2>3. CASE CommitEdit(r)
    <3>1. row' = [row EXCEPT ![call[r].item].payload = call[r].payload]
      BY <2>3 DEF CommitEdit
    <3>2. QED BY <1>2, <2>1, <3>1, EditColumns
  <2>4. QED BY <1>7, <2>2, <2>3
<1>8. CASE \/ SweepStart \/ SweepCrash \/ UNCHANGED vars
           \/ \E r \in Requests :
                \/ Abandon(r)
                \/ \E u \in Users, j \in Items :
                     \/ BeginApprove(r, u, j) \/ BeginReject(r, u, j)
                     \/ \E p \in Payloads : BeginEdit(r, u, j, p)
  BY <1>8, <1>4
  DEF SweepStart, SweepCrash, vars, rowVars, Abandon, BeginApprove,
      BeginReject, BeginEdit, Begin
<1>9. CASE DraftDone \/ SweepEnd \/ \E b \in BOOLEAN : DraftLost(b)
  BY <1>9, <1>3, <1>4 DEF DraftDone, DraftLost, MarkFailed, SweepEnd
<1>10. ASSUME NEW j \in Items, NEW b \in BOOLEAN,
              PostDraft(j, b) \/ DispatchFail(j, b)
       PROVE  (AutoApproved(i) \/ Signed(row[i].sigs, i))'
  BY <1>3, <1>4, <1>10 DEF PostDraft, DispatchFail, MarkFailed
<1>11. QED
  BY <1>5, <1>6, <1>7, <1>8, <1>9, <1>10
  DEF Next, Request, SweepStep, SweepFault

(* What leaves is authorised after every step: a row becomes approved only *)
(* by a signature list that suffices, the sweep loads only rows that are   *)
(* approved or failed, and posts and records only what it has loaded.      *)
LEMMA LeavingStep ==
  TypeOK /\ TypeOK' /\ GateInv /\ [Next]_vars => LeavingAuthorised'
<1> SUFFICES ASSUME TypeOK, TypeOK', GateInv, [Next]_vars,
                    NEW i \in Items, Leaving(i)'
             PROVE  Authorised(i)' /\ row'[i].status # "absent"
  BY DEF LeavingAuthorised
<1> DEFINE Goal == Authorised(i)' /\ row'[i].status # "absent"
<1>k. Kept
  BY StepKeeps
<1>l. ASSUME Leaving(i) PROVE Goal
  BY <1>l, <1>k, AuthorisationLasts DEF GateInv, LeavingAuthorised, Kept
<1>c. ASSUME CommitPend, drafts'[i] = drafts[i] \/ i \in batch,
             batch' \subseteq batch
      PROVE  Goal
  <2>1. row'[i] = Flushed(i)
    BY <1>c DEF CommitPend
  <2>2. CASE pend[i] # "none"
    BY <2>2, <1>l DEF GateInv, PendInBatch, Leaving
  <2>3. CASE pend[i] = "none"
    <3>1. row'[i].status = row[i].status
      BY <2>1, <2>3, FlushedType
    <3>2. QED BY <3>1, <1>c, <1>l DEF Leaving
  <2>4. QED BY <2>2, <2>3
<1>s. ASSUME row'[i].status = row[i].status,
             drafts'[i] = drafts[i] \/ i \in batch, batch' \subseteq batch
      PROVE  Goal
  BY <1>s, <1>l DEF Leaving
<1>1. CASE Propose
  <2>1. PICK j \in Items, c \in Categories, o \in Overrides \cup {None},
             confident \in BOOLEAN, p \in Payloads :
               Create(j, c, o, confident, p)
    BY <1>1 DEF Propose
  <2>2. batch' = batch /\ drafts' = drafts /\ row[j].status = "absent"
    BY <2>1 DEF Create, sweepVars
  <2>3. CASE i # j
    BY <1>s, <2>1, <2>2, <2>3 DEF Create, TypeOK
  <2>4. CASE i = j /\ row'[i].status = "approved"
    <3>1. row'[i].required = 1 /\ row'[i].confident
      BY <2>1, <2>4 DEF Create, TypeOK
    <3>2. QED BY <2>4, <3>1 DEF AutoApproved, Authorised
  <2>5. CASE i = j /\ row'[i].status # "approved"
    <3>1. row'[i].status = "pending"
      BY <2>1, <2>5 DEF Create, TypeOK
    <3>2. Leaving(i)
      BY <2>2, <3>1 DEF Leaving
    <3>3. QED BY <3>2, <1>l
  <2>6. QED BY <2>3, <2>4, <2>5
<1>2. ASSUME NEW r \in Requests, CommitApprove(r) PROVE Goal
  <2> DEFINE c == call[r]
             sg == Append(c.sigs, c.user)
  <2>1. /\ c.item \in Items /\ c.op = "approve" /\ c.user \in Users
        /\ c.sigs \in Seq(Users \cup {SYSTEM}) /\ c # None
        /\ drafts' = drafts /\ batch' = batch
    BY <1>2 DEF CommitApprove, Ready, Calls, TypeOK, sweepVars
  <2>2. CASE i # c.item \/ row'[i].status = row[i].status
    BY <1>s, <1>2, <2>1, <2>2 DEF CommitApprove, TypeOK
  <2>3. CASE i = c.item /\ row'[i].status # row[i].status
    <3>1. row[i].status # "absent"
      BY <2>1, <2>3 DEF GateInv, CallsSigned, CallSigned
    <3>2. row'[i].status # "absent" /\ row'[i].required = row[i].required
      BY <3>1, <1>k DEF Kept
    <3>3. CASE AutoApproved(i)
      BY <3>1, <3>2, <3>3, <1>k, AuthorisationLasts DEF Authorised
    <3>4. CASE ~AutoApproved(i)
      <4>0. /\ row' = [row EXCEPT ![i] = [row[i] EXCEPT !.sigs = sg, !.status =
                         IF Len(sg) >= row[i].required
                         THEN "approved" ELSE row[i].status]]
            /\ approvers' = [approvers EXCEPT ![i] = approvers[i] \cup {c.user}]
        BY <1>2, <2>3 DEF CommitApprove
      <4>1. /\ Len(sg) >= row[i].required
            /\ approvers'[i] = approvers[i] \cup {c.user}
        <5>1. /\ row'[i] = [row[i] EXCEPT !.sigs = sg, !.status =
                         IF Len(sg) >= row[i].required
                         THEN "approved" ELSE row[i].status]
              /\ row[i] \in Rows
          BY <4>0 DEF TypeOK
        <5>2. row'[i].status = IF Len(sg) >= row[i].required
                               THEN "approved" ELSE row[i].status
          BY <5>1 DEF Rows
        <5>3. Len(sg) >= row[i].required
          BY <5>2, <2>3
        <5>4. QED BY <4>0, <5>3 DEF TypeOK
      <4>2. /\ Range(c.sigs) \subseteq approvers[i]
            /\ Len(c.sigs) = Cardinality(Range(c.sigs))
            /\ c.user \notin Range(c.sigs)
        BY <2>1, <2>3, <3>4 DEF GateInv, CallsSigned, CallSigned, Signed
      <4>3. /\ IsFiniteSet(approvers'[i])
            /\ Range(c.sigs) \cup {c.user} \subseteq approvers'[i]
        BY <4>1, <4>2, FS_Subset, ConstAssumption DEF TypeOK
      <4>4. IsFiniteSet(Range(c.sigs))
        BY <4>3, FS_Subset
      <4>5. /\ Cardinality(Range(c.sigs) \cup {c.user}) = Len(c.sigs) + 1
            /\ Cardinality(Range(c.sigs) \cup {c.user})
                 <= Cardinality(approvers'[i])
        BY <4>2, <4>3, <4>4, FS_AddElement, FS_Subset
      <4>6. Len(sg) = Len(c.sigs) + 1 /\ Len(c.sigs) \in Nat
        BY <2>1
      <4>7. Cardinality(approvers'[i]) \in Nat /\ row[i].required \in Nat
        BY <4>3, FS_CardinalityType DEF TypeOK, Rows
      <4>8. Cardinality(approvers'[i]) >= row'[i].required
        BY <3>2, <4>1, <4>5, <4>6, <4>7
      <4>9. QED BY <3>2, <4>8 DEF Authorised
    <3>5. QED BY <3>3, <3>4
  <2>4. QED BY <2>2, <2>3
<1>3. ASSUME NEW r \in Requests, CommitReject(r) PROVE Goal
  <2>1. /\ row' = [row EXCEPT ![call[r].item].status = "rejected"]
        /\ call[r].item \in Items /\ drafts' = drafts /\ batch' = batch
    BY <1>3 DEF CommitReject, Ready, Calls, TypeOK, sweepVars
  <2>2. CASE i = call[r].item
    <3>1. row'[i].status = "rejected"
      <4>1. row'[i] = [row[i] EXCEPT !.status = "rejected"] /\ row[i] \in Rows
        BY <2>1, <2>2 DEF TypeOK
      <4>2. QED BY <4>1 DEF Rows
    <3>2. QED BY <2>1, <3>1, <1>l DEF Leaving
  <2>3. CASE i # call[r].item
    BY <2>1, <2>3, <1>s DEF TypeOK
  <2>4. QED BY <2>2, <2>3
<1>4. ASSUME NEW r \in Requests, CommitEdit(r) PROVE Goal
  <2>1. /\ row' = [row EXCEPT ![call[r].item].payload = call[r].payload]
        /\ call[r].item \in Items /\ drafts' = drafts /\ batch' = batch
    BY <1>4 DEF CommitEdit, Ready, Calls, TypeOK, sweepVars
  <2>2. row'[i].status = row[i].status
    BY <2>1, EditColumns
  <2>3. QED BY <2>1, <2>2, <1>s
<1>5. CASE UNCHANGED vars
           \/ \E r \in Requests :
                \/ Abandon(r)
                \/ \E u \in Users, j \in Items :
                     \/ BeginApprove(r, u, j) \/ BeginReject(r, u, j)
                     \/ \E p \in Payloads : BeginEdit(r, u, j, p)
  BY <1>5, <1>s
  DEF vars, rowVars, sweepVars, Abandon, BeginApprove, BeginReject, BeginEdit,
      Begin
<1>6. CASE SweepStart
  <2>1. /\ batch' = {j \in Items : /\ row[j].status \in Dispatchable
                                   /\ row[j].category = EmailDraft}
        /\ row' = row /\ drafts' = drafts
    BY <1>6 DEF SweepStart, rowVars
  <2>2. QED BY <2>1, <1>l DEF Leaving, Dispatchable
<1>7. CASE SweepCrash
  BY <1>7, <1>s DEF SweepCrash, rowVars
<1>8. CASE DraftDone \/ SweepEnd \/ \E b \in BOOLEAN : DraftLost(b)
  <2>1. drafts' = drafts /\ batch' \in {batch, {}} /\ (CommitPend \/ row' = row)
    BY <1>8 DEF DraftDone, DraftLost, MarkFailed, SweepEnd
  <2>2. QED BY <2>1, <1>c, <1>s
<1>9. ASSUME NEW j \in Items, NEW b \in BOOLEAN, PostDraft(j, b)
      PROVE  Goal
  <2>1. /\ drafts'[i] = drafts[i] \/ i \in batch
        /\ batch' = batch /\ (CommitPend \/ row' = row)
    BY <1>9 DEF PostDraft, TypeOK
  <2>2. QED BY <2>1, <1>c, <1>s
<1>10. ASSUME NEW j \in Items, NEW b \in BOOLEAN, DispatchFail(j, b)
       PROVE  Goal
  <2>1. drafts' = drafts /\ batch' = batch /\ (CommitPend \/ row' = row)
    BY <1>10 DEF DispatchFail, MarkFailed
  <2>2. QED BY <2>1, <1>c, <1>s
<1>11. QED
  BY <1>1, <1>2, <1>3, <1>4, <1>5, <1>6, <1>7, <1>8, <1>9, <1>10
  DEF Next, Request, SweepStep, SweepFault

(* Nothing is voted on or drafted before it is proposed. *)
LEMMA AbsentStep ==
  TypeOK /\ TypeOK' /\ GateInv /\ [Next]_vars => AbsentClean'
<1> SUFFICES ASSUME TypeOK, TypeOK', GateInv, [Next]_vars,
                    NEW i \in Items, row'[i].status = "absent"
             PROVE  approvers'[i] = {} /\ drafts'[i] = <<>>
  BY DEF AbsentClean
<1>1. row[i].status = "absent"
  BY StepKeeps DEF Kept
<1>2. approvers[i] = {} /\ drafts[i] = <<>> /\ i \notin batch
  BY <1>1 DEF GateInv, AbsentClean, LeavingAuthorised, Leaving
<1>3. ASSUME UNCHANGED <<approvers, drafts>>
      PROVE  approvers'[i] = {} /\ drafts'[i] = <<>>
  BY <1>2, <1>3
<1>4. CASE Propose
  BY <1>4, <1>3 DEF Propose, Create
<1>5. ASSUME NEW r \in Requests, CommitApprove(r)
      PROVE  approvers'[i] = {} /\ drafts'[i] = <<>>
  <2>1. call[r].item # i
    BY <1>1, <1>5 DEF CommitApprove, Ready, GateInv, CallsSigned, CallSigned
  <2>2. approvers'[i] = approvers[i] /\ drafts' = drafts
    BY <1>5, <2>1 DEF CommitApprove, TypeOK
  <2>3. QED BY <1>2, <2>2
<1>6. ASSUME NEW r \in Requests,
             \/ CommitReject(r) \/ CommitEdit(r) \/ Abandon(r)
             \/ \E u \in Users, j \in Items :
                  \/ BeginApprove(r, u, j) \/ BeginReject(r, u, j)
                  \/ \E p \in Payloads : BeginEdit(r, u, j, p)
      PROVE  approvers'[i] = {} /\ drafts'[i] = <<>>
  BY <1>6, <1>3
  DEF CommitReject, CommitEdit, Abandon, BeginApprove, BeginReject,
      BeginEdit, Begin, rowVars
<1>7. CASE \/ SweepStart \/ DraftDone \/ SweepEnd \/ SweepCrash
           \/ \E b \in BOOLEAN : DraftLost(b)
  BY <1>7, <1>3
  DEF SweepStart, DraftDone, SweepEnd, DraftLost, SweepCrash, rowVars
<1>8. ASSUME NEW j \in Items, NEW b \in BOOLEAN, PostDraft(j, b)
      PROVE  approvers'[i] = {} /\ drafts'[i] = <<>>
  <2>1. j # i
    BY <1>2, <1>8 DEF PostDraft, TypeOK
  <2>2. drafts'[i] = drafts[i] /\ approvers' = approvers
    BY <1>8, <2>1 DEF PostDraft, TypeOK
  <2>3. QED BY <1>2, <2>2
<1>9. ASSUME NEW j \in Items, NEW b \in BOOLEAN, DispatchFail(j, b)
      PROVE  approvers'[i] = {} /\ drafts'[i] = <<>>
  BY <1>9, <1>3 DEF DispatchFail
<1>10. CASE UNCHANGED vars
  BY <1>10, <1>3 DEF vars
<1>11. QED
  BY <1>4, <1>5, <1>6, <1>7, <1>8, <1>9, <1>10
  DEF Next, Request, SweepStep, SweepFault

(* Only items of the batch have an outcome to be written. *)
LEMMA PendStep ==
  TypeOK /\ GateInv /\ [Next]_vars => PendInBatch'
<1> SUFFICES ASSUME TypeOK, GateInv, [Next]_vars,
                    NEW i \in Items, pend'[i] # "none"
             PROVE  i \in batch'
  BY DEF PendInBatch
<1>1. pend[i] # "none" => i \in batch
  BY DEF GateInv, PendInBatch
<1>2. ASSUME UNCHANGED pend, batch' = batch PROVE i \in batch'
  BY <1>1, <1>2
<1>3. ASSUME NEW j \in batch, NEW v,
             pend' \in {[NothingPending EXCEPT ![j] = v], [pend EXCEPT ![j] = v]},
             batch' = batch
      PROVE  i \in batch'
  BY <1>1, <1>3 DEF NothingPending, TypeOK
<1>4. CASE Propose
  BY <1>4, <1>2 DEF Propose, Create, sweepVars
<1>5. CASE Request
  BY <1>5, <1>2
  DEF Request, CommitApprove, CommitReject, CommitEdit, Abandon, BeginApprove,
      BeginReject, BeginEdit, Begin, sweepVars
<1>6. CASE SweepStart
  BY <1>1, <1>6 DEF SweepStart
<1>7. CASE DraftDone \/ \E b \in BOOLEAN : DraftLost(b)
  <2>1. posting \in batch /\ batch' = batch
    BY <1>7 DEF DraftDone, DraftLost, TypeOK
  <2>2. QED BY <1>7, <1>3, <2>1 DEF DraftDone, DraftLost, MarkFailed
<1>8. CASE SweepEnd \/ SweepCrash
  BY <1>8 DEF SweepEnd, SweepCrash, NothingPending
<1>9. ASSUME NEW j \in Items, NEW b \in BOOLEAN, PostDraft(j, b)
      PROVE  i \in batch'
  BY <1>2, <1>9 DEF PostDraft, NothingPending
<1>10. ASSUME NEW j \in Items, NEW b \in BOOLEAN, DispatchFail(j, b)
       PROVE  i \in batch'
  <2>1. j \in batch /\ batch' = batch
    BY <1>10 DEF DispatchFail, TypeOK
  <2>2. QED BY <1>3, <1>10, <2>1 DEF DispatchFail, MarkFailed
<1>11. CASE UNCHANGED vars
  BY <1>2, <1>11 DEF vars
<1>12. QED
  BY <1>4, <1>5, <1>6, <1>7, <1>8, <1>9, <1>10, <1>11
  DEF Next, SweepStep, SweepFault


(* What a request has read stays backed by committed approvals. *)
LEMMA CallLasts ==
  ASSUME TypeOK, TypeOK', Kept, NEW c \in Calls, CallSigned(c)
  PROVE  CallSigned(c)'
<1>1. c.item \in Items /\ row[c.item].status # "absent"
  BY DEF Calls, CallSigned
<1>2. row'[c.item].status # "absent"
  BY <1>1 DEF Kept
<1>3. ASSUME c.op = "approve"
      PROVE  \/ AutoApproved(c.item)'
             \/ Signed(c.sigs, c.item)' /\ c.user \notin Range(c.sigs)
  <2>1. c.sigs \in Seq(Users \cup {SYSTEM})
    BY <1>3 DEF Calls
  <2>2. CASE AutoApproved(c.item)
    BY <1>1, <2>2, AuthorisationLasts
  <2>3. CASE ~AutoApproved(c.item)
    BY <1>1, <1>3, <2>1, <2>3, AuthorisationLasts DEF CallSigned
  <2>4. QED BY <2>2, <2>3
<1>4. QED BY <1>2, <1>3 DEF CallSigned

LEMMA CallsStep ==
  TypeOK /\ TypeOK' /\ GateInv /\ [Next]_vars => CallsSigned'
<1> SUFFICES ASSUME TypeOK, TypeOK', GateInv, [Next]_vars,
                    NEW r \in Requests, call'[r] # None
             PROVE  CallSigned(call[r])'
  BY DEF CallsSigned
<1>1. ASSUME call'[r] = call[r] PROVE CallSigned(call[r])'
  <2>1. call[r] \in Calls /\ CallSigned(call[r])
    BY <1>1 DEF GateInv, CallsSigned, TypeOK
  <2> DEFINE c == call[r]
  <2>2. c \in Calls /\ CallSigned(c)
    BY <2>1
  <2>3. call'[r] = c
    BY <1>1
  <2> HIDE DEF c
  <2>4. \A d \in Calls : CallSigned(d) => CallSigned(d)'
    BY StepKeeps, CallLasts
  <2>5. QED BY <2>2, <2>3, <2>4 DEF CallSigned
<1>2. ASSUME NEW q \in Requests, NEW v, call' = [call EXCEPT ![q] = v],
             v = None \/ q # r
      PROVE  CallSigned(call[r])'
  BY <1>1, <1>2 DEF TypeOK
<1>3. ASSUME NEW q \in Requests, NEW c, Begin(q, c), NEW i \in Items,
             c.item = i,
             c.op = "approve" => /\ c.sigs = row[i].sigs
                                 /\ c.user \notin Range(c.sigs)
      PROVE  CallSigned(call[r])'
  <2>1. CASE q # r
    BY <1>2, <1>3, <2>1 DEF Begin
  <2>2. CASE q = r
    <3>1. call'[r] = c /\ UNCHANGED <<row, approvers>>
      BY <1>3, <2>2 DEF Begin, rowVars, TypeOK
    <3>2. row[i].status = "pending"
      BY <1>3 DEF Begin
    <3>3. AutoApproved(i) \/ Signed(row[i].sigs, i)
      BY DEF GateInv, SigsSigned
    <3>4. QED BY <1>3, <3>1, <3>2, <3>3 DEF CallSigned, AutoApproved, Signed
  <2>3. QED BY <2>1, <2>2
<1>4. CASE Propose
  BY <1>4, <1>1 DEF Propose, Create
<1>5. ASSUME NEW q \in Requests,
             CommitApprove(q) \/ CommitReject(q) \/ CommitEdit(q) \/ Abandon(q)
      PROVE  CallSigned(call[r])'
  BY <1>5, <1>2 DEF CommitApprove, CommitReject, CommitEdit, Abandon
<1>6. ASSUME NEW q \in Requests, NEW u \in Users, NEW i \in Items,
             BeginApprove(q, u, i) \/ BeginReject(q, u, i)
      PROVE  CallSigned(call[r])'
  BY <1>3, <1>6 DEF BeginApprove, BeginReject
<1>7. ASSUME NEW q \in Requests, NEW u \in Users, NEW i \in Items,
             NEW p \in Payloads, BeginEdit(q, u, i, p)
      PROVE  CallSigned(call[r])'
  BY <1>3, <1>7 DEF BeginEdit
<1>8. CASE SweepStep \/ SweepFault \/ UNCHANGED vars
  BY <1>8, <1>1
  DEF SweepStep, SweepFault, SweepStart, DraftDone, SweepEnd, PostDraft,
      DraftLost, SweepCrash, DispatchFail, vars
<1>9. QED
  BY <1>4, <1>5, <1>6, <1>7, <1>8 DEF Next, Request

-----------------------------------------------------------------------------
(* The inductive invariant of the gate holds in every reachable state. *)
THEOREM GateInvariant == Spec => [](TypeOK /\ GateInv)
<1>1. Init => TypeOK /\ GateInv
  BY TypeInit, GateInit
<1>2. TypeOK /\ GateInv /\ [Next]_vars => (TypeOK /\ GateInv)'
  BY TypeStep, SigsStep, AbsentStep, LeavingStep, PendStep, CallsStep DEF GateInv
<1>3. QED BY <1>1, <1>2, PTL DEF Spec

(* However approvals, rejections, edits and sweeps interleave, whatever is *)
(* approved, tried, sent or drafted has the distinct approvers it needs.   *)
THEOREM EnoughSignersHolds == Spec => []EnoughSigners
<1>1. GateInv => EnoughSigners
  BY DEF GateInv, LeavingAuthorised, Leaving, EnoughSigners
<1>2. QED BY <1>1, GateInvariant, PTL

-----------------------------------------------------------------------------
(* The queue implements the abstract gate.                                 *)

Proposed == {i \in Items : row[i].status # "absent"}
Needed == [i \in Items |-> IF AutoApproved(i) THEN 0 ELSE row[i].required]
Emitted == [i \in Items |-> Len(drafts[i])]

(* The instance counts as this module counts. *)
LEMMA SameCardinality == \A S : Gate!Cardinality(S) = Cardinality(S)
BY DEF Gate!Cardinality, Cardinality, Gate!IsFiniteSet, IsFiniteSet

(* Steps that propose nothing leave the policy of every item alone. *)
LEMMA PolicyKept ==
  ASSUME \A i \in Items : /\ row'[i].required = row[i].required
                          /\ row'[i].confident = row[i].confident
                          /\ row'[i].status = "absent" <=> row[i].status = "absent"
  PROVE  Proposed' = Proposed /\ Needed' = Needed
BY DEF Proposed, Needed, AutoApproved

LEMMA PolicyKeptByCommit ==
  ASSUME TypeOK, GateInv, CommitPend
  PROVE  Proposed' = Proposed /\ Needed' = Needed
<1>1. ASSUME NEW i \in Items
      PROVE  /\ row'[i].required = row[i].required
             /\ row'[i].confident = row[i].confident
             /\ row'[i].status = "absent" <=> row[i].status = "absent"
  <2>1. row'[i] = Flushed(i)
    BY DEF CommitPend
  <2>2. row'[i].status # row[i].status => row[i].status # "absent"
    BY <2>1, FlushedType
    DEF GateInv, PendInBatch, LeavingAuthorised, Leaving
  <2>3. QED BY <2>1, <2>2, FlushedType
<1>2. QED BY <1>1, PolicyKept

LEMMA GateStepRefined ==
  TypeOK /\ TypeOK' /\ GateInv /\ [Next]_vars
    => [Gate!GateNext]_(Gate!gateVars)
<1> SUFFICES ASSUME TypeOK, TypeOK', GateInv, [Next]_vars
             PROVE  [Gate!GateNext]_(Gate!gateVars)
  OBVIOUS
<1>s. ASSUME Proposed' = Proposed, Needed' = Needed,
             UNCHANGED <<approvers, drafts>>
      PROVE  [Gate!GateNext]_(Gate!gateVars)
  BY <1>s DEF Gate!gateVars, Proposed, Needed
<1>u. ASSUME UNCHANGED <<row, approvers, drafts>>
      PROVE  [Gate!GateNext]_(Gate!gateVars)
  BY <1>u, <1>s, PolicyKept
<1>1. ASSUME NEW i \in Items, NEW c \in Categories,
             NEW o \in Overrides \cup {None}, NEW confident \in BOOLEAN,
             NEW p \in Payloads, Create(i, c, o, confident, p)
      PROVE  Gate!Propose(i)
  <2>1. /\ row[i].status = "absent"
        /\ row'[i].status \in {"approved", "pending"}
        /\ \A j \in Items \ {i} : row'[j] = row[j]
        /\ UNCHANGED <<approvers, drafts>>
    BY <1>1 DEF Create, TypeOK
  <2>2. i \in Items \ Proposed /\ Proposed' = Proposed \cup {i}
    BY <2>1 DEF Proposed
  <2>3. Needed' \in [Items -> Nat]
    BY DEF Needed, TypeOK, Rows
  <2>4. \A j \in Items \ {i} : Needed'[j] = Needed[j]
    BY <2>1 DEF Needed, AutoApproved
  <2>5. QED BY <2>1, <2>2, <2>3, <2>4 DEF Gate!Propose, Proposed, Needed
<1>2. ASSUME NEW r \in Requests, CommitApprove(r)
      PROVE  Gate!Vote(call[r].item, call[r].user)
             /\ call[r].item \in Items /\ call[r].user \in Users
  <2> DEFINE c == call[r]
  <2>1. /\ c.item \in Items /\ c.user \in Users /\ c # None
        /\ approvers' = [approvers EXCEPT ![c.item] = @ \cup {c.user}]
        /\ UNCHANGED drafts
    BY <1>2 DEF CommitApprove, Ready, Calls, TypeOK
  <2>2. row[c.item].status # "absent"
    BY <2>1 DEF GateInv, CallsSigned, CallSigned
  <2>3. PICK sg, st :
          /\ row' = [row EXCEPT ![c.item] =
                       [row[c.item] EXCEPT !.sigs = sg, !.status = st]]
          /\ st \in {"approved", row[c.item].status}
    BY <1>2 DEF CommitApprove
  <2>4. ASSUME NEW i \in Items
        PROVE  /\ row'[i].required = row[i].required
               /\ row'[i].confident = row[i].confident
               /\ row'[i].status = "absent" <=> row[i].status = "absent"
    <3>1. /\ row'[i].required = row[i].required
          /\ row'[i].confident = row[i].confident
      BY <2>1, <2>3, ApproveColumns
    <3>2. CASE i = c.item
      <4>1. /\ row'[i] = [row[i] EXCEPT !.sigs = sg, !.status = st]
            /\ row[i] \in Rows
        BY <2>1, <2>3, <3>2 DEF TypeOK
      <4>2. row'[i].status = st
        BY <4>1 DEF Rows
      <4>3. QED BY <2>2, <2>3, <3>1, <3>2, <4>2
    <3>3. CASE i # c.item
      BY <2>1, <2>3, <3>1, <3>3 DEF TypeOK
    <3>4. QED BY <3>2, <3>3
  <2>5. Proposed' = Proposed /\ Needed' = Needed
    BY <2>4, PolicyKept
  <2>6. QED
    BY <2>1, <2>2, <2>5 DEF Gate!Vote, Proposed, Needed
<1>3. ASSUME NEW i \in Items, NEW b \in BOOLEAN, PostDraft(i, b)
      PROVE  Gate!Emit(i)
  <2>1. /\ i \in batch
        /\ drafts' = [drafts EXCEPT ![i] = Append(@, loaded[i].payload)]
        /\ UNCHANGED approvers
        /\ CommitPend \/ row' = row
    BY <1>3 DEF PostDraft, TypeOK
  <2>2. Proposed' = Proposed /\ Needed' = Needed
    <3>1. CASE CommitPend
      BY <3>1, PolicyKeptByCommit
    <3>2. CASE row' = row
      BY <3>2, PolicyKept
    <3>3. QED BY <2>1, <3>1, <3>2
  <2>3. Authorised(i) /\ row[i].status # "absent"
    BY <2>1 DEF GateInv, LeavingAuthorised, Leaving
  <2>4. Cardinality(approvers[i]) >= Needed[i]
    <3>1. Cardinality(approvers[i]) \in Nat
      BY FS_Subset, FS_CardinalityType, ConstAssumption DEF TypeOK
    <3>2. QED BY <2>3, <3>1 DEF Authorised, Needed
  <2>5. Emitted' = [Emitted EXCEPT ![i] = @ + 1]
    <3>1. loaded[i].payload \in Payloads /\ drafts[i] \in Seq(Payloads)
      BY DEF TypeOK, Rows
    <3>2. Len(Append(drafts[i], loaded[i].payload)) = Len(drafts[i]) + 1
      BY <3>1
    <3>3. QED BY <2>1, <3>2 DEF Emitted, TypeOK
  <2>6. QED
    BY <2>1, <2>2, <2>3, <2>4, <2>5, SameCardinality
    DEF Gate!Emit, Proposed, Needed, Emitted
<1>4. ASSUME NEW r \in Requests, CommitReject(r) \/ CommitEdit(r)
      PROVE  [Gate!GateNext]_(Gate!gateVars)
  <2>1. /\ call[r].item \in Items /\ call[r] # None
        /\ UNCHANGED <<approvers, drafts>>
    BY <1>4 DEF CommitReject, CommitEdit, Ready, Calls, TypeOK
  <2>2. row[call[r].item].status # "absent"
    BY <2>1 DEF GateInv, CallsSigned, CallSigned
  <2>3. CASE CommitReject(r)
    <3>1. row' = [row EXCEPT ![call[r].item].status = "rejected"]
      BY <2>3 DEF CommitReject
    <3>2. ASSUME NEW i \in Items
          PROVE  /\ row'[i].required = row[i].required
                 /\ row'[i].confident = row[i].confident
                 /\ row'[i].status = "absent" <=> row[i].status = "absent"
      <4>1. /\ row'[i].required = row[i].required
            /\ row'[i].confident = row[i].confident
        BY <2>1, <3>1, RejectColumns
      <4>2. CASE i = call[r].item
        <5>1. row'[i] = [row[i] EXCEPT !.status = "rejected"] /\ row[i] \in Rows
          BY <2>1, <3>1, <4>2 DEF TypeOK
        <5>2. row'[i].status = "rejected"
          BY <5>1 DEF Rows
        <5>3. QED BY <2>2, <4>1, <4>2, <5>2
      <4>3. CASE i # call[r].item
        BY <2>1, <3>1, <4>1, <4>3 DEF TypeOK
      <4>4. QED BY <4>2, <4>3
    <3>3. QED BY <2>1, <3>2, PolicyKept, <1>s
  <2>4. CASE CommitEdit(r)
    <3>1. row' = [row EXCEPT ![call[r].item].payload = call[r].payload]
      BY <2>4 DEF CommitEdit
    <3>2. \A i \in Items :
            /\ row'[i].required = row[i].required
            /\ row'[i].confident = row[i].confident
            /\ row'[i].status = row[i].status
      BY <2>1, <3>1, EditColumns
    <3>3. QED BY <2>1, <3>2, PolicyKept, <1>s
  <2>5. QED BY <1>4, <2>3, <2>4
<1>5. CASE UNCHANGED vars
           \/ \E r \in Requests :
                \/ Abandon(r)
                \/ \E u \in Users, j \in Items :
                     \/ BeginApprove(r, u, j) \/ BeginReject(r, u, j)
                     \/ \E p \in Payloads : BeginEdit(r, u, j, p)
  BY <1>5, <1>u
  DEF vars, rowVars, Abandon, BeginApprove, BeginReject, BeginEdit, Begin
<1>6. CASE SweepStart \/ SweepCrash
  BY <1>6, <1>u DEF SweepStart, SweepCrash, rowVars
<1>7. CASE DraftDone \/ SweepEnd \/ \E b \in BOOLEAN : DraftLost(b)
  <2>1. UNCHANGED <<approvers, drafts>> /\ (CommitPend \/ row' = row)
    BY <1>7 DEF DraftDone, DraftLost, MarkFailed, SweepEnd
  <2>2. QED BY <2>1, <1>s, <1>u, PolicyKeptByCommit
<1>8. ASSUME NEW j \in Items, NEW b \in BOOLEAN, DispatchFail(j, b)
      PROVE  [Gate!GateNext]_(Gate!gateVars)
  <2>1. UNCHANGED <<approvers, drafts>> /\ (CommitPend \/ row' = row)
    BY <1>8 DEF DispatchFail, MarkFailed
  <2>2. QED BY <2>1, <1>s, <1>u, PolicyKeptByCommit
<1>9. CASE Propose
  BY <1>9, <1>1 DEF Propose, Gate!GateNext
<1>10. CASE Request
  BY <1>10, <1>2, <1>4, <1>5 DEF Request, Gate!GateNext
<1>11. CASE SweepStep \/ SweepFault
  BY <1>11, <1>3, <1>6, <1>7, <1>8 DEF SweepStep, SweepFault, Gate!GateNext
<1>12. QED BY <1>5, <1>9, <1>10, <1>11 DEF Next

(* Every behaviour of the queue is a behaviour of the gate: a draft leaves *)
(* only for a proposal with as many votes as its policy asks for.          *)
THEOREM QueueImplementsGate == Spec => GateImplemented
<1>1. Init => Gate!GateInit
  BY DEF Init, AnyRow, Gate!GateInit, AutoApproved
<1>2. TypeOK /\ GateInv /\ (TypeOK /\ GateInv)' /\ [Next]_vars
        => [Gate!GateNext]_(Gate!gateVars)
  BY GateStepRefined
<1>3. QED
  BY <1>1, <1>2, GateInvariant, PTL DEF Spec, GateImplemented, Gate!GateSpec

-----------------------------------------------------------------------------
(* Drafts and what they are accounted for.                                 *)

(* What a commit of the sweep's session makes of a status. *)
LEMMA FlushedStatus ==
  ASSUME TypeOK, NEW i \in Items
  PROVE  /\ pend[i] = "sent" => Flushed(i).status = "sent"
         /\ pend[i] = "failed" =>
              Flushed(i).status \in {row[i].status, "dispatch_failed"}
         /\ pend[i] = "none" => Flushed(i).status = row[i].status
         /\ pend[i] \in {"sent", "failed", "none"}
BY DEF TypeOK, Flushed, Rows

(* What marking item j failed does to item i, with or without a commit. *)
Marked(i, j) ==
  \/ /\ row'[i].status = Flushed(i).status
     /\ pend'[i] = IF i = j THEN "failed" ELSE "none"
  \/ /\ row'[i].status = row[i].status
     /\ pend'[i] = IF i = j THEN "failed" ELSE pend[i]

LEMMA MarkedFailed ==
  ASSUME TypeOK, NEW i \in Items, NEW j, NEW b \in BOOLEAN, MarkFailed(j, b)
  PROVE  Marked(i, j)
BY DEF Marked, MarkFailed, CommitPend, NothingPending, TypeOK

(* One item through one step, whatever the step does to the others.        *)
LEMMA AccountedCarries ==
  ASSUME TypeOK, NEW i \in Items, Accounted(i),
         drafts'[i] = drafts[i], excess'[i] \in {excess[i], excess[i] + 1},
         i \in todo' => i \in todo,
         posting' = posting \/ (posting # i /\ posting' # i),
         \/ row'[i].status = row[i].status /\ pend'[i] = pend[i]
         \/ row'[i].status = Flushed(i).status /\ pend'[i] = "none"
  PROVE  Accounted(i)'
<1>1. Len(drafts[i]) \in Nat /\ excess[i] \in Nat
  BY DEF TypeOK
<1>2. CASE row'[i].status = row[i].status /\ pend'[i] = pend[i]
  BY <1>1, <1>2 DEF Accounted, Draftable
<1>3. CASE row'[i].status = Flushed(i).status /\ pend'[i] = "none"
  <2>1. row'[i].status = "sent" => row[i].status = "sent" \/ pend[i] = "sent"
    BY <1>3, FlushedStatus
  <2>2. /\ (row'[i].status = "sent" \/ pend'[i] = "sent" \/ posting' = i)
             => drafts'[i] # <<>>
        /\ pend'[i] # "none" => i \notin todo'
        /\ Len(drafts'[i]) <= 1 + excess'[i]
    BY <1>1, <1>3, <2>1 DEF Accounted
  <2>3. Draftable(i)' => Draftable(i)
    BY <1>3, FlushedStatus DEF Draftable
  <2>4. Draftable(i)' => Len(drafts'[i]) <= excess'[i]
    BY <1>1, <2>3 DEF Accounted
  <2>5. QED BY <2>2, <2>4 DEF Accounted
<1>4. QED BY <1>2, <1>3

LEMMA DraftInit == Init => DraftInv
BY ConstAssumption DEF Init, AnyRow, DraftInv, Accounted, Draftable

(* Every step keeps the account of every item: a draft is posted only for  *)
(* an item whose drafts are all accounted for, and an item becomes         *)
(* draftable again only together with a reason that is counted.            *)
LEMMA DraftStep ==
  TypeOK /\ TypeOK' /\ GateInv /\ DraftInv /\ [Next]_vars => DraftInv'
<1> SUFFICES ASSUME TypeOK, TypeOK', GateInv, DraftInv, [Next]_vars,
                    NEW i \in Items
             PROVE  Accounted(i)'
  BY DEF DraftInv
<1>a. Accounted(i)
  BY DEF DraftInv
<1>n. Len(drafts[i]) \in Nat /\ excess[i] \in Nat /\ posting \in todo \cup {None}
  BY DEF TypeOK
<1>s. ASSUME UNCHANGED <<sweepVars, drafts>>, row'[i].status = row[i].status,
             excess'[i] = excess[i]
      PROVE  Accounted(i)'
  BY <1>a, <1>n, <1>s DEF sweepVars, Accounted, Draftable
<1>1. CASE Propose
  <2>1. PICK j \in Items, c \in Categories, o \in Overrides \cup {None},
             confident \in BOOLEAN, p \in Payloads :
               Create(j, c, o, confident, p)
    BY <1>1 DEF Propose
  <2>2. /\ row[j].status = "absent" /\ UNCHANGED <<sweepVars, drafts, excess>>
        /\ row'[j].status \in {"approved", "pending"}
    BY <2>1 DEF Create, TypeOK
  <2>3. CASE i = j
    BY <1>a, <1>n, <2>2, <2>3 DEF sweepVars, Accounted, Draftable
  <2>4. CASE i # j
    BY <1>s, <2>1, <2>2, <2>4 DEF Create, TypeOK
  <2>5. QED BY <2>3, <2>4
<1>2. ASSUME NEW r \in Requests, CommitApprove(r) PROVE Accounted(i)'
  <2> DEFINE j == call[r].item
             sg == Append(call[r].sigs, call[r].user)
             enough == Len(sg) >= row[j].required
             st == IF enough THEN "approved" ELSE row[j].status
             counted == enough /\ row[j].status \in {"sent", "rejected"}
  <2>1. /\ j \in Items
        /\ row' = [row EXCEPT ![j] = [row[j] EXCEPT !.sigs = sg, !.status = st]]
        /\ excess' = IF counted THEN [excess EXCEPT ![j] = @ + 1] ELSE excess
        /\ UNCHANGED <<sweepVars, drafts>>
    BY <1>2 DEF CommitApprove, Ready, Calls, TypeOK
  <2> HIDE DEF j, sg, st
  <2>2. CASE i # j
    BY <1>s, <2>1, <2>2 DEF TypeOK
  <2>3. CASE i = j
    <3>1. row'[i].status = st
      <4>1. /\ row'[i] = [row[i] EXCEPT !.sigs = sg, !.status = st]
            /\ row[i] \in Rows
        BY <2>1, <2>3 DEF TypeOK
      <4>2. QED BY <4>1 DEF Rows
    <3>2. CASE counted
      <4>1. excess'[i] = excess[i] + 1
        BY <2>1, <2>3, <3>2 DEF TypeOK
      <4>2. row'[i].status = "approved"
        BY <3>1, <3>2 DEF st
      <4>3. QED BY <1>a, <1>n, <2>1, <4>1, <4>2 DEF sweepVars, Accounted, Draftable
    <3>3. CASE ~counted
      <4>1. /\ excess' = excess
            /\ \/ row'[i].status = row[i].status
               \/ /\ row'[i].status = "approved"
                  /\ row[i].status \notin {"sent", "rejected"}
        BY <2>1, <2>3, <3>1, <3>3 DEF st
      <4>2. QED BY <1>a, <1>n, <2>1, <4>1 DEF sweepVars, Accounted, Draftable
    <3>4. QED BY <3>2, <3>3
  <2>4. QED BY <2>2, <2>3
<1>3. ASSUME NEW r \in Requests, CommitReject(r) PROVE Accounted(i)'
  <2>1. /\ call[r].item \in Items /\ UNCHANGED <<sweepVars, drafts, excess>>
        /\ row' = [row EXCEPT ![call[r].item].status = "rejected"]
    BY <1>3 DEF CommitReject, Ready, Calls, TypeOK
  <2>2. row'[i].status \in {row[i].status, "rejected"}
    BY <2>1, RejectColumns
  <2>3. QED BY <1>a, <1>n, <2>1, <2>2 DEF sweepVars, Accounted, Draftable
<1>4. ASSUME NEW r \in Requests, CommitEdit(r) PROVE Accounted(i)'
  <2>1. /\ call[r].item \in Items /\ UNCHANGED <<sweepVars, drafts, excess>>
        /\ row' = [row EXCEPT ![call[r].item].payload = call[r].payload]
    BY <1>4 DEF CommitEdit, Ready, Calls, TypeOK
  <2>2. QED BY <2>1, <1>s, EditColumns
<1>5. CASE UNCHANGED vars
           \/ \E r \in Requests :
                \/ Abandon(r)
                \/ \E u \in Users, j \in Items :
                     \/ BeginApprove(r, u, j) \/ BeginReject(r, u, j)
                     \/ \E p \in Payloads : BeginEdit(r, u, j, p)
  BY <1>5, <1>s
  DEF vars, rowVars, sweepVars, Abandon, BeginApprove, BeginReject, BeginEdit,
      Begin
<1>6. CASE SweepStart
  <2>1. /\ batch = {} /\ UNCHANGED <<row, posting, pend, drafts, excess>>
        /\ i \in todo' => row[i].status \in Dispatchable
    BY <1>6 DEF SweepStart, rowVars
  <2>2. posting # i /\ pend[i] = "none"
    BY <2>1, ConstAssumption DEF TypeOK, GateInv, PendInBatch
  <2>3. QED
    BY <1>a, <1>n, <2>1, <2>2 DEF Accounted, Draftable, Dispatchable
<1>7. CASE DraftDone
  <2>1. /\ posting # None /\ posting' = None /\ todo' = todo \ {posting}
        /\ CommitPend /\ pend' = [NothingPending EXCEPT ![posting] = "sent"]
        /\ UNCHANGED <<drafts, excess>>
    BY <1>7 DEF DraftDone
  <2>2. row'[i].status = Flushed(i).status /\ i # None
    BY <2>1, ConstAssumption DEF CommitPend
  <2>3. CASE posting = i
    <3>1. pend'[i] = "sent" /\ i \notin todo' /\ posting' # i
      BY <2>1, <2>2, <2>3 DEF NothingPending
    <3>2. QED BY <1>a, <1>n, <2>1, <2>3, <3>1 DEF Accounted, Draftable
  <2>4. CASE posting # i
    <3>1. pend'[i] = "none" /\ posting' # i
      BY <2>1, <2>2, <2>4 DEF NothingPending
    <3>2. QED BY <1>a, <2>1, <2>2, <2>4, <3>1, AccountedCarries
  <2>5. QED BY <2>3, <2>4
<1>8. ASSUME NEW b \in BOOLEAN, DraftLost(b) PROVE Accounted(i)'
  <2>1. /\ posting # None /\ posting' = None /\ todo' = todo \ {posting}
        /\ excess' = [excess EXCEPT ![posting] = @ + 1] /\ drafts' = drafts
        /\ i # None /\ MarkFailed(posting, b)
    BY <1>8, ConstAssumption DEF DraftLost
  <2>2. Marked(i, posting)
    BY <2>1, MarkedFailed
  <2>3. CASE posting = i
    <3>1. /\ pend'[i] = "failed" /\ i \notin todo' /\ posting' # i
          /\ excess'[i] = excess[i] + 1
      BY <2>1, <2>2, <2>3 DEF Marked, TypeOK
    <3>2. QED BY <1>a, <1>n, <2>1, <2>3, <3>1 DEF Accounted, Draftable
  <2>4. CASE posting # i
    <3>1. /\ posting' # i /\ excess'[i] = excess[i]
          /\ \/ row'[i].status = row[i].status /\ pend'[i] = pend[i]
             \/ row'[i].status = Flushed(i).status /\ pend'[i] = "none"
      BY <2>1, <2>2, <2>4 DEF Marked, TypeOK
    <3>2. QED BY <1>a, <2>1, <2>4, <3>1, AccountedCarries
  <2>5. QED BY <2>3, <2>4
<1>9. CASE SweepEnd
  <2>1. /\ CommitPend /\ pend'[i] = "none" /\ todo' = todo
        /\ posting # i /\ posting' # i
        /\ drafts'[i] = drafts[i] /\ excess'[i] = excess[i]
    BY <1>9, ConstAssumption DEF SweepEnd, NothingPending
  <2>2. row'[i].status = Flushed(i).status
    BY <2>1 DEF CommitPend
  <2>3. QED BY <1>a, <2>1, <2>2, AccountedCarries
<1>10. CASE SweepCrash
  <2>1. /\ row' = row /\ drafts' = drafts /\ posting' = None /\ todo' = {}
        /\ pend'[i] = "none" /\ i # None
        /\ excess'[i] = IF i = posting \/ pend[i] = "sent"
                        THEN excess[i] + 1 ELSE excess[i]
    BY <1>10, ConstAssumption DEF SweepCrash, rowVars, NothingPending
  <2>2. QED BY <1>a, <1>n, <2>1 DEF Accounted, Draftable
<1>11. ASSUME NEW j \in Items, NEW b \in BOOLEAN, PostDraft(j, b)
       PROVE  Accounted(i)'
  <2>1. /\ posting = None /\ j \in todo /\ posting' = j /\ todo' = todo
        /\ drafts' = [drafts EXCEPT ![j] = Append(@, loaded[j].payload)]
        /\ excess' = excess /\ i # None
        /\ \/ row' = row /\ pend' = pend
           \/ row'[i] = Flushed(i) /\ pend'[i] = "none"
    BY <1>11, ConstAssumption DEF PostDraft, CommitPend, NothingPending
  <2>2. CASE i = j
    <3>1. /\ loaded[i].payload \in Payloads /\ drafts[i] \in Seq(Payloads)
          /\ drafts'[i] = Append(drafts[i], loaded[i].payload)
      BY <2>1, <2>2 DEF TypeOK, Rows
    <3>2. drafts'[i] # <<>> /\ Len(drafts'[i]) = Len(drafts[i]) + 1
      BY <3>1
    <3>3. Len(drafts[i]) <= excess[i] /\ pend[i] = "none"
      BY <1>a, <2>1, <2>2 DEF Accounted, Draftable
    <3>4. pend'[i] = "none" /\ row'[i].status = row[i].status
      BY <2>1, <3>3, FlushedStatus
    <3>5. Draftable(i)' => FALSE
      BY <2>1, <2>2, <3>4 DEF Draftable
    <3>6. QED BY <1>n, <2>1, <3>2, <3>3, <3>4, <3>5 DEF Accounted
  <2>3. CASE i # j
    <3>1. drafts'[i] = drafts[i]
      BY <2>1, <2>3 DEF TypeOK
    <3>2. QED BY <1>a, <2>1, <2>3, <3>1, AccountedCarries
  <2>4. QED BY <2>2, <2>3
<1>12. ASSUME NEW j \in Items, NEW b \in BOOLEAN, DispatchFail(j, b)
       PROVE  Accounted(i)'
  <2>1. /\ posting = None /\ j \in todo /\ posting' = None
        /\ todo' = todo \ {j} /\ UNCHANGED <<drafts, excess>> /\ i # None
    BY <1>12, ConstAssumption DEF DispatchFail
  <2>2. Marked(i, j)
    BY <1>12, MarkedFailed DEF DispatchFail
  <2>3. CASE i = j
    <3>1. Len(drafts[i]) <= excess[i] /\ pend[i] = "none"
      BY <1>a, <2>1, <2>3 DEF Accounted, Draftable
    <3>2. pend'[i] = "failed" /\ row'[i].status = row[i].status
      BY <2>2, <2>3, <3>1, FlushedStatus DEF Marked
    <3>3. QED BY <1>a, <1>n, <2>1, <2>3, <3>1, <3>2 DEF Accounted
  <2>4. CASE i # j
    <3>1. \/ row'[i].status = row[i].status /\ pend'[i] = pend[i]
          \/ row'[i].status = Flushed(i).status /\ pend'[i] = "none"
      BY <2>2, <2>4 DEF Marked
    <3>2. QED BY <1>a, <2>1, <2>4, <3>1, AccountedCarries
  <2>5. QED BY <2>3, <2>4
<1>13. QED
  BY <1>1, <1>2, <1>3, <1>4, <1>5, <1>6, <1>7, <1>8, <1>9, <1>10, <1>11, <1>12
  DEF Next, Request, SweepStep, SweepFault

(* Every draft of every item is accounted for in every reachable state. *)
LEMMA DraftInvariant == Spec => []DraftInv
<1>1. Init => DraftInv
  BY DraftInit
<1>2. TypeOK /\ GateInv /\ (TypeOK /\ GateInv)' /\ DraftInv /\ [Next]_vars
        => DraftInv'
  BY DraftStep
<1>3. QED BY <1>1, <1>2, GateInvariant, PTL DEF Spec

(* A row says sent only when Outlook has a draft of it, whatever requests, *)
(* failures and crashes come between the POST and the commit.              *)
THEOREM SentHasDraftHolds == Spec => []SentHasDraft
<1>1. DraftInv => SentHasDraft
  BY DEF DraftInv, Accounted, SentHasDraft
<1>2. QED BY <1>1, DraftInvariant, PTL

(* Each draft of an item beyond the first has a reason of its own: a lost  *)
(* answer, a crash before the commit, or an approval that overwrote the    *)
(* outcome.                                                                *)
THEOREM ExtraDraftsHold == Spec => []ExtraDraftsExplained
<1>1. DraftInv => ExtraDraftsExplained
  BY DEF DraftInv, Accounted, ExtraDraftsExplained
<1>2. QED BY <1>1, DraftInvariant, PTL

-----------------------------------------------------------------------------
(* A settled rejection.                                                    *)

LEMMA SettledStep ==
  ASSUME TypeOK, GateInv, [Next]_vars, NEW i \in Items,
         row[i].status = "rejected", Settled(i)
  PROVE  row'[i] = row[i] /\ drafts'[i] = drafts[i] /\ Settled(i)'
<1> DEFINE Goal == row'[i] = row[i] /\ drafts'[i] = drafts[i] /\ Settled(i)'
<1>b. i \notin batch /\ \A r \in Requests : call[r] # None => call[r].item # i
  BY DEF Settled
<1>p. i \notin todo /\ posting # i /\ pend[i] = "none"
  BY <1>b, ConstAssumption DEF TypeOK, GateInv, PendInBatch
<1>f. CommitPend => row'[i] = row[i]
  BY <1>p DEF CommitPend, Flushed
<1>s. ASSUME row'[i] = row[i], drafts'[i] = drafts[i],
             call' = call, batch' \in {batch, {}}
      PROVE  Goal
  BY <1>s, <1>b DEF Settled
<1>c. ASSUME NEW r \in Requests, call' = [call EXCEPT ![r] = None],
             row'[i] = row[i], drafts' = drafts, batch' = batch
      PROVE  Goal
  <2>1. \A q \in Requests : call'[q] # None => call'[q] = call[q]
    BY <1>c DEF TypeOK
  <2>2. QED BY <1>b, <1>c, <2>1 DEF Settled
<1>1. CASE Propose
  <2>1. PICK j \in Items, c \in Categories, o \in Overrides \cup {None},
             confident \in BOOLEAN, p \in Payloads :
               Create(j, c, o, confident, p)
    BY <1>1 DEF Propose
  <2>2. j # i
    BY <2>1 DEF Create
  <2>3. QED BY <1>s, <2>1, <2>2 DEF Create, TypeOK, sweepVars
<1>2. ASSUME NEW r \in Requests,
             CommitApprove(r) \/ CommitReject(r) \/ CommitEdit(r)
      PROVE  Goal
  <2>1. call[r].item # i
    BY <1>2, <1>b DEF CommitApprove, CommitReject, CommitEdit, Ready
  <2>2. row'[i] = row[i]
    BY <1>2, <2>1 DEF CommitApprove, CommitReject, CommitEdit, TypeOK
  <2>3. QED
    BY <1>2, <1>c, <2>2
    DEF CommitApprove, CommitReject, CommitEdit, sweepVars
<1>3. ASSUME NEW r \in Requests, Abandon(r) PROVE Goal
  BY <1>3, <1>c DEF Abandon, rowVars, sweepVars
<1>4. ASSUME NEW r \in Requests, NEW c, Begin(r, c) PROVE Goal
  <2>1. /\ c.item # i /\ call' = [call EXCEPT ![r] = c]
        /\ UNCHANGED <<row, drafts, batch>>
    BY <1>4 DEF Begin, rowVars, sweepVars
  <2>2. \A q \in Requests : call'[q] = call[q] \/ call'[q] = c
    BY <2>1 DEF TypeOK
  <2>3. QED BY <1>b, <2>1, <2>2 DEF Settled
<1>5. ASSUME NEW r \in Requests, NEW u \in Users, NEW j \in Items,
             \/ BeginApprove(r, u, j) \/ BeginReject(r, u, j)
             \/ \E p \in Payloads : BeginEdit(r, u, j, p)
      PROVE  Goal
  BY <1>4, <1>5 DEF BeginApprove, BeginReject, BeginEdit
<1>6. CASE SweepStart
  <2>1. /\ batch' = {j \in Items : /\ row[j].status \in Dispatchable
                                   /\ row[j].category = EmailDraft}
        /\ UNCHANGED <<row, drafts, call>>
    BY <1>6 DEF SweepStart, rowVars
  <2>2. i \notin batch'
    BY <2>1 DEF Dispatchable
  <2>3. QED BY <1>b, <2>1, <2>2 DEF Settled
<1>7. CASE \/ DraftDone \/ SweepEnd \/ SweepCrash
           \/ \E b \in BOOLEAN : DraftLost(b)
  <2>1. /\ drafts' = drafts /\ call' = call /\ batch' \in {batch, {}}
        /\ CommitPend \/ row' = row
    BY <1>7 DEF DraftDone, DraftLost, MarkFailed, SweepEnd, SweepCrash, rowVars
  <2>2. QED BY <1>f, <1>s, <2>1
<1>8. ASSUME NEW j \in Items, NEW b \in BOOLEAN,
             PostDraft(j, b) \/ DispatchFail(j, b)
      PROVE  Goal
  <2>1. /\ j # i /\ (CommitPend \/ row' = row)
        /\ call' = call /\ batch' = batch
    BY <1>8, <1>p DEF PostDraft, DispatchFail, MarkFailed
  <2>2. drafts'[i] = drafts[i]
    BY <1>8, <2>1 DEF PostDraft, DispatchFail, TypeOK
  <2>3. QED BY <1>f, <1>s, <2>1, <2>2
<1>9. CASE UNCHANGED vars
  BY <1>9, <1>s DEF vars
<1>10. QED
  BY <1>1, <1>2, <1>3, <1>5, <1>6, <1>7, <1>8, <1>9
  DEF Next, Request, SweepStep, SweepFault

(* Once nobody works from an older read, a rejected item stays as it is: no *)
(* step rewrites its row, drafts it, or takes it up again.                  *)
THEOREM RejectionFinal == Spec => SettledRejectionIsFinal
<1> DEFINE Final == \A i \in Items :
             row[i].status = "rejected" /\ Settled(i)
               => row'[i] = row[i] /\ drafts'[i] = drafts[i] /\ Settled(i)'
<1>1. TypeOK /\ GateInv /\ [Next]_vars => [Final]_vars
  BY SettledStep
<1>2. QED BY <1>1, GateInvariant, PTL DEF Spec, SettledRejectionIsFinal
=============================================================================
