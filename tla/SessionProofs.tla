---------------------------- MODULE SessionProofs ----------------------------
(***************************************************************************)
(* Proofs about what database sessions leave behind: the audit log and the *)
(* subscription rows.                                                      *)
(*                                                                         *)
(* The audit log, for every number of firms and sessions, any assignment   *)
(* of lock keys, collisions included, and any hash.  A chain in the        *)
(* committed rows is not inductive: what a session commits has to continue *)
(* the chain as it is at that moment, not as it was when the session read  *)
(* it.  The invariant adds that each session's entries continue the        *)
(* committed chain (PendingChain) and are newer than all of it             *)
(* (PendingNewer), which holds because entries are pending only under the  *)
(* firm's lock (OneWriter) and ids only grow (IdsDrawn).                   *)
(*                                                                         *)
(* The subscriptions, for any boxes, users and lifetimes, and any number   *)
(* of faults.  Counting the strays is not inductive: a commit could lose   *)
(* the record of a live subscription.  It does not, since one row at a     *)
(* time waits for its commit and never one the sweep has yet to read       *)
(* (PendShape), and the row of the box at hand names the subscription at   *)
(* hand or is gone because Graph no longer has it (WorkSound).  Without    *)
(* faults, Graph holds a subscription at least as long as its row says     *)
(* (Steady).                                                               *)
(***************************************************************************)
EXTENDS AuditLog, Subscriptions, FiniteSetTheorems, WellFoundedInduction,
        TLAPS

-----------------------------------------------------------------------------
(* The audit log: its inductive invariant.                                 *)

IdsDrawn ==
  /\ \A e \in rows : e.id < nextId
  /\ \A s \in Sessions : \A e \in own[s] : e.id < nextId

PendingNewer ==
  \A s \in Sessions : \A e \in own[s], d \in rows :
    d.firm = e.firm => d.id < e.id

PendingChain ==
  \A s \in Sessions : ChainOf(Of(rows \cup own[s], firm[s]))

LogInv ==
  TypeOK /\ OneWriter /\ IdsDrawn /\ PendingNewer /\ PendingChain /\ ChainIntact

-----------------------------------------------------------------------------
(* An entry that is newer than a chain and linked to its end extends it.   *)
LEMMA ChainGrows ==
  ASSUME NEW S, \A d \in S : d.id \in Nat,
         NEW e, e.id \in Nat, \A d \in S : d.id < e.id,
         ChainOf(S), NEW h, Newest(h, S),
         e.prev = h, e.hash = Hash(e.content, e.prev)
  PROVE  ChainOf(S \cup {e})
<1>1. {d \in S \cup {e} : d.id < e.id} = S
  OBVIOUS
<1>2. Linked(e, S \cup {e})
  BY <1>1 DEF Linked
<1>3. ASSUME NEW x \in S PROVE Linked(x, S \cup {e})
  <2>1. {d \in S \cup {e} : d.id < x.id} = {d \in S : d.id < x.id}
    OBVIOUS
  <2>2. Linked(x, S) BY DEF ChainOf
  <2>3. QED BY <2>1, <2>2 DEF Linked
<1>4. QED BY <1>2, <1>3 DEF ChainOf

(* Two sessions with uncommitted entries write for different firms. *)
LEMMA WritersApart ==
  ASSUME TypeOK, OneWriter, NEW s \in Sessions, NEW t \in Sessions, s # t,
         holder[KeyOf[firm[s]]] = s, own[t] # {}
  PROVE  firm[t] # firm[s]
BY DEF OneWriter

LEMMA InitHolds == ASSUME Init PROVE LogInv
<1>1. TypeOK /\ OneWriter /\ IdsDrawn /\ PendingNewer
  BY AuditAssumption DEF Init, TypeOK, OneWriter, IdsDrawn, PendingNewer
<1>2. \A f : ChainOf(Of({}, f))
  BY DEF ChainOf, Of
<1>3. ASSUME NEW s \in Sessions PROVE rows \cup own[s] = {}
  BY DEF Init
<1>4. PendingChain BY <1>2, <1>3 DEF PendingChain
<1>5. ChainIntact BY <1>2 DEF ChainIntact, Init
<1>6. QED BY <1>1, <1>4, <1>5 DEF LogInv

-----------------------------------------------------------------------------
(* What a step that only moves locks and firms has to keep. *)
LEMMA AskKeeps ==
  ASSUME LogInv, NEW s \in Sessions, NEW f \in Firms, Ask(s, f)
  PROVE  LogInv'
<1> USE DEF LogInv
<1>1. own[s] = {} BY DEF Ask, TypeOK
<1>2. \A t \in Sessions : t # s => firm'[t] = firm[t]
  BY DEF Ask, TypeOK
<1>3. TypeOK' BY <1>1, AuditAssumption DEF Ask, TypeOK, Entry
<1>4. OneWriter' BY <1>1, <1>2 DEF Ask, OneWriter
<1>5. IdsDrawn' /\ PendingNewer' /\ ChainIntact'
  BY DEF Ask, IdsDrawn, PendingNewer, ChainIntact, Of
<1>6. ASSUME NEW t \in Sessions
      PROVE  ChainOf(Of(rows \cup own[t], firm'[t]))
  <2>1. CASE t = s
    <3>1. firm'[t] = f /\ rows \cup own[t] = rows
      BY <1>1, <2>1 DEF Ask, TypeOK
    <3>2. QED BY <3>1 DEF ChainIntact
  <2>2. CASE t # s
    BY <1>2, <2>2 DEF PendingChain
  <2>3. QED BY <2>1, <2>2
<1>7. PendingChain' BY <1>6 DEF PendingChain, Ask, Of, ChainOf, Linked, Newest
<1>8. QED BY <1>3, <1>4, <1>5, <1>7

LEMMA AcquireKeeps ==
  ASSUME LogInv, NEW s \in Sessions, Acquire(s)
  PROVE  LogInv'
<1> USE DEF LogInv
<1>1. firm[s] \in Firms BY DEF Acquire, TypeOK
<1>2. KeyOf[firm[s]] \in Keys BY <1>1, AuditAssumption
<1>3. TypeOK' BY <1>2 DEF Acquire, TypeOK, Entry
<1>4. ASSUME NEW t \in Sessions, own[t] # {}
      PROVE  holder'[KeyOf[firm[t]]] = t
  <2>1. holder[KeyOf[firm[t]]] = t BY <1>4 DEF OneWriter
  <2>2. KeyOf[firm[t]] \in Keys
    BY <1>4, AuditAssumption DEF TypeOK
  <2>3. KeyOf[firm[t]] # KeyOf[firm[s]]
    BY <2>1, AuditAssumption DEF Acquire
  <2>4. QED BY <2>1, <2>2, <2>3 DEF Acquire, TypeOK
<1>5. OneWriter' BY <1>4 DEF OneWriter, Acquire
<1>6. IdsDrawn' /\ PendingNewer' /\ ChainIntact' /\ PendingChain'
  BY DEF Acquire, IdsDrawn, PendingNewer, ChainIntact, PendingChain, Of
<1>7. QED BY <1>3, <1>5, <1>6

LEMMA AppendKeeps ==
  ASSUME LogInv, NEW s \in Sessions, NEW c \in Contents, NEW h,
         AppendAudit(s, c, h)
  PROVE  LogInv'
<1> USE DEF LogInv
<1> DEFINE new == [id |-> nextId, firm |-> firm[s], content |-> c, prev |-> h,
                   hash |-> Hash(c, h)]
<1>1. firm[s] \in Firms BY DEF AppendAudit, TypeOK
<1>2. /\ new.id = nextId /\ new.firm = firm[s] /\ new.content = c
      /\ new.prev = h /\ new.hash = Hash(c, h)
  OBVIOUS
<1>3. /\ own'[s] = own[s] \cup {new}
      /\ \A t \in Sessions : t # s => own'[t] = own[t]
      /\ own' = [t \in Sessions |-> own'[t]]
  BY DEF AppendAudit, TypeOK
<1>4. nextId \in Nat /\ nextId' = nextId + 1 /\ UNCHANGED <<rows, firm, holder>>
  BY DEF AppendAudit, TypeOK
<1> HIDE DEF new
<1>5. TypeOK'
  <2>1. Entry(new) BY <1>1, <1>2, <1>4 DEF Entry
  <2>2. \A t \in Sessions : \A e \in own'[t] : Entry(e)
    BY <2>1, <1>3 DEF TypeOK
  <2>3. QED BY <1>1, <1>3, <1>4, <2>2, AuditAssumption DEF TypeOK, Entry
<1>6. OneWriter'
  <2>1. holder[KeyOf[firm[s]]] = s BY DEF AppendAudit
  <2>2. QED BY <2>1, <1>2, <1>3, <1>4 DEF OneWriter
<1>7. IdsDrawn'
  <2>1. \A e \in rows : e.id \in Nat BY DEF TypeOK, Entry
  <2>2. \A t \in Sessions : \A e \in own[t] : e.id \in Nat
    BY DEF TypeOK, Entry
  <2>3. QED BY <2>1, <2>2, <1>2, <1>3, <1>4 DEF IdsDrawn
<1>8. PendingNewer'
  BY <1>2, <1>3, <1>4 DEF PendingNewer, IdsDrawn
<1>9. PendingChain'
  <2>1. ASSUME NEW t \in Sessions
        PROVE  ChainOf(Of(rows \cup own'[t], firm[t]))
    <3>1. CASE t # s
      BY <3>1, <1>3 DEF PendingChain
    <3>2. CASE t = s
      <4> DEFINE S == Of(rows \cup own[s], firm[s])
      <4>1. Of(rows \cup own'[s], firm[s]) = S \cup {new}
        BY <1>2, <1>3 DEF Of
      <4>2. ChainOf(S) BY DEF PendingChain
      <4>3. \A d \in S : d.id \in Nat /\ d.id < nextId
        BY DEF Of, TypeOK, Entry, IdsDrawn
      <4>4. Newest(h, S) BY DEF AppendAudit
      <4> HIDE DEF S
      <4>5. ChainOf(S \cup {new})
        BY <4>2, <4>3, <4>4, <1>2, <1>4, ChainGrows
      <4>6. QED BY <4>1, <4>5, <3>2
    <3>3. QED BY <3>1, <3>2
  <2>2. QED BY <2>1, <1>4 DEF PendingChain, ChainOf, Linked, Newest, Of
<1>10. ChainIntact'
  BY <1>4 DEF ChainIntact, ChainOf, Linked, Newest, Of
<1>11. QED BY <1>5, <1>6, <1>7, <1>8, <1>9, <1>10

(* The end of a transaction leaves the locks of the other sessions alone. *)
LEMMA ReleasedLocks ==
  ASSUME TypeOK, OneWriter, NEW s \in Sessions, holder' = Released(s),
         NEW t \in Sessions, t # s, own[t] # {}
  PROVE  holder'[KeyOf[firm[t]]] = t
<1>1. KeyOf[firm[t]] \in Keys
  BY AuditAssumption DEF TypeOK
<1>2. holder[KeyOf[firm[t]]] = t BY DEF OneWriter
<1>3. QED BY <1>1, <1>2 DEF Released

LEMMA RollbackKeeps ==
  ASSUME LogInv, NEW s \in Sessions, Rollback(s)
  PROVE  LogInv'
<1> USE DEF LogInv
<1>1. /\ own'[s] = {} /\ firm'[s] = None
      /\ own' = [t \in Sessions |-> own'[t]]
      /\ \A t \in Sessions : t # s => own'[t] = own[t] /\ firm'[t] = firm[t]
      /\ firm' \in [Sessions -> Firms \cup {None}]
  BY DEF Rollback, TypeOK
<1>2. rows' = rows /\ nextId' = nextId BY DEF Rollback
<1>3. holder' \in [Keys -> Sessions \cup {None}]
  BY DEF Rollback, TypeOK, Released
<1>4. TypeOK' BY <1>1, <1>2, <1>3 DEF TypeOK, Entry
<1>5. OneWriter'
  BY <1>1, ReleasedLocks DEF OneWriter, Rollback
<1>6. IdsDrawn' /\ PendingNewer'
  BY <1>1, <1>2 DEF IdsDrawn, PendingNewer
<1>7. ChainIntact'
  BY <1>2 DEF ChainIntact, ChainOf, Linked, Newest, Of
<1>8. ASSUME NEW t \in Sessions
      PROVE  ChainOf(Of(rows \cup own'[t], firm'[t]))
  <2>1. CASE t = s
    <3>1. Of(rows \cup own'[t], firm'[t]) = {}
      BY <1>1, <2>1, AuditAssumption DEF Of, TypeOK, Entry
    <3>2. QED BY <3>1 DEF ChainOf
  <2>2. CASE t # s BY <2>2, <1>1 DEF PendingChain
  <2>3. QED BY <2>1, <2>2
<1>9. PendingChain'
  BY <1>8, <1>2 DEF PendingChain, ChainOf, Linked, Newest, Of
<1>10. QED BY <1>4, <1>5, <1>6, <1>7, <1>9

LEMMA CommitKeeps ==
  ASSUME LogInv, NEW s \in Sessions, Commit(s)
  PROVE  LogInv'
<1> USE DEF LogInv
<1>1. /\ own'[s] = {} /\ firm'[s] = None
      /\ own' = [t \in Sessions |-> own'[t]]
      /\ \A t \in Sessions : t # s => own'[t] = own[t] /\ firm'[t] = firm[t]
      /\ firm' \in [Sessions -> Firms \cup {None}]
  BY DEF Commit, TypeOK
<1>2. rows' = rows \cup own[s] /\ nextId' = nextId BY DEF Commit
<1>3. holder' \in [Keys -> Sessions \cup {None}]
  BY DEF Commit, TypeOK, Released
<1>4. firm[s] \in Firms /\ holder[KeyOf[firm[s]]] = s
  BY DEF Commit, TypeOK
<1>5. \A e \in own[s] : e.firm = firm[s] BY DEF OneWriter
<1>6. \A t \in Sessions : t # s /\ own[t] # {} =>
        /\ firm[t] # firm[s]
        /\ \A e \in own[t] : e.firm = firm[t]
  BY <1>4, WritersApart DEF OneWriter
<1>7. TypeOK' BY <1>1, <1>2, <1>3 DEF TypeOK, Entry
<1>8. OneWriter'
  BY <1>1, ReleasedLocks DEF OneWriter, Commit
<1>9. IdsDrawn' BY <1>1, <1>2 DEF IdsDrawn
<1>10. PendingNewer'
  BY <1>1, <1>2, <1>5, <1>6 DEF PendingNewer
<1>11. ASSUME NEW f \in Firms PROVE ChainOf(Of(rows', f))
  <2>1. CASE f = firm[s]
    BY <2>1, <1>2 DEF PendingChain
  <2>2. CASE f # firm[s]
    <3>1. Of(rows', f) = Of(rows, f) BY <2>2, <1>2, <1>5 DEF Of
    <3>2. QED BY <3>1 DEF ChainIntact
  <2>3. QED BY <2>1, <2>2
<1>12. ChainIntact'
  BY <1>11 DEF ChainIntact, ChainOf, Linked, Newest, Of
<1>13. ASSUME NEW t \in Sessions
       PROVE  ChainOf(Of(rows' \cup own'[t], firm'[t]))
  <2>1. CASE own'[t] = {}
    <3>1. rows' \cup own'[t] = rows' BY <2>1
    <3>2. CASE firm'[t] \in Firms BY <3>1, <3>2, <1>11
    <3>3. CASE firm'[t] = None
      <4>1. Of(rows', None) = {}
        BY <1>7, AuditAssumption DEF Of, TypeOK, Entry
      <4>2. QED BY <3>1, <3>3, <4>1 DEF ChainOf
    <3>4. QED BY <3>2, <3>3, <1>1
  <2>2. CASE own'[t] # {}
    <3>1. t # s /\ own'[t] = own[t] /\ firm'[t] = firm[t] /\ firm[t] # firm[s]
      BY <2>2, <1>1, <1>6
    <3>2. Of(rows' \cup own'[t], firm'[t]) = Of(rows \cup own[t], firm[t])
      BY <3>1, <1>2, <1>5 DEF Of
    <3>3. QED BY <3>2 DEF PendingChain
  <2>3. QED BY <2>1, <2>2
<1>14. PendingChain'
  BY <1>13 DEF PendingChain, ChainOf, Linked, Newest, Of
<1>15. QED BY <1>7, <1>8, <1>9, <1>10, <1>12, <1>14

LEMMA StepKeeps ==
  ASSUME LogInv, [Next]_vars
  PROVE  LogInv'
<1>1. CASE Next
  BY <1>1, AskKeeps, AcquireKeeps, AppendKeeps, CommitKeeps, RollbackKeeps
  DEF Next, Write
<1>2. CASE UNCHANGED vars
  BY <1>2 DEF vars, LogInv, TypeOK, OneWriter, IdsDrawn, PendingNewer,
     PendingChain, ChainIntact
<1>3. QED BY <1>1, <1>2

-----------------------------------------------------------------------------
(* The inductive invariant of the audit log. *)
THEOREM LogInvariant == Spec => []LogInv
<1>1. Init => LogInv BY InitHolds
<1>2. LogInv /\ [Next]_vars => LogInv' BY StepKeeps
<1>3. QED BY <1>1, <1>2, PTL DEF Spec

(* The variables keep their types. *)
THEOREM LogTypeCorrect == Spec => []TypeOK
<1>1. LogInv => TypeOK BY DEF LogInv
<1>2. QED BY <1>1, LogInvariant, PTL

(* Entries are pending only under the firm's lock. *)
THEOREM OneWriterHolds == Spec => []OneWriter
<1>1. LogInv => OneWriter BY DEF LogInv
<1>2. QED BY <1>1, LogInvariant, PTL

(* The committed entries of every firm form one chain, whatever the        *)
(* sessions do and whichever firms share a lock key.                       *)
THEOREM ChainIntactHolds == Spec => []ChainIntact
<1>1. LogInv => ChainIntact BY DEF LogInv
<1>2. QED BY <1>1, LogInvariant, PTL

(* No later commit slips an entry in before one already committed. *)
THEOREM HistoryClosedHolds == Spec => HistoryClosed
<1>1. ASSUME LogInv, [Next]_vars, NEW e \in rows' \ rows, NEW d \in rows,
             d.firm = e.firm
      PROVE  d.id < e.id
  <2>1. PICK s \in Sessions : rows' = rows \cup own[s]
    BY <1>1 DEF Next, vars, Ask, Acquire, Write, AppendAudit, Commit, Rollback
  <2>2. QED BY <2>1, <1>1 DEF LogInv, PendingNewer
<1>2. LogInv /\ [Next]_vars =>
        [\A e \in rows' \ rows, d \in rows : d.firm = e.firm => d.id < e.id]_vars
  BY <1>1
<1>3. QED BY <1>2, LogInvariant, PTL DEF Spec, HistoryClosed

-----------------------------------------------------------------------------
(* What verify_chain sees.                                                 *)

FiniteLog == IsFiniteSet(rows) /\ \A s \in Sessions : IsFiniteSet(own[s])

LEMMA FiniteStep ==
  ASSUME TypeOK, FiniteLog, [Next]_vars
  PROVE  FiniteLog'
<1>1. CASE \E s \in Sessions, c \in Contents :
             \E h \in {GENESIS} \cup {d.hash : d \in Of(rows \cup own[s], firm[s])} :
               AppendAudit(s, c, h)
  <2>0. PICK s \in Sessions : \E c, h : AppendAudit(s, c, h)
    BY <1>1
  <2>1. PICK c, h : AppendAudit(s, c, h)
    BY <2>0
  <2> DEFINE e == [id |-> nextId, firm |-> firm[s], content |-> c, prev |-> h,
                   hash |-> Hash(c, h)]
  <2>2. rows' = rows /\ own' = [own EXCEPT ![s] = own[s] \cup {e}]
    BY <2>1 DEF AppendAudit
  <2> HIDE DEF e
  <2>3. IsFiniteSet(own[s] \cup {e})
    BY FS_AddElement DEF FiniteLog
  <2>4. \A t \in Sessions : own'[t] = own[t] \/ own'[t] = own[s] \cup {e}
    BY <2>2 DEF TypeOK
  <2>5. QED BY <2>2, <2>3, <2>4 DEF FiniteLog
<1>2. CASE \E s \in Sessions : Commit(s) \/ Rollback(s)
  <2>1. PICK s \in Sessions : Commit(s) \/ Rollback(s)
    BY <1>2
  <2>2. rows' \in {rows, rows \cup own[s]} /\ own' = [own EXCEPT ![s] = {}]
    BY <2>1 DEF Commit, Rollback
  <2>3. IsFiniteSet(rows \cup own[s]) /\ IsFiniteSet({})
    BY FS_Union, FS_EmptySet DEF FiniteLog
  <2>4. \A t \in Sessions : own'[t] = own[t] \/ own'[t] = {}
    BY <2>2 DEF TypeOK
  <2>5. QED BY <2>2, <2>3, <2>4 DEF FiniteLog
<1>3. CASE UNCHANGED <<rows, own>>
  BY <1>3 DEF FiniteLog
<1>4. QED BY <1>1, <1>2, <1>3 DEF Next, Write, Ask, Acquire, vars

LEMMA FiniteInvariant == Spec => []FiniteLog
<1>1. Init => FiniteLog
  BY FS_EmptySet DEF Init, FiniteLog
<1>2. LogInv /\ FiniteLog /\ [Next]_vars => FiniteLog'
  BY FiniteStep DEF LogInv
<1>3. QED BY <1>1, <1>2, LogInvariant, PTL DEF Spec

(* A stream of a chain finds every entry linked to the one before it.      *)
LEMMA WalkLinked ==
  ASSUME NEW S, IsFiniteSet(S), \A e \in S : e.id \in Nat, ChainOf(S),
         NEW walk \in Walks(S), NEW i \in DOMAIN walk
  PROVE  /\ walk[i].prev = IF i = 1 THEN GENESIS ELSE walk[i - 1].hash
         /\ walk[i].hash = Hash(walk[i].content, walk[i].prev)
<1>1. /\ Cardinality(S) \in Nat /\ walk \in [1..Cardinality(S) -> S]
      /\ \A j, k \in 1..Cardinality(S) : j < k => walk[j].id < walk[k].id
      /\ \A e \in S : \E j \in 1..Cardinality(S) : walk[j] = e
  BY FS_CardinalityType DEF Walks, Range
<1> DEFINE n == Cardinality(S)
           older == {d \in S : d.id < walk[i].id}
<1>2. i \in 1..n /\ walk[i] \in S /\ n \in Nat
  BY <1>1
<1>3. walk[i].hash = Hash(walk[i].content, walk[i].prev) /\ Newest(walk[i].prev, older)
  BY <1>2 DEF ChainOf, Linked
<1> HIDE DEF n
<1>4. ASSUME NEW d \in older PROVE \E j \in 1..n : j < i /\ walk[j] = d
  <2>1. PICK j \in 1..n : walk[j] = d
    BY <1>1 DEF n
  <2>2. ~(i < j) /\ i # j
    BY <1>1, <1>2, <2>1 DEF n
  <2>3. QED BY <1>2, <2>1, <2>2
<1>5. CASE i = 1
  <2>1. older = {}
    BY <1>2, <1>4, <1>5
  <2>2. QED BY <1>3, <1>5, <2>1 DEF Newest
<1>6. CASE i # 1
  <2> DEFINE p == walk[i - 1]
  <2>1. i - 1 \in 1..n /\ i - 1 < i
    BY <1>2, <1>6
  <2>2. p \in older
    BY <1>1, <1>2, <2>1 DEF n
  <2>3. PICK d \in older : walk[i].prev = d.hash /\ \A c \in older : c.id <= d.id
    BY <1>3, <2>2 DEF Newest
  <2>4. PICK j \in 1..n : j < i /\ walk[j] = d
    BY <1>4, <2>3
  <2>5. ~(d.id < p.id)
    BY <2>2, <2>3
  <2>6. j = i - 1
    <3>1. j < i - 1 => d.id < p.id
      BY <1>1, <2>1, <2>4 DEF n
    <3>2. QED BY <1>2, <2>4, <2>5, <3>1
  <2>7. QED BY <1>3, <1>6, <2>3, <2>4, <2>6
<1>7. QED BY <1>5, <1>6

(* A set of numbers has a least element: what proofs by induction use here *)
(* (a least counterexample).                                               *)
LEMMA LeastNatural ==
  ASSUME NEW T \in SUBSET Nat, T # {}
  PROVE  \E n \in T : \A m \in T : n <= m
<1> DEFINE R == OpToRel(<, Nat)
<1>1. IsWellFoundedOn(R, Nat)
  BY NatLessThanWellFounded
<1>2. \A m, n \in Nat : m < n => <<m, n>> \in R
  BY DEF OpToRel
<1> HIDE DEF R
<1>3. PICK n \in T : \A m \in T : ~(<<m, n>> \in R)
  BY <1>1, WFMin
<1>4. \A m \in T : m \in Nat /\ n \in Nat /\ ~(m < n)
  <2> SUFFICES ASSUME NEW m \in T PROVE m \in Nat /\ n \in Nat /\ ~(m < n)
    OBVIOUS
  <2>1. m \in Nat /\ n \in Nat
    OBVIOUS
  <2>2. ~(<<m, n>> \in R)
    BY <1>3
  <2>3. m < n => <<m, n>> \in R
    BY <1>2, <2>1
  <2>4. QED BY <2>1, <2>2, <2>3
<1>5. \A m \in T : n <= m
  BY <1>4
<1>6. QED BY <1>5

(* A walk of the later entries, with the oldest put in front.              *)
LEMMA WalkGrows ==
  ASSUME NEW R, NEW e \in R, IsFiniteSet(R), \A d \in R : d.id \in Nat,
         \A d \in R \ {e} : e.id < d.id,
         NEW w \in Walks(R \ {e})
  PROVE  Walks(R) # {}
<1> DEFINE n == Cardinality(R)
           v == [i \in 1..n |-> IF i = 1 THEN e ELSE w[i - 1]]
<1>1. n \in Nat /\ Cardinality(R \ {e}) = n - 1 /\ n - 1 \in Nat
  <2>1. IsFiniteSet(R \ {e}) /\ Cardinality(R \ {e}) = n - 1
    BY FS_RemoveElement
  <2>2. n \in Nat /\ Cardinality(R \ {e}) \in Nat
    BY <2>1, FS_CardinalityType
  <2>3. QED BY <2>1, <2>2
<1>2. /\ w \in [1..(n - 1) -> R \ {e}]
      /\ \A i, j \in 1..(n - 1) : i < j => w[i].id < w[j].id
      /\ \A d \in R \ {e} : \E i \in 1..(n - 1) : w[i] = d
  BY <1>1 DEF Walks, Range
<1> HIDE DEF n
<1>3. ASSUME NEW i \in 1..n, i # 1
      PROVE  i - 1 \in 1..(n - 1) /\ v[i] = w[i - 1] /\ w[i - 1] \in R \ {e}
  <2>1. i - 1 \in 1..(n - 1)
    BY <1>1, <1>3
  <2>2. QED BY <1>2, <1>3, <2>1
<1>4. 1 \in 1..n /\ v[1] = e
  BY <1>1
<1>5. v \in [1..n -> R]
  BY <1>3, <1>4
<1>6. ASSUME NEW i \in 1..n, NEW j \in 1..n, i < j
      PROVE  v[i].id < v[j].id
  <2>1. j # 1 /\ j - 1 \in 1..(n - 1) /\ v[j] = w[j - 1] /\ w[j - 1] \in R \ {e}
    BY <1>1, <1>3, <1>6
  <2>2. CASE i = 1
    BY <1>4, <2>1, <2>2
  <2>3. CASE i # 1
    <3>1. i - 1 \in 1..(n - 1) /\ v[i] = w[i - 1]
      BY <1>3, <2>3
    <3>2. i - 1 < j - 1
      BY <1>1, <1>6
    <3>3. QED BY <1>2, <2>1, <3>1, <3>2
  <2>4. QED BY <2>2, <2>3
<1>7. ASSUME NEW d \in R PROVE \E i \in 1..n : v[i] = d
  <2>1. CASE d = e
    BY <1>4, <2>1
  <2>2. CASE d # e
    <3>1. PICK i \in 1..(n - 1) : w[i] = d
      BY <1>2, <2>2
    <3>2. i + 1 \in 1..n /\ i + 1 # 1 /\ (i + 1) - 1 = i
      BY <1>1
    <3>3. QED BY <3>1, <3>2
  <2>3. QED BY <2>1, <2>2
<1>8. DOMAIN v = 1..n
  OBVIOUS
<1> HIDE DEF v
<1>9. R \subseteq Range(v)
  BY <1>7, <1>8 DEF Range
<1>10. v \in Walks(R)
  BY <1>5, <1>6, <1>8, <1>9 DEF Walks, n
<1>11. QED BY <1>10

(* A finite log with distinct ids can be walked: otherwise a smallest one  *)
(* that cannot is a smaller one, which can, behind its oldest entry.       *)
LEMMA WalkExists ==
  ASSUME NEW S, IsFiniteSet(S), \A e \in S : e.id \in Nat,
         \A d, e \in S : d.id = e.id => d = e
  PROVE  Walks(S) # {}
<1> SUFFICES ASSUME Walks(S) = {} PROVE FALSE
  OBVIOUS
<1> DEFINE T == {n \in Nat : \E R \in SUBSET S :
                               Cardinality(R) = n /\ Walks(R) = {}}
<1>1. Cardinality(S) \in T
  BY FS_CardinalityType
<1>2. PICK n \in T : \A m \in T : n <= m
  BY <1>1, LeastNatural
<1>3. PICK R \in SUBSET S : Cardinality(R) = n /\ Walks(R) = {}
  BY <1>2
<1>4. IsFiniteSet(R) /\ n \in Nat
  BY <1>2, FS_Subset
<1>5. R # {}
  <2> SUFFICES ASSUME R = {} PROVE FALSE
    OBVIOUS
  <2>1. Cardinality(R) = 0
    BY FS_EmptySet
  <2> DEFINE w == [i \in 1..0 |-> i]
  <2>2. DOMAIN w = {} /\ w \in [1..0 -> R]
    OBVIOUS
  <2> HIDE DEF w
  <2>3. w \in Walks(R)
    BY <2>1, <2>2 DEF Walks
  <2>4. QED BY <1>3, <2>3
<1> DEFINE Ids == {d.id : d \in R}
<1>6. Ids \in SUBSET Nat /\ Ids # {}
  BY <1>3, <1>5
<1>7. PICK k \in Ids : \A m \in Ids : k <= m
  BY <1>6, LeastNatural
<1>8. PICK e \in R : e.id = k
  BY <1>7
<1>9. \A d \in R \ {e} : e.id < d.id
  <2> SUFFICES ASSUME NEW d \in R \ {e} PROVE e.id < d.id
    OBVIOUS
  <2>1. d.id \in Nat /\ e.id \in Nat /\ d.id # e.id
    BY <1>3
  <2>2. e.id <= d.id
    BY <1>7, <1>8
  <2>3. QED BY <2>1, <2>2
<1>10. Cardinality(R \ {e}) = n - 1 /\ Cardinality(R \ {e}) \in Nat
  BY <1>3, <1>4, FS_RemoveElement, FS_CardinalityType
<1>11. PICK w : w \in Walks(R \ {e})
  <2>1. ~(n <= Cardinality(R \ {e}))
    BY <1>4, <1>10
  <2>2. Cardinality(R \ {e}) \notin T
    BY <1>2, <2>1
  <2>3. R \ {e} \in SUBSET S
    BY <1>3
  <2>4. Walks(R \ {e}) # {}
    BY <1>10, <2>2, <2>3
  <2>5. QED BY <2>4
<1>12. Walks(R) # {}
  BY <1>3, <1>4, <1>9, <1>11, WalkGrows
<1>13. QED BY <1>3, <1>12

(* No two entries of a firm have one id. *)
IdsApart ==
  /\ \A d, e \in rows : d.firm = e.firm /\ d.id = e.id => d = e
  /\ \A s \in Sessions : \A d, e \in own[s] : d.id = e.id => d = e

LEMMA IdsApartStep ==
  ASSUME LogInv, IdsApart, [Next]_vars
  PROVE  IdsApart'
<1> USE DEF LogInv
<1>1. CASE \E s \in Sessions : Write(s)
  <2>0. PICK s \in Sessions : \E c, h : AppendAudit(s, c, h)
    BY <1>1 DEF Write
  <2>1. PICK c, h : AppendAudit(s, c, h)
    BY <2>0
  <2> DEFINE x == [id |-> nextId, firm |-> firm[s], content |-> c, prev |-> h,
                   hash |-> Hash(c, h)]
  <2>2. rows' = rows /\ own' = [own EXCEPT ![s] = own[s] \cup {x}]
    BY <2>1 DEF AppendAudit
  <2>3. x.id = nextId
    OBVIOUS
  <2> HIDE DEF x
  <2>4. \A d \in own[s] : d.id # x.id
    BY <2>3 DEF IdsDrawn, TypeOK, Entry
  <2>5. \A t \in Sessions : own'[t] = IF t = s THEN own[s] \cup {x} ELSE own[t]
    BY <2>2 DEF TypeOK
  <2>6. \A d, e \in own[s] \cup {x} : d.id = e.id => d = e
    BY <2>4 DEF IdsApart
  <2>7. QED BY <2>2, <2>5, <2>6 DEF IdsApart
<1>2. CASE \E s \in Sessions : Commit(s) \/ Rollback(s)
  <2>1. PICK s \in Sessions : Commit(s) \/ Rollback(s)
    BY <1>2
  <2>2. rows' \in {rows, rows \cup own[s]} /\ own' = [own EXCEPT ![s] = {}]
    BY <2>1 DEF Commit, Rollback
  <2>3. \A d \in rows, e \in own[s] : d.firm = e.firm => d.id # e.id
    BY DEF PendingNewer, TypeOK, Entry
  <2>4. \A d, e \in rows \cup own[s] : d.firm = e.firm /\ d.id = e.id => d = e
    BY <2>3 DEF IdsApart
  <2>5. \A t \in Sessions : own'[t] = own[t] \/ own'[t] = {}
    BY <2>2 DEF TypeOK
  <2>6. QED BY <2>2, <2>4, <2>5 DEF IdsApart
<1>3. CASE UNCHANGED <<rows, own>>
  BY <1>3 DEF IdsApart
<1>4. QED BY <1>1, <1>2, <1>3 DEF Next, Ask, Acquire, vars

(* The stream verify_chain reads is there at every moment, so that what    *)
(* VerifyAccepts says of every walk it says of one.                        *)
THEOREM WalkThere == Spec => [](\A f \in Firms : Walks(Of(rows, f)) # {})
<1>1. Init => IdsApart
  BY DEF Init, IdsApart
<1>2. LogInv /\ IdsApart /\ [Next]_vars => IdsApart'
  BY IdsApartStep
<1>3. LogInv /\ FiniteLog /\ IdsApart =>
        \A f \in Firms : Walks(Of(rows, f)) # {}
  <2> SUFFICES ASSUME LogInv, FiniteLog, IdsApart, NEW f \in Firms
               PROVE  Walks(Of(rows, f)) # {}
    OBVIOUS
  <2> DEFINE S == Of(rows, f)
  <2>1. /\ IsFiniteSet(S) /\ \A e \in S : e.id \in Nat
        /\ \A d, e \in S : d.id = e.id => d = e
    BY FS_Subset DEF FiniteLog, IdsApart, LogInv, TypeOK, Entry, Of
  <2> HIDE DEF S
  <2>2. Walks(S) # {}
    BY <2>1, WalkExists
  <2>3. QED BY <2>2 DEF S
<1>4. QED BY <1>1, <1>2, <1>3, LogInvariant, FiniteInvariant, PTL DEF Spec

(* verify_chain accepts the log at every moment.                           *)
THEOREM VerifyAcceptsHolds == Spec => []VerifyAccepts
<1>1. LogInv /\ FiniteLog => VerifyAccepts
  <2> SUFFICES ASSUME LogInv, FiniteLog, NEW f \in Firms PROVE VerifyChain(f)
    BY DEF VerifyAccepts
  <2> DEFINE S == Of(rows, f)
  <2>1. IsFiniteSet(S) /\ \A e \in S : e.id \in Nat
    BY FS_Subset DEF FiniteLog, LogInv, TypeOK, Entry, Of
  <2>2. ChainOf(S)
    BY DEF LogInv, ChainIntact
  <2> HIDE DEF S
  <2>3. \A walk \in Walks(S) : \A i \in DOMAIN walk :
          /\ walk[i].prev = IF i = 1 THEN GENESIS ELSE walk[i - 1].hash
          /\ walk[i].hash = Hash(walk[i].content, walk[i].prev)
    BY <2>1, <2>2, WalkLinked
  <2>4. QED BY <2>3 DEF VerifyChain, S
<1>2. QED BY <1>1, LogInvariant, FiniteInvariant, PTL

-----------------------------------------------------------------------------
(* The subscription sweep: its inductive invariant.                        *)

(* What a sweep is at: a box whenever it waits for Graph, a subscription   *)
(* when it renews one or has just created one, and no box twice.           *)
SweepShape ==
  /\ IF sweep.step \in {"patch", "patched", "create", "created"}
     THEN sweep.box \in Boxes ELSE sweep.box = Nothing
  /\ IF sweep.step \in {"patch", "patched", "created"}
     THEN sweep.sub \in Subs ELSE sweep.sub = Nothing
  /\ sweep.todo \cap sweep.orphans = {}
  /\ sweep.box \notin sweep.todo \cup sweep.orphans

(* One row at a time waits for its commit, and never one the sweep has yet *)
(* to read.                                                                *)
Unread == sweep.todo \cup sweep.orphans \cup
            (IF sweep.step \in {"patch", "patched"} THEN {sweep.box} ELSE {})

PendShape ==
  /\ sweep.step \in {"off", "broken"} => pend = Clean
  /\ \A b \in Boxes : pend[b] # Same => b \notin Unread
  /\ \A b, c \in Boxes : pend[b] # Same /\ pend[c] # Same => b = c

(* While the sweep renews, the row still names the subscription, or the    *)
(* webhook has removed it because Graph no longer has it.  While it        *)
(* creates, there is no row to lose.                                       *)
WorkSound ==
  /\ At("patch") \/ At("patched") =>
       IF Committed[sweep.box] = Nothing THEN ~Live(sweep.sub)
       ELSE Committed[sweep.box].sub = sweep.sub
  /\ At("create") \/ At("created") => Committed[sweep.box] = Nothing
  /\ \A n \in notices : n.kind = "subscriptionRemoved" => ~Live(n.sub)

Strays == {s \in Subs : Live(s) /\ ~Recorded(s)}
StraysCounted == IsFiniteSet(Strays) /\ Cardinality(Strays) <= 2 * faults

(* The boxes this period's sweep is done with. *)
Done(b) ==
  IF At("off") THEN swept ELSE b \notin sweep.todo /\ b # sweep.box

(* Without faults Graph holds every recorded subscription at least as long *)
(* as its row says, and a row the sweep is done with lives on past the     *)
(* next period.                                                            *)
Steady ==
  /\ notices = {} /\ active = Users /\ sweep.orphans = {} /\ ~At("broken")
  /\ At("patch") \/ At("patched") => Committed[sweep.box] # Nothing
  /\ At("patched") \/ At("created") =>
       Live(sweep.sub) /\ graph[sweep.sub].left = TTL
  /\ \A b \in Boxes : Committed[b] # Nothing =>
       /\ Live(Committed[b].sub)
       /\ graph[Committed[b].sub].left >= Committed[b].left
       /\ Done(b) => Committed[b].left > Buffer

SubInv == SubTypeOK /\ SweepShape /\ PendShape /\ WorkSound

-----------------------------------------------------------------------------
(* What the commits of the sweep's session do to the rows.                 *)

LEMMA CommittedRow ==
  ASSUME SubTypeOK, NEW b \in Boxes
  PROVE  /\ Committed[b] \in Row \cup {Nothing}
         /\ pend[b] = Same => Committed[b] = row[b]
         /\ pend[b] = Deleted => Committed[b] = Nothing
         /\ pend[b] \in Row => Committed[b] = pend[b]
         /\ pend[b] \in Row \cup {Same, Deleted}
         /\ row[b] \in Row \cup {Nothing}
BY SubscriptionAssumption DEF SubTypeOK, Committed

LEMMA RowsStay ==
  ASSUME UNCHANGED <<row, pend>>
  PROVE  Committed' = Committed
BY DEF Committed

LEMMA AfterCommit ==
  ASSUME SubTypeOK, CommitRows
  PROVE  /\ row' \in [Boxes -> Row \cup {Nothing}]
         /\ pend' = Clean /\ Clean \in [Boxes -> Row \cup {Same, Deleted}]
         /\ \A b \in Boxes : Committed'[b] = Committed[b] /\ pend'[b] = Same
<1>1. /\ row' = Committed /\ pend' = Clean
      /\ \A b \in Boxes : Clean[b] = Same
  BY DEF CommitRows, Clean
<1>2. \A b \in Boxes : Committed'[b] = row'[b]
  <2> SUFFICES ASSUME NEW b \in Boxes PROVE Committed'[b] = row'[b]
    OBVIOUS
  <2>1. pend'[b] = Same
    BY <1>1
  <2>2. QED BY <2>1, SubscriptionAssumption DEF Committed
<1>3. Committed = [b \in Boxes |-> Committed[b]]
  BY DEF Committed
<1>4. QED BY <1>1, <1>2, <1>3, CommittedRow DEF Clean

LEMMA AfterCommitThen ==
  ASSUME SubTypeOK, NEW b \in Boxes, NEW r \in Row \cup {Same, Deleted},
         CommitRowsThen(b, r)
  PROVE  /\ row' \in [Boxes -> Row \cup {Nothing}]
         /\ pend' \in [Boxes -> Row \cup {Same, Deleted}]
         /\ pend'[b] = r
         /\ \A c \in Boxes \ {b} :
              Committed'[c] = Committed[c] /\ pend'[c] = Same
         /\ r = Same => Committed'[b] = Committed[b]
         /\ r = Deleted => Committed'[b] = Nothing
         /\ r \in Row => Committed'[b] = r
<1>1. row' = Committed /\ pend' = [Clean EXCEPT ![b] = r]
  BY DEF CommitRowsThen
<1>2. /\ pend'[b] = r
      /\ \A c \in Boxes \ {b} : pend'[c] = Same
      /\ pend' \in [Boxes -> Row \cup {Same, Deleted}]
  BY <1>1 DEF Clean
<1>3. \A c \in Boxes \ {b} : Committed'[c] = row'[c]
  <2> SUFFICES ASSUME NEW c \in Boxes \ {b} PROVE Committed'[c] = row'[c]
    OBVIOUS
  <2>1. pend'[c] = Same
    BY <1>2
  <2>2. QED BY <2>1, SubscriptionAssumption DEF Committed
<1>4. /\ r = Same => Committed'[b] = row'[b]
      /\ r = Deleted => Committed'[b] = Nothing
      /\ r \in Row => Committed'[b] = r
  BY <1>2, SubscriptionAssumption DEF Committed
<1>5. Committed = [c \in Boxes |-> Committed[c]]
  BY DEF Committed
<1>6. QED BY <1>1, <1>2, <1>3, <1>4, <1>5, CommittedRow

LEMMA AfterRollback ==
  ASSUME SubTypeOK, RollbackRows
  PROVE  /\ row' = row /\ pend' = Clean
         /\ Clean \in [Boxes -> Row \cup {Same, Deleted}]
         /\ \A b \in Boxes : Committed'[b] = row[b] /\ pend'[b] = Same
<1>1. /\ row' = row /\ pend' = Clean
      /\ Clean \in [Boxes -> Row \cup {Same, Deleted}]
      /\ \A b \in Boxes : pend'[b] = Same
  BY DEF RollbackRows, Clean
<1>2. \A b \in Boxes : Committed'[b] = row[b]
  <2> SUFFICES ASSUME NEW b \in Boxes PROVE Committed'[b] = row[b]
    OBVIOUS
  <2>1. pend'[b] = Same /\ row' = row
    BY <1>1
  <2>2. QED BY <2>1, SubscriptionAssumption DEF Committed
<1>3. QED BY <1>1, <1>2

-----------------------------------------------------------------------------
(* How each step moves the sweep.                                          *)

LEMMA AsleepFields ==
  /\ Asleep \in Sweeps /\ Asleep.step = "off" /\ Asleep.todo = {}
  /\ Asleep.orphans = {} /\ Asleep.box = Nothing /\ Asleep.sub = Nothing
BY DEF Asleep, Sweeps, Steps

LEMMA NextBoxFields ==
  ASSUME SubTypeOK
  PROVE  /\ NextBox \in Sweeps /\ NextBox.step = "next"
         /\ NextBox.todo = sweep.todo /\ NextBox.orphans = sweep.orphans
         /\ NextBox.box = Nothing /\ NextBox.sub = Nothing
BY DEF SubTypeOK, NextBox, Sweeps, Steps

LEMMA StartMoves ==
  ASSUME SubTypeOK, Start
  PROVE  /\ sweep.step = "off" /\ ~swept
         /\ sweep' \in Sweeps /\ sweep'.step = "next"
         /\ sweep'.todo = {b \in Boxes : OwnerOf[b] \in active}
         /\ sweep'.orphans =
              {b \in Boxes : OwnerOf[b] \notin active /\ row[b] # Nothing}
         /\ sweep'.box = Nothing /\ sweep'.sub = Nothing
         /\ UNCHANGED <<graph, row, pend, active, swept, notices, faults>>
BY DEF Start, Asleep, Sweeps, Steps

LEMMA VisitMoves ==
  ASSUME SubTypeOK, SweepShape, NEW b \in Boxes, Visit(b)
  PROVE  /\ sweep.step = "next" /\ b \in sweep.todo
         /\ sweep' \in Sweeps
         /\ sweep'.todo = sweep.todo \ {b} /\ sweep'.orphans = sweep.orphans
         /\ \/ /\ row[b] = Nothing
               /\ sweep'.step = "create" /\ sweep'.box = b
               /\ sweep'.sub = Nothing
            \/ /\ row[b] # Nothing /\ Fresh(row[b])
               /\ sweep'.step = "next" /\ sweep'.box = Nothing
               /\ sweep'.sub = Nothing
            \/ /\ row[b] # Nothing /\ row[b] \in Row
               /\ sweep'.step = "patch" /\ sweep'.box = b
               /\ sweep'.sub = row[b].sub
         /\ UNCHANGED <<graph, row, pend, active, swept, notices, faults>>
<1> DEFINE rest == [sweep EXCEPT !.todo = @ \ {b}]
<1>1. sweep \in Sweeps /\ sweep.step = "next" /\ b \in sweep.todo
      /\ sweep.box = Nothing /\ sweep.sub = Nothing
  BY DEF SubTypeOK, SweepShape, Visit, At
<1>2. /\ rest \in Sweeps /\ rest.todo = sweep.todo \ {b}
      /\ rest.orphans = sweep.orphans /\ rest.step = "next"
      /\ rest.box = Nothing /\ rest.sub = Nothing
  BY <1>1 DEF Sweeps
<1>3. sweep' = CASE row[b] = Nothing ->
                      [rest EXCEPT !.step = "create", !.box = b]
                 [] row[b] # Nothing /\ Fresh(row[b]) -> rest
                 [] OTHER -> [rest EXCEPT !.step = "patch", !.box = b,
                                          !.sub = row[b].sub]
  BY DEF Visit
<1>4. row[b] \in Row \cup {Nothing}
  BY DEF SubTypeOK
<1>5. UNCHANGED <<graph, row, pend, active, swept, notices, faults>>
  BY DEF Visit
<1> HIDE DEF rest
<1>6. CASE row[b] = Nothing
  <2>1. sweep' = [rest EXCEPT !.step = "create", !.box = b]
    BY <1>3, <1>6
  <2>2. QED BY <1>1, <1>2, <1>5, <1>6, <2>1 DEF Sweeps, Steps
<1>7. CASE row[b] # Nothing /\ Fresh(row[b])
  <2>1. sweep' = rest
    BY <1>3, <1>7
  <2>2. QED BY <1>1, <1>2, <1>5, <1>7, <2>1
<1>8. CASE row[b] # Nothing /\ ~Fresh(row[b])
  <2>1. /\ sweep' = [rest EXCEPT !.step = "patch", !.box = b,
                                  !.sub = row[b].sub]
        /\ row[b] \in Row /\ row[b].sub \in Subs
    BY <1>3, <1>4, <1>8 DEF Row
  <2>2. QED BY <1>1, <1>2, <1>5, <1>8, <2>1 DEF Sweeps, Steps
<1>9. QED BY <1>6, <1>7, <1>8

LEMMA PatchMoves ==
  ASSUME SubTypeOK, SweepShape, Patch
  PROVE  /\ sweep.step = "patch" /\ Live(sweep.sub)
         /\ sweep' \in Sweeps /\ sweep'.step = "patched"
         /\ sweep'.todo = sweep.todo /\ sweep'.orphans = sweep.orphans
         /\ sweep'.box = sweep.box /\ sweep'.sub = sweep.sub
         /\ sweep.sub \in Subs /\ sweep.box \in Boxes
         /\ graph' \in [Subs -> Remote \cup {Nothing}]
         /\ \A s \in Subs : Live(s)' <=> Live(s)
         /\ graph'[sweep.sub].left = TTL
         /\ \A s \in Subs \ {sweep.sub} : graph'[s] = graph[s]
         /\ UNCHANGED <<row, pend, active, swept, notices, faults>>
<1>1. /\ sweep \in Sweeps /\ sweep.step = "patch" /\ sweep.sub \in Subs
      /\ sweep.box \in Boxes /\ graph[sweep.sub] # Nothing
      /\ graph \in [Subs -> Remote \cup {Nothing}]
  BY DEF SubTypeOK, SweepShape, Patch, At, Live
<1> DEFINE g == [graph[sweep.sub] EXCEPT !.left = TTL]
<1>2. graph[sweep.sub] \in Remote /\ TTL \in 1..TTL
  BY <1>1, SubscriptionAssumption
<1>3. g \in Remote /\ g.left = TTL /\ g # Nothing
  BY <1>2, SubscriptionAssumption DEF Remote
<1>4. graph' = [graph EXCEPT ![sweep.sub] = g]
  BY DEF Patch
<1> HIDE DEF g
<1>5. /\ graph' \in [Subs -> Remote \cup {Nothing}]
      /\ graph'[sweep.sub] = g
      /\ \A s \in Subs \ {sweep.sub} : graph'[s] = graph[s]
  BY <1>1, <1>3, <1>4
<1>6. \A s \in Subs : Live(s)' <=> Live(s)
  BY <1>1, <1>3, <1>5 DEF Live
<1>7. /\ sweep' \in Sweeps /\ sweep'.step = "patched"
      /\ sweep'.todo = sweep.todo /\ sweep'.orphans = sweep.orphans
      /\ sweep'.box = sweep.box /\ sweep'.sub = sweep.sub
  BY <1>1 DEF Patch, Sweeps, Steps
<1>8. QED BY <1>1, <1>3, <1>5, <1>6, <1>7 DEF Patch, Live

LEMMA PatchDoneMoves ==
  ASSUME SubTypeOK, SweepShape, PatchDone
  PROVE  /\ sweep.step = "patched" /\ sweep.box \in Boxes /\ sweep.sub \in Subs
         /\ sweep' \in Sweeps /\ sweep'.todo = sweep.todo
         /\ sweep'.box = Nothing /\ sweep'.sub = Nothing
         /\ \/ /\ Committed[sweep.box] # Nothing
               /\ CommitRowsThen(sweep.box, [sub |-> sweep.sub, left |-> TTL])
               /\ sweep'.step = "next" /\ sweep'.orphans = sweep.orphans
            \/ /\ Committed[sweep.box] = Nothing
               /\ CommitRows
               /\ sweep'.step = "broken" /\ sweep'.orphans = {}
         /\ [sub |-> sweep.sub, left |-> TTL] \in Row
         /\ UNCHANGED <<graph, active, swept, notices, faults>>
<1>1. /\ sweep.step = "patched" /\ sweep.box \in Boxes /\ sweep.sub \in Subs
      /\ sweep \in Sweeps /\ TTL \in 0..TTL
  BY SubscriptionAssumption DEF PatchDone, At, SweepShape, SubTypeOK
<1>2. CASE Committed[sweep.box] # Nothing
  BY <1>1, <1>2, NextBoxFields DEF PatchDone, Row
<1>3. CASE Committed[sweep.box] = Nothing
  <2>1. /\ sweep' = [Asleep EXCEPT !.step = "broken", !.todo = sweep.todo]
        /\ CommitRows /\ sweep.todo \in SUBSET Boxes
    BY <1>1, <1>3 DEF PatchDone, Sweeps
  <2>2. /\ sweep' \in Sweeps /\ sweep'.todo = sweep.todo
        /\ sweep'.box = Nothing /\ sweep'.sub = Nothing
        /\ sweep'.step = "broken" /\ sweep'.orphans = {}
    BY <2>1, AsleepFields DEF Sweeps, Steps
  <2>3. QED BY <1>1, <1>3, <2>1, <2>2 DEF PatchDone, Row
<1>4. QED BY <1>2, <1>3

LEMMA PatchNotFoundMoves ==
  ASSUME SubTypeOK, SweepShape, PatchNotFound
  PROVE  /\ sweep.step = "patch" /\ ~Live(sweep.sub) /\ sweep.box \in Boxes
         /\ sweep.sub \in Subs
         /\ CommitRowsThen(sweep.box, Deleted)
         /\ sweep' \in Sweeps /\ sweep'.step = "create"
         /\ sweep'.todo = sweep.todo /\ sweep'.orphans = sweep.orphans
         /\ sweep'.box = sweep.box /\ sweep'.sub = Nothing
         /\ UNCHANGED <<graph, active, swept, notices, faults>>
BY DEF SubTypeOK, SweepShape, PatchNotFound, At, Sweeps, Steps

LEMMA CreateMoves ==
  ASSUME SubTypeOK, SweepShape, Create
  PROVE  /\ sweep.step = "create" /\ sweep.box \in Boxes /\ sweep.sub = Nothing
         /\ FreshId \in Subs /\ Unused(FreshId)
         /\ graph' \in [Subs -> Remote \cup {Nothing}]
         /\ graph'[FreshId] # Nothing /\ graph'[FreshId].left = TTL
         /\ \A s \in Subs \ {FreshId} : graph'[s] = graph[s]
         /\ sweep' \in Sweeps /\ sweep'.step = "created"
         /\ sweep'.todo = sweep.todo /\ sweep'.orphans = sweep.orphans
         /\ sweep'.box = sweep.box /\ sweep'.sub = FreshId
         /\ UNCHANGED <<row, pend, active, swept, notices, faults>>
<1>1. FreshId \in Subs /\ Unused(FreshId)
  BY DEF Create, FreshId
<1>2. /\ sweep \in Sweeps /\ sweep.step = "create" /\ sweep.box \in Boxes
      /\ sweep.sub = Nothing /\ TTL \in 1..TTL
      /\ graph \in [Subs -> Remote \cup {Nothing}]
  BY SubscriptionAssumption DEF Create, At, SweepShape, SubTypeOK
<1> DEFINE g == [box |-> sweep.box, left |-> TTL]
<1>3. g \in Remote /\ g.left = TTL /\ g # Nothing
  BY <1>2, SubscriptionAssumption DEF Remote
<1>4. /\ graph' = [graph EXCEPT ![FreshId] = g]
      /\ sweep' = [sweep EXCEPT !.step = "created", !.sub = FreshId]
      /\ UNCHANGED <<row, pend, active, swept, notices, faults>>
  BY DEF Create
<1> DEFINE f == FreshId
<1>5. f \in Subs /\ graph' = [graph EXCEPT ![f] = g]
      /\ sweep' = [sweep EXCEPT !.step = "created", !.sub = f]
  BY <1>1, <1>4
<1> HIDE DEF f, g
<1>6. /\ graph' \in [Subs -> Remote \cup {Nothing}] /\ graph'[f] = g
      /\ \A s \in Subs \ {f} : graph'[s] = graph[s]
  BY <1>2, <1>3, <1>5
<1>7. /\ sweep' \in Sweeps /\ sweep'.step = "created"
      /\ sweep'.todo = sweep.todo /\ sweep'.orphans = sweep.orphans
      /\ sweep'.box = sweep.box /\ sweep'.sub = f
  BY <1>2, <1>5 DEF Sweeps, Steps
<1>8. /\ graph'[FreshId] # Nothing /\ graph'[FreshId].left = TTL
      /\ \A s \in Subs \ {FreshId} : graph'[s] = graph[s]
      /\ sweep'.sub = FreshId
  BY <1>3, <1>6, <1>7 DEF f
<1>9. QED BY <1>1, <1>2, <1>4, <1>6, <1>7, <1>8

LEMMA CreateDoneMoves ==
  ASSUME SubTypeOK, SweepShape, CreateDone
  PROVE  /\ sweep.step = "created" /\ sweep.box \in Boxes /\ sweep.sub \in Subs
         /\ [sub |-> sweep.sub, left |-> TTL] \in Row
         /\ CommitRowsThen(sweep.box, [sub |-> sweep.sub, left |-> TTL])
         /\ sweep' = NextBox
         /\ UNCHANGED <<graph, active, swept, notices, faults>>
BY SubscriptionAssumption DEF SubTypeOK, SweepShape, CreateDone, At, Row

LEMMA OrphanMoves ==
  ASSUME SubTypeOK, SweepShape, NEW b \in Boxes, OrphanGone(b) \/ OrphanKept(b)
  PROVE  /\ sweep.step = "next" /\ sweep.todo = {} /\ b \in sweep.orphans
         /\ sweep' \in Sweeps /\ sweep'.step = "next"
         /\ sweep'.todo = {} /\ sweep'.orphans = sweep.orphans \ {b}
         /\ sweep'.box = Nothing /\ sweep'.sub = Nothing
         /\ UNCHANGED <<active, swept, notices>>
BY DEF SubTypeOK, SweepShape, OrphanGone, OrphanKept, Orphan, RestOrphans, At,
       Sweeps

LEMMA OrphanGoneMoves ==
  ASSUME SubTypeOK, SweepShape, PendShape, NEW b \in Boxes, OrphanGone(b)
  PROVE  /\ graph' \in [Subs -> Remote \cup {Nothing}]
         /\ row' \in [Boxes -> Row \cup {Nothing}]
         /\ pend' \in [Boxes -> Row \cup {Same, Deleted}]
         /\ \A c \in Boxes \ {b} :
              Committed'[c] = Committed[c] /\ pend'[c] = Same
         /\ Committed'[b] = Nothing
         /\ Committed[b] # Nothing => graph'[Committed[b].sub] = Nothing
         /\ \A s \in Subs : graph'[s] # Nothing => graph[s] # Nothing
         /\ faults' = faults
<1> DEFINE r == IF row[b] # Nothing THEN Deleted ELSE Same
<1>1. /\ b \in sweep.orphans /\ faults' = faults
      /\ graph' = IF row[b] # Nothing
                  THEN [graph EXCEPT ![row[b].sub] = Nothing] ELSE graph
      /\ CommitRowsThen(b, r)
  BY DEF OrphanGone, Orphan
<1>2. pend[b] = Same
  BY <1>1 DEF PendShape, Unread
<1>3. Committed[b] = row[b] /\ row[b] \in Row \cup {Nothing}
  BY <1>2, CommittedRow
<1>4. /\ r \in Row \cup {Same, Deleted}
      /\ r = Same \/ (r = Deleted /\ row[b] # Nothing)
      /\ r = Same => row[b] = Nothing
  <2>1. CASE row[b] = Nothing
    BY <2>1
  <2>2. CASE row[b] # Nothing
    BY <2>2, SubscriptionAssumption
  <2>3. QED BY <2>1, <2>2
<1> HIDE DEF r
<1>5. /\ row' \in [Boxes -> Row \cup {Nothing}]
      /\ pend' \in [Boxes -> Row \cup {Same, Deleted}]
      /\ \A c \in Boxes \ {b} :
           Committed'[c] = Committed[c] /\ pend'[c] = Same
      /\ r = Same => Committed'[b] = Committed[b]
      /\ r = Deleted => Committed'[b] = Nothing
  BY <1>1, <1>4, AfterCommitThen
<1>6. Committed'[b] = Nothing
  BY <1>3, <1>4, <1>5
<1>7. graph \in [Subs -> Remote \cup {Nothing}]
  BY DEF SubTypeOK
<1>8. /\ graph' \in [Subs -> Remote \cup {Nothing}]
      /\ row[b] # Nothing => graph'[row[b].sub] = Nothing
      /\ \A s \in Subs : graph'[s] # Nothing => graph[s] # Nothing
  <2>1. CASE row[b] = Nothing
    BY <1>1, <1>7, <2>1
  <2>2. CASE row[b] # Nothing
    <3>1. row[b].sub \in Subs /\ graph' = [graph EXCEPT ![row[b].sub] = Nothing]
      BY <1>1, <1>3, <2>2 DEF Row
    <3>2. QED BY <1>7, <2>2, <3>1
  <2>3. QED BY <2>1, <2>2
<1>9. QED BY <1>1, <1>3, <1>5, <1>6, <1>8

LEMMA DeliverMoves ==
  ASSUME SubTypeOK, NEW n \in notices, Deliver(n)
  PROVE  /\ n.sub \in Subs /\ notices' = notices \ {n}
         /\ row' \in [Boxes -> Row \cup {Nothing}]
         /\ \A b \in Boxes :
              \/ Committed'[b] = Committed[b]
              \/ /\ Committed[b] \in Row /\ Committed[b].sub = n.sub
                 /\ IF n.kind = "subscriptionRemoved"
                    THEN Committed'[b] = Nothing
                    ELSE Committed'[b] \in Row /\ Committed'[b].sub = n.sub
         /\ UNCHANGED <<graph, pend, active, sweep, swept, faults>>
<1> DEFINE known == {b \in Boxes : row[b] # Nothing /\ row[b].sub = n.sub}
<1>1. /\ n.sub \in Subs /\ notices' = notices \ {n}
      /\ UNCHANGED <<graph, pend, active, sweep, swept, faults>>
  BY DEF SubTypeOK, Deliver
<1>2. row' = [b \in Boxes |->
               IF b \notin known THEN row[b]
               ELSE IF n.kind = "subscriptionRemoved" THEN Nothing
               ELSE [row[b] EXCEPT !.left = 0]]
  BY DEF Deliver
<1>3. ASSUME NEW b \in Boxes
      PROVE  /\ row[b] \in Row \cup {Nothing}
             /\ \/ row'[b] = row[b]
                \/ /\ row[b] \in Row /\ row[b].sub = n.sub
                   /\ IF n.kind = "subscriptionRemoved"
                      THEN row'[b] = Nothing
                      ELSE row'[b] \in Row /\ row'[b].sub = n.sub
  <2>1. row[b] \in Row \cup {Nothing}
    BY DEF SubTypeOK
  <2>2. CASE b \notin known
    BY <1>2, <2>1, <2>2
  <2>3. CASE b \in known
    <3>1. row[b] \in Row /\ row[b].sub = n.sub
      BY <2>1, <2>3
    <3>2. /\ [row[b] EXCEPT !.left = 0] \in Row
          /\ [row[b] EXCEPT !.left = 0].sub = n.sub
      BY <3>1, SubscriptionAssumption DEF Row
    <3>3. QED BY <1>2, <2>3, <3>1, <3>2
  <2>4. QED BY <2>2, <2>3
<1>4. row' \in [Boxes -> Row \cup {Nothing}]
  <2>1. \A b \in Boxes : row'[b] \in Row \cup {Nothing}
    BY <1>3
  <2>2. QED BY <1>2, <2>1
<1>5. ASSUME NEW b \in Boxes
      PROVE  \/ Committed'[b] = Committed[b]
             \/ /\ Committed[b] = row[b] /\ Committed'[b] = row'[b]
  BY <1>1 DEF Committed
<1>6. ASSUME NEW b \in Boxes
      PROVE  \/ Committed'[b] = Committed[b]
             \/ /\ Committed[b] \in Row /\ Committed[b].sub = n.sub
                /\ IF n.kind = "subscriptionRemoved"
                   THEN Committed'[b] = Nothing
                   ELSE Committed'[b] \in Row /\ Committed'[b].sub = n.sub
  BY <1>3, <1>5
<1>7. QED BY <1>1, <1>4, <1>6

LEMMA TickMoves ==
  ASSUME SubTypeOK, PendShape, Tick
  PROVE  /\ sweep.step = "off" /\ swept /\ ~swept'
         /\ graph' \in [Subs -> Remote \cup {Nothing}]
         /\ row' \in [Boxes -> Row \cup {Nothing}]
         /\ \A s \in Subs :
              /\ graph'[s] # Nothing => graph[s] # Nothing
              /\ graph[s] # Nothing /\ graph[s].left > 1 =>
                   graph'[s] # Nothing /\ graph'[s].left = graph[s].left - 1
         /\ \A b \in Boxes :
              IF Committed[b] = Nothing THEN Committed'[b] = Nothing
              ELSE /\ Committed[b] \in Row /\ Committed'[b] \in Row
                   /\ Committed'[b].sub = Committed[b].sub
                   /\ Committed'[b].left = Older(Committed[b].left)
         /\ UNCHANGED <<pend, active, sweep, notices, faults>>
<1>1. /\ sweep.step = "off" /\ swept /\ swept' = FALSE
      /\ UNCHANGED <<pend, active, sweep, notices, faults>>
  BY DEF Tick, At
<1>2. /\ \A b \in Boxes : Committed[b] = row[b]
      /\ \A b \in Boxes : Committed'[b] = row'[b]
  <2>1. \A b \in Boxes : pend[b] = Same /\ pend'[b] = Same
    BY <1>1 DEF PendShape, Clean
  <2>2. QED BY <2>1, SubscriptionAssumption DEF Committed
<1>3. /\ graph' = [s \in Subs |->
           IF ~Live(s) \/ graph[s].left = 1 THEN Nothing
           ELSE [graph[s] EXCEPT !.left = Older(@)]]
      /\ row' = [b \in Boxes |-> IF row[b] = Nothing THEN Nothing
                                ELSE [row[b] EXCEPT !.left = Older(@)]]
  BY DEF Tick
<1>4. ASSUME NEW s \in Subs
      PROVE  /\ graph'[s] \in Remote \cup {Nothing}
             /\ graph'[s] # Nothing => graph[s] # Nothing
             /\ graph[s] # Nothing /\ graph[s].left > 1 =>
                  graph'[s] # Nothing /\ graph'[s].left = graph[s].left - 1
  <2>1. graph[s] \in Remote \cup {Nothing}
    BY DEF SubTypeOK
  <2>2. CASE ~Live(s) \/ graph[s].left = 1
    BY <1>3, <2>1, <2>2 DEF Live
  <2>3. CASE Live(s) /\ graph[s].left # 1
    <3>1. /\ graph[s] \in Remote /\ graph[s].left \in 1..TTL
          /\ graph[s].left # 1 /\ graph[s].left # 0
      BY <2>1, <2>3 DEF Live, Remote
    <3>2. Older(graph[s].left) = graph[s].left - 1
      BY <3>1 DEF Older
    <3>3. graph'[s] = [graph[s] EXCEPT !.left = graph[s].left - 1]
      BY <1>3, <2>3, <3>2
    <3>4. graph'[s] \in Remote /\ graph'[s].left = graph[s].left - 1
      BY <3>1, <3>3, SubscriptionAssumption DEF Remote
    <3>5. QED BY <3>1, <3>4, SubscriptionAssumption
  <2>4. QED BY <2>2, <2>3
<1>5. ASSUME NEW b \in Boxes
      PROVE  /\ row'[b] \in Row \cup {Nothing}
             /\ IF row[b] = Nothing THEN row'[b] = Nothing
                ELSE /\ row[b] \in Row /\ row'[b] \in Row
                     /\ row'[b].sub = row[b].sub
                     /\ row'[b].left = Older(row[b].left)
  <2>1. row[b] \in Row \cup {Nothing}
    BY DEF SubTypeOK
  <2>2. CASE row[b] = Nothing
    BY <1>3, <2>2
  <2>3. CASE row[b] # Nothing
    <3>1. row[b] \in Row /\ row[b].left \in 0..TTL
      BY <2>1, <2>3 DEF Row
    <3>2. Older(row[b].left) \in 0..TTL
      BY <3>1, SubscriptionAssumption DEF Older
    <3>3. row'[b] = [row[b] EXCEPT !.left = Older(row[b].left)]
      BY <1>3, <2>3
    <3>4. /\ row'[b] \in Row /\ row'[b].sub = row[b].sub
          /\ row'[b].left = Older(row[b].left)
      BY <3>1, <3>2, <3>3 DEF Row
    <3>5. QED BY <2>3, <3>1, <3>4
  <2>4. QED BY <2>2, <2>3
<1>6. graph' \in [Subs -> Remote \cup {Nothing}]
  <2>1. \A s \in Subs : graph'[s] \in Remote \cup {Nothing}
    BY <1>4
  <2>2. QED BY <1>3, <2>1
<1>7. row' \in [Boxes -> Row \cup {Nothing}]
  <2>1. \A b \in Boxes : row'[b] \in Row \cup {Nothing}
    BY <1>5
  <2>2. QED BY <1>3, <2>1
<1>8. \A b \in Boxes :
        IF Committed[b] = Nothing THEN Committed'[b] = Nothing
        ELSE /\ Committed[b] \in Row /\ Committed'[b] \in Row
             /\ Committed'[b].sub = Committed[b].sub
             /\ Committed'[b].left = Older(Committed[b].left)
  BY <1>2, <1>5
<1>9. \A s \in Subs :
        /\ graph'[s] # Nothing => graph[s] # Nothing
        /\ graph[s] # Nothing /\ graph[s].left > 1 =>
             graph'[s] # Nothing /\ graph'[s].left = graph[s].left - 1
  BY <1>4
<1>10. QED BY <1>1, <1>6, <1>7, <1>8, <1>9

(* A drop takes one subscription away and may announce it. *)
LEMMA DropMoves ==
  ASSUME SubTypeOK, NEW s \in Subs, Drop(s)
  PROVE  /\ graph' \in [Subs -> Remote \cup {Nothing}]
         /\ graph'[s] = Nothing
         /\ \A t \in Subs \ {s} : graph'[t] = graph[t]
         /\ notices' \subseteq
              notices \cup {[kind |-> "subscriptionRemoved", sub |-> s]}
         /\ UNCHANGED <<row, pend, active, sweep, swept>>
BY DEF SubTypeOK, Drop

(* A failed step counts and stays within its bound. *)
LEMMA FaultCounts ==
  ASSUME SubTypeOK, Fault
  PROVE  faults \in Nat /\ faults' = faults + 1 /\ faults' \in 0..MaxFaults
BY SubscriptionAssumption DEF SubTypeOK, Fault

-----------------------------------------------------------------------------
(* The steps by name, as the proofs below split them.                      *)

LEMMA StepsOfSubNext ==
  ASSUME SubTypeOK, SubNext
  PROVE  \/ Start \/ Patch \/ PatchDone \/ PatchNotFound
         \/ Create \/ CreateDone \/ End \/ Break \/ Tick \/ CallFails \/ Crash
         \/ \E b \in Boxes : Visit(b)
         \/ \E b \in Boxes : OrphanGone(b)
         \/ \E b \in Boxes : OrphanKept(b)
         \/ \E s \in Subs : Drop(s)
         \/ \E s \in Subs : AskReauthorization(s)
         \/ \E n \in notices : Deliver(n)
         \/ \E n \in notices : Lose(n)
         \/ \E u \in Users : SetActive(u)
BY DEF SubNext, SweepStep

(* The values of the variables are kept by every step. *)
LEMMA SubTypeStep ==
  ASSUME SubTypeOK, SweepShape, PendShape, SubNext
  PROVE  SubTypeOK'
<1> USE DEF SubTypeOK
<1>1. CASE Start
  BY <1>1, StartMoves
<1>2. CASE Patch
  BY <1>2, PatchMoves
<1>3. CASE PatchDone
  <2>1. /\ sweep' \in Sweeps
        /\ UNCHANGED <<graph, active, swept, notices, faults>>
        /\ [sub |-> sweep.sub, left |-> TTL] \in Row /\ sweep.box \in Boxes
    BY <1>3, PatchDoneMoves
  <2>2. CASE CommitRowsThen(sweep.box, [sub |-> sweep.sub, left |-> TTL])
    <3>1. /\ row' \in [Boxes -> Row \cup {Nothing}]
          /\ pend' \in [Boxes -> Row \cup {Same, Deleted}]
      BY <2>1, <2>2, AfterCommitThen
    <3>2. QED BY <2>1, <3>1
  <2>3. CASE CommitRows
    BY <2>1, <2>3, AfterCommit
  <2>4. QED BY <1>3, <2>2, <2>3, PatchDoneMoves
<1>4. CASE PatchNotFound
  <2>1. /\ sweep' \in Sweeps
        /\ UNCHANGED <<graph, active, swept, notices, faults>>
        /\ CommitRowsThen(sweep.box, Deleted) /\ sweep.box \in Boxes
    BY <1>4, PatchNotFoundMoves
  <2>2. /\ row' \in [Boxes -> Row \cup {Nothing}]
        /\ pend' \in [Boxes -> Row \cup {Same, Deleted}]
    BY <2>1, AfterCommitThen
  <2>3. QED BY <2>1, <2>2
<1>5. CASE Create
  BY <1>5, CreateMoves
<1>6. CASE CreateDone
  <2>1. /\ sweep' = NextBox
        /\ UNCHANGED <<graph, active, swept, notices, faults>>
        /\ [sub |-> sweep.sub, left |-> TTL] \in Row /\ sweep.box \in Boxes
        /\ CommitRowsThen(sweep.box, [sub |-> sweep.sub, left |-> TTL])
    BY <1>6, CreateDoneMoves
  <2>2. /\ row' \in [Boxes -> Row \cup {Nothing}]
        /\ pend' \in [Boxes -> Row \cup {Same, Deleted}]
    BY <2>1, AfterCommitThen
  <2>3. QED BY <2>1, <2>2, NextBoxFields
<1>7. CASE End
  BY <1>7, AfterCommit, AsleepFields DEF End
<1>8. CASE Break
  BY <1>8, AfterRollback, AsleepFields DEF Break
<1>9. CASE Tick
  BY <1>9, TickMoves DEF Tick
<1>10. CASE CallFails
  BY <1>10, AfterCommit, NextBoxFields, FaultCounts DEF CallFails
<1>11. CASE Crash
  BY <1>11, AfterRollback, AsleepFields, FaultCounts DEF Crash
<1>12. CASE \E b \in Boxes : Visit(b)
  BY <1>12, VisitMoves
<1>13. CASE \E b \in Boxes : OrphanGone(b)
  <2>1. PICK b \in Boxes : OrphanGone(b)
    BY <1>13
  <2>2. QED BY <2>1, OrphanGoneMoves, OrphanMoves
<1>14. CASE \E b \in Boxes : OrphanKept(b)
  <2>1. PICK b \in Boxes : OrphanKept(b)
    BY <1>14
  <2>2. sweep' \in Sweeps /\ UNCHANGED <<active, swept, notices>>
    BY <2>1, OrphanMoves
  <2>3. QED BY <2>1, <2>2, AfterCommit, FaultCounts DEF OrphanKept
<1>15. CASE \E s \in Subs : Drop(s)
  <2>1. PICK s \in Subs : Drop(s)
    BY <1>15
  <2>2. [kind |-> "subscriptionRemoved", sub |-> s] \in
          [kind : {"subscriptionRemoved", "reauthorizationRequired"}, sub : Subs]
    OBVIOUS
  <2>3. Fault
    BY <2>1 DEF Drop
  <2>4. QED BY <2>1, <2>2, <2>3, DropMoves, FaultCounts
<1>16. CASE \E s \in Subs : AskReauthorization(s)
  BY <1>16, FaultCounts DEF AskReauthorization
<1>17. CASE \E n \in notices : Deliver(n)
  BY <1>17, DeliverMoves
<1>18. CASE \E n \in notices : Lose(n)
  BY <1>18 DEF Lose
<1>19. CASE \E u \in Users : SetActive(u)
  BY <1>19, FaultCounts DEF SetActive
<1>20. QED
  BY <1>1, <1>2, <1>3, <1>4, <1>5, <1>6, <1>7, <1>8, <1>9, <1>10, <1>11, <1>12,
     <1>13, <1>14, <1>15, <1>16, <1>17, <1>18, <1>19, StepsOfSubNext

-----------------------------------------------------------------------------
(* What the sweep is at, and the row that waits for its commit.            *)

LEMMA SweepShapeStep ==
  ASSUME SubTypeOK, SweepShape, SubNext
  PROVE  SweepShape'
<1> USE DEF SweepShape
<1>0. Nothing \notin Boxes
  BY SubscriptionAssumption
<1>1. CASE Start
  BY <1>0, <1>1, StartMoves
<1>2. CASE Patch
  BY <1>2, PatchMoves
<1>3. CASE PatchDone
  <2>1. /\ sweep'.todo = sweep.todo /\ sweep'.orphans \in {sweep.orphans, {}}
        /\ sweep'.box = Nothing /\ sweep'.sub = Nothing
        /\ sweep'.step \in {"next", "broken"}
    BY <1>3, PatchDoneMoves
  <2>2. sweep.todo \subseteq Boxes /\ sweep.orphans \subseteq Boxes
    BY DEF SubTypeOK, Sweeps
  <2>3. QED BY <1>0, <2>1, <2>2
<1>4. CASE PatchNotFound
  BY <1>4, PatchNotFoundMoves
<1>5. CASE Create
  BY <1>5, CreateMoves
<1>6. CASE CreateDone \/ CallFails
  <2>1. sweep' = NextBox
    BY <1>6 DEF CreateDone, CallFails
  <2>2. sweep.todo \subseteq Boxes /\ sweep.orphans \subseteq Boxes
    BY DEF SubTypeOK, Sweeps
  <2>3. QED BY <1>0, <2>1, <2>2, NextBoxFields
<1>7. CASE End \/ Break \/ Crash
  BY <1>7, AsleepFields DEF End, Break, Crash
<1>8. CASE \E b \in Boxes : Visit(b)
  <2>1. PICK b \in Boxes : Visit(b)
    BY <1>8
  <2>2. /\ sweep.step = "next" /\ b \in sweep.todo
        /\ sweep'.todo = sweep.todo \ {b} /\ sweep'.orphans = sweep.orphans
        /\ sweep.todo \subseteq Boxes /\ sweep.orphans \subseteq Boxes
    BY <2>1, VisitMoves DEF SubTypeOK, Sweeps
  <2>3. \/ sweep'.step = "create" /\ sweep'.box = b /\ sweep'.sub = Nothing
        \/ sweep'.step = "next" /\ sweep'.box = Nothing /\ sweep'.sub = Nothing
        \/ sweep'.step = "patch" /\ sweep'.box = b /\ sweep'.sub \in Subs
    BY <2>1, VisitMoves DEF Row
  <2>4. QED BY <1>0, <2>2, <2>3
<1>9. CASE \E b \in Boxes : OrphanGone(b) \/ OrphanKept(b)
  <2>1. PICK b \in Boxes : OrphanGone(b) \/ OrphanKept(b)
    BY <1>9
  <2>2. sweep.orphans \subseteq Boxes
    BY DEF SubTypeOK, Sweeps
  <2>3. QED BY <1>0, <2>1, <2>2, OrphanMoves
<1>10. CASE UNCHANGED sweep
  BY <1>10
<1>11. QED
  BY <1>1, <1>2, <1>3, <1>4, <1>5, <1>6, <1>7, <1>8, <1>9, <1>10,
     StepsOfSubNext DEF Tick, Drop, AskReauthorization, Deliver, Lose, SetActive

LEMMA PendShapeStep ==
  ASSUME SubTypeOK, SweepShape, PendShape, SubNext
  PROVE  PendShape'
<1>0. /\ Nothing \notin Boxes
      /\ \A b \in Boxes : Clean[b] = Same
  BY SubscriptionAssumption DEF Clean
<1>1. ASSUME pend' = Clean PROVE PendShape'
  BY <1>0, <1>1 DEF PendShape, Clean
<1>2. ASSUME UNCHANGED pend, Unread' \subseteq Unread,
             sweep'.step \in {"off", "broken"} =>
               sweep.step \in {"off", "broken"}
      PROVE  PendShape'
  BY <1>2 DEF PendShape, Clean
<1>3. ASSUME NEW b \in Boxes, \A c \in Boxes \ {b} : pend'[c] = Same,
             b \notin Unread', sweep'.step \notin {"off", "broken"}
      PROVE  PendShape'
  BY <1>3 DEF PendShape
<1>4. CASE Start
  <2>1. pend' = Clean
    BY <1>4, StartMoves DEF PendShape
  <2>2. QED BY <1>1, <2>1
<1>5. CASE Patch
  BY <1>2, <1>5, PatchMoves DEF Unread
<1>6. CASE PatchDone
  <2>1. CASE CommitRows
    BY <1>1, <2>1, AfterCommit
  <2>2. CASE CommitRowsThen(sweep.box, [sub |-> sweep.sub, left |-> TTL]) /\ ~CommitRows
    <3>1. /\ sweep.box \in Boxes /\ [sub |-> sweep.sub, left |-> TTL] \in Row
          /\ sweep.step = "patched" /\ sweep'.step = "next"
          /\ sweep'.todo = sweep.todo /\ sweep'.orphans = sweep.orphans
      BY <1>6, <2>2, PatchDoneMoves
    <3>2. sweep.box \notin Unread'
      BY <3>1 DEF SweepShape, Unread
    <3>3. \A c \in Boxes \ {sweep.box} : pend'[c] = Same
      BY <2>2, <3>1, AfterCommitThen
    <3>4. QED BY <1>3, <3>1, <3>2, <3>3
  <2>3. QED BY <1>6, <2>1, <2>2, PatchDoneMoves
<1>7. CASE PatchNotFound
  <2>1. /\ sweep.box \in Boxes /\ sweep'.step = "create"
        /\ CommitRowsThen(sweep.box, Deleted)
        /\ sweep'.todo = sweep.todo /\ sweep'.orphans = sweep.orphans
    BY <1>7, PatchNotFoundMoves
  <2>2. sweep.box \notin Unread'
    BY <2>1 DEF SweepShape, Unread
  <2>3. \A c \in Boxes \ {sweep.box} : pend'[c] = Same
    BY <2>1, AfterCommitThen
  <2>4. QED BY <1>3, <2>1, <2>2, <2>3
<1>8. CASE Create
  BY <1>2, <1>8, CreateMoves DEF Unread
<1>9. CASE CreateDone
  <2>1. /\ sweep.box \in Boxes /\ sweep' = NextBox
        /\ [sub |-> sweep.sub, left |-> TTL] \in Row
        /\ CommitRowsThen(sweep.box, [sub |-> sweep.sub, left |-> TTL])
    BY <1>9, CreateDoneMoves
  <2>2. /\ sweep'.step = "next"
        /\ sweep'.todo = sweep.todo /\ sweep'.orphans = sweep.orphans
    BY <2>1, NextBoxFields
  <2>3. sweep.box \notin Unread'
    BY <2>1, <2>2 DEF SweepShape, Unread
  <2>4. \A c \in Boxes \ {sweep.box} : pend'[c] = Same
    BY <2>1, AfterCommitThen
  <2>5. QED BY <1>3, <2>1, <2>2, <2>3, <2>4
<1>10. CASE End \/ CallFails \/ \E b \in Boxes : OrphanKept(b)
  <2>1. CommitRows
    BY <1>10 DEF End, CallFails, OrphanKept
  <2>2. QED BY <1>1, <2>1, AfterCommit
<1>11. CASE Break \/ Crash
  BY <1>1, <1>11, AfterRollback DEF Break, Crash
<1>12. CASE \E b \in Boxes : Visit(b)
  <2>1. PICK b \in Boxes : Visit(b)
    BY <1>12
  <2>2. /\ UNCHANGED pend /\ sweep'.step \in {"create", "next", "patch"}
        /\ sweep'.todo = sweep.todo \ {b} /\ sweep'.orphans = sweep.orphans
        /\ b \in sweep.todo /\ sweep'.box \in {b, Nothing}
        /\ sweep'.step = "patch" => sweep'.box = b
    BY <2>1, VisitMoves
  <2>3. Unread' \subseteq Unread
    BY <2>2 DEF Unread
  <2>4. QED BY <1>2, <2>2, <2>3
<1>13. CASE \E b \in Boxes : OrphanGone(b)
  <2>1. PICK b \in Boxes : OrphanGone(b)
    BY <1>13
  <2>2. /\ \A c \in Boxes \ {b} : pend'[c] = Same
        /\ sweep'.step = "next" /\ sweep'.todo = {}
        /\ sweep'.orphans = sweep.orphans \ {b}
    BY <2>1, OrphanGoneMoves, OrphanMoves
  <2>3. b \notin Unread'
    BY <2>2 DEF Unread
  <2>4. QED BY <1>3, <2>2, <2>3
<1>14. CASE UNCHANGED <<pend, sweep>>
  BY <1>14 DEF PendShape, Unread, Clean
<1>15. QED
  BY <1>4, <1>5, <1>6, <1>7, <1>8, <1>9, <1>10, <1>11, <1>12, <1>13, <1>14,
     StepsOfSubNext DEF Tick, Drop, AskReauthorization, Deliver, Lose, SetActive

-----------------------------------------------------------------------------
(* The row of the box the sweep works on.                                  *)

(* Steps that leave the box alone, or find it as the invariant says.       *)
LEMMA WorkIdle ==
  ASSUME SubTypeOK, WorkSound,
         sweep'.step \notin {"patch", "patched", "create", "created"},
         \A s \in Subs : graph'[s] # Nothing => graph[s] # Nothing,
         notices' \subseteq notices
  PROVE  WorkSound'
BY DEF SubTypeOK, WorkSound, At, Live

(* Steps of the others, while the sweep waits for Graph. *)
LEMMA WorkAside ==
  ASSUME SubTypeOK, SweepShape, WorkSound, UNCHANGED sweep,
         \A s \in Subs : graph'[s] # Nothing => graph[s] # Nothing,
         \A n \in notices' : n.kind = "subscriptionRemoved" =>
                               graph'[n.sub] = Nothing,
         \A b \in Boxes :
           \/ Committed'[b] = Committed[b]
           \/ /\ Committed[b] \in Row
              /\ \/ Committed'[b] = Nothing /\ graph[Committed[b].sub] = Nothing
                 \/ /\ Committed'[b] \in Row
                    /\ Committed'[b].sub = Committed[b].sub
  PROVE  WorkSound'
<1>1. Nothing \notin Row
  BY SubscriptionAssumption
<1>2. ASSUME sweep.step \in {"patch", "patched"}
      PROVE  IF Committed'[sweep.box] = Nothing THEN graph'[sweep.sub] = Nothing
             ELSE Committed'[sweep.box].sub = sweep.sub
  <2>1. /\ sweep.box \in Boxes /\ sweep.sub \in Subs
        /\ IF Committed[sweep.box] = Nothing THEN graph[sweep.sub] = Nothing
           ELSE Committed[sweep.box].sub = sweep.sub
    BY <1>2 DEF SweepShape, WorkSound, At, Live
  <2>2. QED BY <1>1, <2>1
<1>3. ASSUME sweep.step \in {"create", "created"}
      PROVE  Committed'[sweep.box] = Nothing
  <2>1. sweep.box \in Boxes /\ Committed[sweep.box] = Nothing
    BY <1>3 DEF SweepShape, WorkSound, At
  <2>2. QED BY <1>1, <2>1
<1>4. QED BY <1>2, <1>3 DEF WorkSound, At, Live

LEMMA WorkSoundStep ==
  ASSUME SubInv, SubNext
  PROVE  WorkSound'
<1> USE DEF SubInv
<1>0. \A n \in notices : n.kind = "subscriptionRemoved" => graph[n.sub] = Nothing
  BY DEF WorkSound, Live
<1>1. CASE Start
  BY <1>1, StartMoves, WorkIdle
<1>2. CASE Patch
  <2>1. /\ sweep.step = "patch" /\ sweep'.step = "patched"
        /\ sweep'.box = sweep.box /\ sweep'.sub = sweep.sub
        /\ sweep.sub \in Subs /\ sweep.box \in Boxes
        /\ \A s \in Subs : graph'[s] # Nothing <=> graph[s] # Nothing
        /\ UNCHANGED <<row, pend, notices>>
    BY <1>2, PatchMoves DEF Live
  <2>2. Committed' = Committed
    BY <2>1, RowsStay
  <2>3. \A n \in notices : n.sub \in Subs
    BY DEF SubTypeOK
  <2>4. QED BY <2>1, <2>2, <2>3 DEF WorkSound, At, Live
<1>3. CASE PatchDone
  <2>1. /\ sweep'.step \in {"next", "broken"}
        /\ UNCHANGED <<graph, notices>>
    BY <1>3, PatchDoneMoves
  <2>2. QED BY <2>1, WorkIdle
<1>4. CASE PatchNotFound
  <2>1. /\ sweep'.step = "create" /\ sweep'.box = sweep.box
        /\ sweep.box \in Boxes /\ CommitRowsThen(sweep.box, Deleted)
        /\ UNCHANGED <<graph, notices>>
    BY <1>4, PatchNotFoundMoves
  <2>2. Committed'[sweep.box] = Nothing
    BY <2>1, AfterCommitThen
  <2>3. QED BY <2>1, <2>2, <1>0 DEF WorkSound, At, Live
<1>5. CASE Create
  <2>1. /\ sweep.step = "create" /\ sweep'.step = "created"
        /\ sweep'.box = sweep.box /\ sweep.box \in Boxes
        /\ FreshId \in Subs /\ Unused(FreshId)
        /\ \A s \in Subs \ {FreshId} : graph'[s] = graph[s]
        /\ UNCHANGED <<row, pend, notices>>
    BY <1>5, CreateMoves
  <2>2. Committed' = Committed
    BY <2>1, RowsStay
  <2>3. Committed[sweep.box] = Nothing
    BY <2>1 DEF WorkSound, At
  <2>4. \A n \in notices : n.sub \in Subs /\ n.sub # FreshId
    BY <2>1 DEF SubTypeOK, Unused
  <2>5. \A n \in notices : n.kind = "subscriptionRemoved" => graph'[n.sub] = Nothing
    BY <1>0, <2>1, <2>4
  <2>6. QED BY <2>1, <2>2, <2>3, <2>5 DEF WorkSound, At, Live
<1>6. CASE CreateDone \/ CallFails
  <2>1. sweep'.step = "next" /\ UNCHANGED <<graph, notices>>
    BY <1>6, NextBoxFields DEF CreateDone, CallFails
  <2>2. QED BY <2>1, WorkIdle
<1>7. CASE End \/ Break \/ Crash
  <2>1. sweep'.step = "off" /\ UNCHANGED <<graph, notices>>
    BY <1>7, AsleepFields DEF End, Break, Crash
  <2>2. QED BY <2>1, WorkIdle
<1>8. CASE Tick
  <2>1. /\ sweep'.step = "off" /\ UNCHANGED notices
        /\ \A s \in Subs : graph'[s] # Nothing => graph[s] # Nothing
    BY <1>8, TickMoves
  <2>2. QED BY <2>1, WorkIdle
<1>9. CASE \E b \in Boxes : Visit(b)
  <2>1. PICK b \in Boxes : Visit(b)
    BY <1>9
  <2>2. /\ b \in sweep.todo /\ UNCHANGED <<graph, row, pend, notices>>
        /\ \/ /\ row[b] = Nothing
              /\ sweep'.step = "create" /\ sweep'.box = b
           \/ sweep'.step = "next"
           \/ /\ row[b] # Nothing
              /\ sweep'.step = "patch" /\ sweep'.box = b
              /\ sweep'.sub = row[b].sub
    BY <2>1, VisitMoves
  <2>3. Committed' = Committed
    BY <2>2, RowsStay
  <2>4. Committed[b] = row[b]
    BY <2>2, CommittedRow DEF PendShape, Unread
  <2>5. QED BY <1>0, <2>2, <2>3, <2>4 DEF WorkSound, At, Live
<1>10. CASE \E b \in Boxes : OrphanGone(b)
  <2>1. PICK b \in Boxes : OrphanGone(b)
    BY <1>10
  <2>2. /\ sweep'.step = "next" /\ UNCHANGED notices
        /\ \A s \in Subs : graph'[s] # Nothing => graph[s] # Nothing
    BY <2>1, OrphanGoneMoves, OrphanMoves
  <2>3. QED BY <2>2, WorkIdle
<1>11. CASE \E b \in Boxes : OrphanKept(b)
  <2>1. PICK b \in Boxes : OrphanKept(b)
    BY <1>11
  <2>2. sweep'.step = "next" /\ UNCHANGED <<graph, notices>>
    BY <2>1, OrphanMoves DEF OrphanKept
  <2>3. QED BY <2>2, WorkIdle
<1>12. CASE \E s \in Subs : Drop(s)
  <2>1. PICK s \in Subs : Drop(s)
    BY <1>12
  <2>2. /\ graph'[s] = Nothing
        /\ \A t \in Subs \ {s} : graph'[t] = graph[t]
        /\ notices' \subseteq
             notices \cup {[kind |-> "subscriptionRemoved", sub |-> s]}
        /\ UNCHANGED <<row, pend, sweep>>
    BY <2>1, DropMoves
  <2>3. Committed' = Committed
    BY <2>2, RowsStay
  <2>4. \A n \in notices : n.sub \in Subs
    BY DEF SubTypeOK
  <2>5. \A n \in notices' : n.kind = "subscriptionRemoved" => graph'[n.sub] = Nothing
    BY <1>0, <2>2, <2>4
  <2>6. QED BY <2>2, <2>3, <2>5, WorkAside
<1>13. CASE \E s \in Subs : AskReauthorization(s)
  <2>1. PICK s \in Subs : AskReauthorization(s)
    BY <1>13
  <2>2. /\ notices' = notices \cup {[kind |-> "reauthorizationRequired", sub |-> s]}
        /\ UNCHANGED <<graph, row, pend, sweep>>
    BY <2>1 DEF AskReauthorization
  <2>3. Committed' = Committed
    BY <2>2, RowsStay
  <2>4. \A n \in notices' : n.kind = "subscriptionRemoved" => graph'[n.sub] = Nothing
    BY <1>0, <2>2
  <2>5. QED BY <2>2, <2>3, <2>4, WorkAside
<1>14. CASE \E n \in notices : Deliver(n)
  <2>1. PICK n \in notices : Deliver(n)
    BY <1>14
  <2>2. /\ notices' = notices \ {n} /\ UNCHANGED <<graph, sweep>>
        /\ \A b \in Boxes :
             \/ Committed'[b] = Committed[b]
             \/ /\ Committed[b] \in Row /\ Committed[b].sub = n.sub
                /\ IF n.kind = "subscriptionRemoved"
                   THEN Committed'[b] = Nothing
                   ELSE Committed'[b] \in Row /\ Committed'[b].sub = n.sub
    BY <2>1, DeliverMoves
  <2>3. \A b \in Boxes :
          \/ Committed'[b] = Committed[b]
          \/ /\ Committed[b] \in Row
             /\ \/ Committed'[b] = Nothing /\ graph[Committed[b].sub] = Nothing
                \/ /\ Committed'[b] \in Row
                   /\ Committed'[b].sub = Committed[b].sub
    BY <1>0, <2>2
  <2>4. \A m \in notices' : m.kind = "subscriptionRemoved" => graph'[m.sub] = Nothing
    BY <1>0, <2>2
  <2>5. QED BY <2>2, <2>3, <2>4, WorkAside
<1>15. CASE UNCHANGED <<graph, row, pend, sweep>> /\ notices' \subseteq notices
  <2>1. Committed' = Committed
    BY <1>15, RowsStay
  <2>2. \A n \in notices' : n.kind = "subscriptionRemoved" => graph'[n.sub] = Nothing
    BY <1>0, <1>15
  <2>3. QED BY <1>15, <2>1, <2>2, WorkAside
<1>16. QED
  BY <1>1, <1>2, <1>3, <1>4, <1>5, <1>6, <1>7, <1>8, <1>9, <1>10, <1>11, <1>12,
     <1>13, <1>14, <1>15, StepsOfSubNext DEF Lose, SetActive

-----------------------------------------------------------------------------
(* The subscriptions nobody has a row for.                                 *)

LEMMA StraysKept ==
  ASSUME SubTypeOK, SubTypeOK', StraysCounted, Strays' \subseteq Strays,
         faults' \in {faults, faults + 1}
  PROVE  StraysCounted'
<1>1. /\ IsFiniteSet(Strays') /\ Cardinality(Strays') <= Cardinality(Strays)
      /\ Cardinality(Strays) \in Nat /\ Cardinality(Strays') \in Nat
  BY FS_Subset, FS_CardinalityType DEF StraysCounted
<1>2. faults \in Nat /\ faults' \in Nat
  BY SubscriptionAssumption DEF SubTypeOK
<1>3. Cardinality(Strays') <= 2 * faults'
  BY <1>1, <1>2 DEF StraysCounted
<1>4. QED BY <1>1, <1>3 DEF StraysCounted

(* A fault leaves at most two. *)
LEMMA StraysGrow ==
  ASSUME SubTypeOK, StraysCounted, faults' = faults + 1, NEW x, NEW y,
         Strays' \subseteq Strays \cup {x, y}
  PROVE  StraysCounted'
<1> DEFINE T == Strays \cup {x}
           U == T \cup {y}
<1>1. IsFiniteSet(Strays) /\ Cardinality(Strays) \in Nat
  BY FS_CardinalityType DEF StraysCounted
<1>2. /\ IsFiniteSet(T) /\ Cardinality(T) \in Nat
      /\ Cardinality(T) <= Cardinality(Strays) + 1
  <2>1. IsFiniteSet(T) /\ (Cardinality(T) = Cardinality(Strays)
                           \/ Cardinality(T) = Cardinality(Strays) + 1)
    BY <1>1, FS_AddElement
  <2>2. QED BY <1>1, <2>1
<1> HIDE DEF T
<1>3. /\ IsFiniteSet(U) /\ Cardinality(U) \in Nat
      /\ Cardinality(U) <= Cardinality(T) + 1
  <2>1. IsFiniteSet(U) /\ (Cardinality(U) = Cardinality(T)
                           \/ Cardinality(U) = Cardinality(T) + 1)
    BY <1>2, FS_AddElement
  <2>2. QED BY <1>2, <2>1
<1>4. Strays' \subseteq U
  BY DEF T
<1> HIDE DEF U
<1>5. /\ IsFiniteSet(Strays') /\ Cardinality(Strays') <= Cardinality(U)
      /\ Cardinality(Strays') \in Nat
  BY <1>3, <1>4, FS_Subset, FS_CardinalityType
<1>6. faults \in Nat /\ Cardinality(Strays) <= 2 * faults
  BY SubscriptionAssumption DEF SubTypeOK, StraysCounted
<1>7. Cardinality(Strays') <= 2 * faults'
  BY <1>1, <1>2, <1>3, <1>5, <1>6
<1>8. QED BY <1>5, <1>7 DEF StraysCounted

(* No subscription Graph still holds loses its record. *)
LEMMA RecordsKept ==
  ASSUME \A s \in Subs : graph'[s] # Nothing => graph[s] # Nothing,
         \A b \in Boxes :
           Committed[b] # Nothing /\ graph'[Committed[b].sub] # Nothing =>
             Committed'[b] # Nothing /\ Committed'[b].sub = Committed[b].sub,
         sweep.sub \in Subs /\ graph'[sweep.sub] # Nothing =>
           \/ sweep'.sub = sweep.sub
           \/ \E b \in Boxes :
                Committed'[b] # Nothing /\ Committed'[b].sub = sweep.sub
  PROVE  Strays' \subseteq Strays
BY DEF Strays, Live, Recorded

(* As above, for the steps outside the sweep, and those of it that find no *)
(* subscription in hand.                                                   *)
LEMMA RowsKept ==
  ASSUME UNCHANGED sweep \/ sweep.sub = Nothing,
         \A s \in Subs : graph'[s] # Nothing => graph[s] # Nothing,
         \A b \in Boxes :
           Committed[b] # Nothing /\ graph'[Committed[b].sub] # Nothing =>
             Committed'[b] # Nothing /\ Committed'[b].sub = Committed[b].sub
  PROVE  Strays' \subseteq Strays
BY SubscriptionAssumption, RecordsKept

(* Steps in which nothing fails add none. *)
LEMMA SweepStrays ==
  ASSUME SubInv, SweepStep
  PROVE  Strays' \subseteq Strays
<1> USE DEF SubInv
<1>1. ASSUME NEW b \in Boxes, Committed[b] # Nothing
      PROVE  Committed[b] \in Row /\ Committed[b].sub \in Subs
  BY <1>1, CommittedRow DEF Row
<1>2. CASE Start
  <2>1. UNCHANGED <<graph, row, pend>> /\ sweep.sub = Nothing
    BY <1>2, StartMoves DEF SweepShape
  <2>2. Committed' = Committed
    BY <2>1, RowsStay
  <2>3. QED BY <2>1, <2>2, RowsKept
<1>3. CASE Patch
  <2>1. /\ sweep'.sub = sweep.sub /\ UNCHANGED <<row, pend>>
        /\ \A s \in Subs : graph'[s] # Nothing => graph[s] # Nothing
    BY <1>3, PatchMoves DEF Live
  <2>2. Committed' = Committed
    BY <2>1, RowsStay
  <2>3. QED BY <2>1, <2>2, RecordsKept
<1>4. CASE PatchDone
  <2> DEFINE r == [sub |-> sweep.sub, left |-> TTL]
  <2>1. /\ sweep.step = "patched" /\ sweep.box \in Boxes /\ sweep.sub \in Subs
        /\ r \in Row /\ r # Nothing /\ r.sub = sweep.sub /\ graph' = graph
    BY <1>4, PatchDoneMoves, SubscriptionAssumption
  <2>2. IF Committed[sweep.box] = Nothing THEN graph[sweep.sub] = Nothing
        ELSE Committed[sweep.box].sub = sweep.sub
    BY <2>1 DEF WorkSound, At, Live
  <2>3. \/ Committed[sweep.box] # Nothing /\ CommitRowsThen(sweep.box, r)
        \/ Committed[sweep.box] = Nothing /\ CommitRows
    BY <1>4, PatchDoneMoves
  <2> HIDE DEF r
  <2>4. CASE Committed[sweep.box] # Nothing /\ CommitRowsThen(sweep.box, r)
    <3>1. /\ \A c \in Boxes \ {sweep.box} : Committed'[c] = Committed[c]
          /\ Committed'[sweep.box] = r
      BY <2>1, <2>4, AfterCommitThen
    <3>2. QED BY <2>1, <2>2, <2>4, <3>1, RecordsKept
  <2>5. CASE Committed[sweep.box] = Nothing /\ CommitRows
    <3>1. \A c \in Boxes : Committed'[c] = Committed[c]
      BY <2>5, AfterCommit
    <3>2. QED BY <2>1, <2>2, <2>5, <3>1, RecordsKept
  <2>6. QED BY <2>3, <2>4, <2>5
<1>5. CASE PatchNotFound
  <2>1. /\ sweep.step = "patch" /\ sweep.box \in Boxes /\ sweep.sub \in Subs
        /\ graph[sweep.sub] = Nothing /\ graph' = graph
        /\ CommitRowsThen(sweep.box, Deleted)
    BY <1>5, PatchNotFoundMoves DEF Live
  <2>2. Committed[sweep.box] # Nothing => Committed[sweep.box].sub = sweep.sub
    BY <2>1 DEF WorkSound, At
  <2>3. \A c \in Boxes \ {sweep.box} : Committed'[c] = Committed[c]
    BY <2>1, AfterCommitThen
  <2>4. QED BY <2>1, <2>2, <2>3, RecordsKept
<1>6. CASE Create
  <2>1. /\ sweep'.sub = FreshId /\ sweep.sub = Nothing
        /\ \A s \in Subs \ {FreshId} : graph'[s] = graph[s]
        /\ UNCHANGED <<row, pend>>
    BY <1>6, CreateMoves
  <2>2. Committed' = Committed
    BY <2>1, RowsStay
  <2>3. QED BY <2>1, <2>2, SubscriptionAssumption DEF Strays, Live, Recorded
<1>7. CASE CreateDone
  <2> DEFINE r == [sub |-> sweep.sub, left |-> TTL]
  <2>1. /\ sweep.step = "created" /\ sweep.box \in Boxes /\ sweep.sub \in Subs
        /\ r \in Row /\ r # Nothing /\ r.sub = sweep.sub /\ graph' = graph
        /\ CommitRowsThen(sweep.box, r)
    BY <1>7, CreateDoneMoves, SubscriptionAssumption
  <2>2. Committed[sweep.box] = Nothing
    BY <2>1 DEF WorkSound, At
  <2> HIDE DEF r
  <2>3. /\ \A c \in Boxes \ {sweep.box} : Committed'[c] = Committed[c]
        /\ Committed'[sweep.box] = r
    BY <2>1, AfterCommitThen
  <2>4. QED BY <2>1, <2>2, <2>3, RecordsKept
<1>8. CASE End
  <2>1. sweep.sub = Nothing /\ graph' = graph /\ CommitRows
    BY <1>8 DEF End, SweepShape, At
  <2>2. \A c \in Boxes : Committed'[c] = Committed[c]
    BY <2>1, AfterCommit
  <2>3. QED BY <2>1, <2>2, RowsKept
<1>9. CASE Break
  <2>1. /\ sweep.sub = Nothing /\ graph' = graph /\ RollbackRows
        /\ pend = Clean
    BY <1>9 DEF Break, SweepShape, PendShape, At
  <2>2. \A c \in Boxes : Committed[c] = row[c]
    BY <2>1, CommittedRow DEF Clean
  <2>3. \A c \in Boxes : Committed'[c] = Committed[c]
    BY <2>1, <2>2, AfterRollback
  <2>4. QED BY <2>1, <2>3, RowsKept
<1>10. CASE \E b \in Boxes : Visit(b)
  <2>1. UNCHANGED <<graph, row, pend>> /\ sweep.sub = Nothing
    BY <1>10, VisitMoves DEF SweepShape
  <2>2. Committed' = Committed
    BY <2>1, RowsStay
  <2>3. QED BY <2>1, <2>2, RowsKept
<1>11. CASE \E b \in Boxes : OrphanGone(b)
  <2>1. PICK b \in Boxes : OrphanGone(b)
    BY <1>11
  <2>2. sweep.sub = Nothing
    BY <2>1, OrphanMoves DEF SweepShape
  <2>3. /\ \A c \in Boxes \ {b} : Committed'[c] = Committed[c]
        /\ Committed[b] # Nothing => graph'[Committed[b].sub] = Nothing
        /\ \A s \in Subs : graph'[s] # Nothing => graph[s] # Nothing
    BY <2>1, OrphanGoneMoves
  <2>4. QED BY <2>2, <2>3, RowsKept
<1>12. QED
  BY <1>2, <1>3, <1>4, <1>5, <1>6, <1>7, <1>8, <1>9, <1>10, <1>11
     DEF SweepStep

LEMMA StraysStep ==
  ASSUME SubInv, SubTypeOK', StraysCounted, SubNext
  PROVE  StraysCounted'
<1> USE DEF SubInv
<1>0. faults \in Nat
  BY SubscriptionAssumption DEF SubTypeOK
<1>1. CASE SweepStep
  <2>1. faults' = faults
    BY <1>1, OrphanGoneMoves
       DEF SweepStep, Start, Visit, Patch, PatchDone, PatchNotFound, Create,
           CreateDone, End, Break
  <2>2. QED BY <1>1, <2>1, SweepStrays, StraysKept
<1>2. CASE Tick
  <2>1. /\ UNCHANGED <<sweep, faults>>
        /\ \A s \in Subs : graph'[s] # Nothing => graph[s] # Nothing
        /\ \A b \in Boxes :
             IF Committed[b] = Nothing THEN Committed'[b] = Nothing
             ELSE Committed'[b] \in Row /\ Committed'[b].sub = Committed[b].sub
    BY <1>2, TickMoves
  <2>2. Strays' \subseteq Strays
    BY <2>1, RowsKept, SubscriptionAssumption
  <2>3. QED BY <2>1, <2>2, StraysKept
<1>3. CASE CallFails
  <2>1. /\ CommitRows /\ graph' = graph /\ faults' = faults + 1
    BY <1>3, FaultCounts DEF CallFails
  <2>2. \A b \in Boxes : Committed'[b] = Committed[b]
    BY <2>1, AfterCommit
  <2>3. Strays' \subseteq Strays \cup {sweep.sub, sweep.sub}
    BY <2>1, <2>2 DEF Strays, Live, Recorded
  <2>4. QED BY <2>1, <2>3, StraysGrow
<1>4. CASE Crash
  <2>1. /\ RollbackRows /\ graph' = graph /\ faults' = faults + 1
    BY <1>4, FaultCounts DEF Crash
  <2>2. \A b \in Boxes : pend[b] = Same => Committed'[b] = Committed[b]
    BY <2>1, AfterRollback, CommittedRow
  <2>3. CASE \A b \in Boxes : pend[b] = Same
    <3>1. Strays' \subseteq Strays \cup {sweep.sub, sweep.sub}
      BY <2>1, <2>2, <2>3 DEF Strays, Live, Recorded
    <3>2. QED BY <2>1, <3>1, StraysGrow
  <2>4. CASE \E b \in Boxes : pend[b] # Same
    <3>1. PICK d \in Boxes : pend[d] # Same
      BY <2>4
    <3>2. \A b \in Boxes \ {d} : Committed'[b] = Committed[b]
      BY <2>2, <3>1 DEF PendShape
    <3>3. Strays' \subseteq Strays \cup {sweep.sub, Committed[d].sub}
      BY <2>1, <3>2 DEF Strays, Live, Recorded
    <3>4. QED BY <2>1, <3>3, StraysGrow
  <2>5. QED BY <2>3, <2>4
<1>5. CASE \E b \in Boxes : OrphanKept(b)
  <2>1. PICK b \in Boxes : OrphanKept(b)
    BY <1>5
  <2>2. /\ CommitRows /\ graph' = graph /\ faults' = faults + 1
        /\ sweep.sub = Nothing
    BY <2>1, FaultCounts, OrphanMoves DEF OrphanKept, SweepShape
  <2>3. \A c \in Boxes : Committed'[c] = Committed[c]
    BY <2>2, AfterCommit
  <2>4. Strays' \subseteq Strays
    BY <2>2, <2>3, RowsKept
  <2>5. QED BY <2>2, <2>4, StraysKept
<1>6. CASE \E s \in Subs : Drop(s)
  <2>1. PICK s \in Subs : Drop(s)
    BY <1>6
  <2>2. /\ \A t \in Subs : graph'[t] # Nothing => graph[t] # Nothing
        /\ UNCHANGED <<row, pend, sweep>> /\ faults' = faults + 1
    BY <2>1, DropMoves, FaultCounts DEF Drop
  <2>3. Committed' = Committed
    BY <2>2, RowsStay
  <2>4. Strays' \subseteq Strays
    BY <2>2, <2>3, RowsKept
  <2>5. QED BY <2>2, <2>4, StraysKept
<1>7. CASE \E n \in notices : Deliver(n)
  <2>1. PICK n \in notices : Deliver(n)
    BY <1>7
  <2>2. /\ UNCHANGED <<graph, sweep, faults>>
        /\ \A b \in Boxes :
             \/ Committed'[b] = Committed[b]
             \/ /\ Committed[b] \in Row /\ Committed[b].sub = n.sub
                /\ IF n.kind = "subscriptionRemoved"
                   THEN Committed'[b] = Nothing
                   ELSE Committed'[b] \in Row /\ Committed'[b].sub = n.sub
    BY <2>1, DeliverMoves
  <2>3. n.kind = "subscriptionRemoved" => graph[n.sub] = Nothing
    BY DEF WorkSound, Live
  <2>4. \A b \in Boxes :
          Committed[b] # Nothing /\ graph'[Committed[b].sub] # Nothing =>
            Committed'[b] # Nothing /\ Committed'[b].sub = Committed[b].sub
    BY <2>2, <2>3, SubscriptionAssumption
  <2>5. Strays' \subseteq Strays
    BY <2>2, <2>4, RowsKept
  <2>6. QED BY <2>2, <2>5, StraysKept
<1>8. CASE \/ \E s \in Subs : AskReauthorization(s)
           \/ \E n \in notices : Lose(n)
           \/ \E u \in Users : SetActive(u)
  <2>1. /\ UNCHANGED <<graph, row, pend, sweep>>
        /\ faults' \in {faults, faults + 1}
    BY <1>8, FaultCounts DEF AskReauthorization, Lose, SetActive
  <2>2. Committed' = Committed
    BY <2>1, RowsStay
  <2>3. Strays' \subseteq Strays
    BY <2>1, <2>2, RowsKept
  <2>4. QED BY <2>1, <2>3, StraysKept
<1>9. QED
  BY <1>1, <1>2, <1>3, <1>4, <1>5, <1>6, <1>7, <1>8 DEF SubNext

-----------------------------------------------------------------------------
(* Without faults: what Graph holds and what the rows say of it.           *)

(* Steps that leave Graph and the rows alone, and no new box done. *)
LEMMA SteadyIdle ==
  ASSUME Steady, UNCHANGED <<graph, active, notices>>,
         sweep'.orphans = {}, sweep'.step # "broken",
         sweep'.step \notin {"patch", "patched", "created"},
         \A b \in Boxes : Committed'[b] = Committed[b],
         \A b \in Boxes : Done(b)' =>
           \/ Done(b)
           \/ Committed[b] # Nothing => Committed[b].left > Buffer
  PROVE  Steady'
BY DEF Steady, At, Live

(* A step that writes the row of a box with a whole lifetime ahead of it. *)
LEMMA SteadyRenewed ==
  ASSUME SubTypeOK, Steady, UNCHANGED <<graph, active, notices>>,
         sweep'.orphans = {}, sweep'.step = "next", sweep'.todo = sweep.todo,
         sweep.step # "off",
         NEW b \in Boxes, b = sweep.box, sweep'.box = Nothing,
         NEW r \in Row, r.left = TTL,
         graph[r.sub] # Nothing, graph[r.sub].left = TTL,
         \A c \in Boxes \ {b} : Committed'[c] = Committed[c],
         Committed'[b] = r
  PROVE  Steady'
<1>1. r.left > Buffer /\ graph[r.sub].left >= r.left
  BY SubscriptionAssumption
<1>2. \A c \in Boxes \ {b} : Done(c)' => Done(c)
  BY DEF Done, At
<1>3. \A c \in Boxes : Committed'[c] # Nothing =>
        /\ graph[Committed'[c].sub] # Nothing
        /\ graph[Committed'[c].sub].left >= Committed'[c].left
        /\ Done(c)' => Committed'[c].left > Buffer
  BY <1>1, <1>2 DEF Steady, Live
<1>4. QED BY <1>3 DEF Steady, At, Live

LEMMA SweepSteady ==
  ASSUME SubInv, Steady, SweepStep
  PROVE  Steady'
<1> USE DEF SubInv
<1>1. ASSUME NEW b \in Boxes, Committed[b] # Nothing
      PROVE  /\ Committed[b] \in Row /\ Committed[b].sub \in Subs
             /\ Committed[b].left \in 0..TTL /\ graph[Committed[b].sub] # Nothing
  BY <1>1, CommittedRow DEF Row, Steady, Live
<1>2. /\ notices = {} /\ active = Users /\ sweep.orphans = {}
      /\ sweep.step # "broken"
  BY DEF Steady, At
<1>3. CASE Start
  <2>1. /\ UNCHANGED <<graph, row, pend, active, notices>>
        /\ sweep'.step = "next" /\ sweep'.orphans = {} /\ sweep'.todo = Boxes
    BY <1>2, <1>3, StartMoves, SubscriptionAssumption
  <2>2. Committed' = Committed
    BY <2>1, RowsStay
  <2>3. \A b \in Boxes : ~Done(b)'
    BY <2>1 DEF Done, At
  <2>4. QED BY <2>1, <2>2, <2>3, SteadyIdle
<1>4. CASE Patch
  <2>1. /\ sweep.step = "patch" /\ sweep'.step = "patched"
        /\ sweep'.todo = sweep.todo /\ sweep'.orphans = sweep.orphans
        /\ sweep'.box = sweep.box /\ sweep'.sub = sweep.sub
        /\ sweep.sub \in Subs /\ sweep.box \in Boxes
        /\ graph'[sweep.sub] # Nothing /\ graph'[sweep.sub].left = TTL
        /\ \A s \in Subs \ {sweep.sub} : graph'[s] = graph[s]
        /\ UNCHANGED <<row, pend, active, swept, notices>>
    BY <1>4, PatchMoves DEF Live
  <2>2. Committed' = Committed
    BY <2>1, RowsStay
  <2>3. \A b \in Boxes : Done(b)' => Done(b)
    BY <2>1 DEF Done, At
  <2>4. ASSUME NEW b \in Boxes, Committed[b] # Nothing
        PROVE  /\ graph'[Committed[b].sub] # Nothing
               /\ graph'[Committed[b].sub].left >= Committed[b].left
               /\ Done(b)' => Committed[b].left > Buffer
    <3>1. /\ Committed[b].sub \in Subs /\ Committed[b].left \in 0..TTL
          /\ graph[Committed[b].sub] # Nothing
          /\ graph[Committed[b].sub].left >= Committed[b].left
          /\ Done(b)' => Committed[b].left > Buffer
      BY <1>1, <2>3, <2>4 DEF Steady
    <3>2. CASE Committed[b].sub = sweep.sub
      BY <2>1, <3>1, <3>2, SubscriptionAssumption
    <3>3. CASE Committed[b].sub # sweep.sub
      BY <2>1, <3>1, <3>3
    <3>4. QED BY <3>2, <3>3
  <2>5. Committed[sweep.box] # Nothing
    BY <2>1 DEF Steady, At
  <2>6. QED BY <1>2, <2>1, <2>2, <2>4, <2>5 DEF Steady, At, Live
<1>5. CASE PatchDone
  <2> DEFINE r == [sub |-> sweep.sub, left |-> TTL]
  <2>1. /\ sweep.step = "patched" /\ sweep.box \in Boxes
        /\ r \in Row /\ r.sub = sweep.sub /\ r.left = TTL
        /\ sweep'.todo = sweep.todo /\ sweep'.box = Nothing
        /\ UNCHANGED <<graph, active, notices>>
    BY <1>5, PatchDoneMoves
  <2>2. Committed[sweep.box] # Nothing
    BY <2>1 DEF Steady, At
  <2>3. /\ CommitRowsThen(sweep.box, r)
        /\ sweep'.step = "next" /\ sweep'.orphans = {}
    BY <1>2, <1>5, <2>2, PatchDoneMoves
  <2>4. graph[sweep.sub] # Nothing /\ graph[sweep.sub].left = TTL
    BY <2>1 DEF Steady, At, Live
  <2> HIDE DEF r
  <2>5. /\ \A c \in Boxes \ {sweep.box} : Committed'[c] = Committed[c]
        /\ Committed'[sweep.box] = r
    BY <2>1, <2>3, AfterCommitThen
  <2>6. QED BY <2>1, <2>3, <2>4, <2>5, SteadyRenewed
<1>6. CASE PatchNotFound
  <2>1. /\ sweep.step = "patch" /\ sweep.box \in Boxes
        /\ graph[sweep.sub] = Nothing
    BY <1>6, PatchNotFoundMoves DEF Live
  <2>2. Committed[sweep.box] # Nothing /\ Committed[sweep.box].sub = sweep.sub
    BY <2>1 DEF Steady, WorkSound, At
  <2>3. QED BY <1>1, <2>1, <2>2
<1>7. CASE Create
  <2>1. /\ sweep.step = "create" /\ sweep.box \in Boxes
        /\ FreshId \in Subs /\ Unused(FreshId)
        /\ graph'[FreshId] # Nothing /\ graph'[FreshId].left = TTL
        /\ \A s \in Subs \ {FreshId} : graph'[s] = graph[s]
        /\ sweep'.step = "created" /\ sweep'.sub = FreshId
        /\ sweep'.todo = sweep.todo /\ sweep'.orphans = sweep.orphans
        /\ sweep'.box = sweep.box
        /\ UNCHANGED <<row, pend, active, swept, notices>>
    BY <1>7, CreateMoves
  <2>2. Committed' = Committed
    BY <2>1, RowsStay
  <2>3. \A b \in Boxes : Done(b)' => Done(b)
    BY <2>1 DEF Done, At
  <2>4. graph[FreshId] = Nothing
    BY <2>1 DEF Unused, Live
  <2>5. ASSUME NEW b \in Boxes, Committed[b] # Nothing
        PROVE  /\ graph'[Committed[b].sub] # Nothing
               /\ graph'[Committed[b].sub].left >= Committed[b].left
               /\ Done(b)' => Committed[b].left > Buffer
    <3>1. graph'[Committed[b].sub] = graph[Committed[b].sub]
      BY <1>1, <2>1, <2>4, <2>5
    <3>2. QED BY <1>1, <2>3, <2>5, <3>1 DEF Steady
  <2>6. QED BY <1>2, <2>1, <2>2, <2>5 DEF Steady, At, Live
<1>8. CASE CreateDone
  <2> DEFINE r == [sub |-> sweep.sub, left |-> TTL]
  <2>1. /\ sweep.step = "created" /\ sweep.box \in Boxes
        /\ r \in Row /\ r.sub = sweep.sub /\ r.left = TTL
        /\ CommitRowsThen(sweep.box, r) /\ sweep' = NextBox
        /\ UNCHANGED <<graph, active, notices>>
    BY <1>8, CreateDoneMoves
  <2>2. /\ sweep'.todo = sweep.todo /\ sweep'.box = Nothing
        /\ sweep'.step = "next" /\ sweep'.orphans = {}
    BY <1>2, <2>1, NextBoxFields
  <2>3. graph[sweep.sub] # Nothing /\ graph[sweep.sub].left = TTL
    BY <2>1 DEF Steady, At, Live
  <2> HIDE DEF r
  <2>4. /\ \A c \in Boxes \ {sweep.box} : Committed'[c] = Committed[c]
        /\ Committed'[sweep.box] = r
    BY <2>1, AfterCommitThen
  <2>5. QED BY <2>1, <2>2, <2>3, <2>4, SteadyRenewed
<1>9. CASE End
  <2>1. /\ sweep.step = "next" /\ sweep.todo = {} /\ sweep.box = Nothing
        /\ CommitRows /\ sweep' = Asleep
        /\ UNCHANGED <<graph, active, notices>>
    BY <1>9 DEF End, SweepShape, At
  <2>2. \A b \in Boxes : Committed'[b] = Committed[b]
    BY <2>1, AfterCommit
  <2>3. \A b \in Boxes : Done(b)
    BY <2>1, SubscriptionAssumption DEF Done, At
  <2>4. QED BY <2>1, <2>2, <2>3, SteadyIdle, AsleepFields
<1>10. CASE Break
  BY <1>2, <1>10 DEF Break, At
<1>11. CASE \E b \in Boxes : Visit(b)
  <2>1. PICK b \in Boxes : Visit(b)
    BY <1>11
  <2>2. /\ sweep.step = "next" /\ b \in sweep.todo /\ sweep.box = Nothing
        /\ sweep'.todo = sweep.todo \ {b} /\ sweep'.orphans = {}
        /\ UNCHANGED <<graph, row, pend, active, notices>>
        /\ \/ sweep'.step = "create" /\ sweep'.box = b
           \/ /\ row[b] # Nothing /\ Fresh(row[b])
              /\ sweep'.step = "next" /\ sweep'.box = Nothing
           \/ row[b] # Nothing /\ sweep'.step = "patch" /\ sweep'.box = b
    BY <1>2, <2>1, VisitMoves DEF SweepShape
  <2>3. Committed' = Committed
    BY <2>2, RowsStay
  <2>4. Committed[b] = row[b]
    BY <2>2, CommittedRow DEF PendShape, Unread
  <2>5. ASSUME NEW c \in Boxes, Done(c)'
        PROVE  Done(c) \/ Committed[c].left > Buffer
    BY <2>2, <2>4, <2>5, SubscriptionAssumption DEF Done, At, Fresh
  <2>6. CASE sweep'.step # "patch"
    BY <2>2, <2>3, <2>5, <2>6, SteadyIdle
  <2>7. CASE sweep'.step = "patch"
    <3>1. sweep'.box = b /\ Committed[b] # Nothing
      BY <2>2, <2>4, <2>7
    <3>2. QED BY <2>2, <2>3, <2>5, <2>7, <3>1 DEF Steady, At, Live
  <2>8. QED BY <2>6, <2>7
<1>12. CASE \E b \in Boxes : OrphanGone(b)
  BY <1>2, <1>12 DEF OrphanGone, Orphan
<1>13. QED
  BY <1>3, <1>4, <1>5, <1>6, <1>7, <1>8, <1>9, <1>10, <1>11, <1>12
     DEF SweepStep

(* A period passes: a row that is still fresh after a sweep has more than  *)
(* one period left, and Graph gives it at least as many.                   *)
LEMMA TickSteady ==
  ASSUME SubInv, Steady, Tick
  PROVE  Steady'
<1> USE DEF SubInv
<1>1. /\ sweep.step = "off" /\ swept /\ ~swept'
      /\ \A s \in Subs :
           graph[s] # Nothing /\ graph[s].left > 1 =>
             graph'[s] # Nothing /\ graph'[s].left = graph[s].left - 1
      /\ \A b \in Boxes :
           IF Committed[b] = Nothing THEN Committed'[b] = Nothing
           ELSE /\ Committed[b] \in Row /\ Committed'[b] \in Row
                /\ Committed'[b].sub = Committed[b].sub
                /\ Committed'[b].left = Older(Committed[b].left)
      /\ UNCHANGED <<active, sweep, notices>>
  BY TickMoves
<1>2. ASSUME NEW b \in Boxes, Committed'[b] # Nothing
      PROVE  /\ graph'[Committed'[b].sub] # Nothing
             /\ graph'[Committed'[b].sub].left >= Committed'[b].left
             /\ ~Done(b)'
  <2>1. /\ Committed[b] # Nothing /\ Committed[b] \in Row
        /\ Committed'[b].sub = Committed[b].sub
        /\ Committed'[b].left = Older(Committed[b].left)
    BY <1>1, <1>2
  <2>2. /\ Committed[b].sub \in Subs /\ Committed[b].left \in 0..TTL
        /\ graph[Committed[b].sub] # Nothing
        /\ graph[Committed[b].sub].left >= Committed[b].left
        /\ Committed[b].left > Buffer
    BY <1>1, <2>1 DEF Steady, Done, At, Live, Row
  <2>3. graph[Committed[b].sub].left \in 1..TTL
    BY <2>2 DEF SubTypeOK, Remote
  <2>4. /\ graph[Committed[b].sub].left > 1 /\ Committed[b].left \in Nat
        /\ Committed[b].left # 0 /\ graph[Committed[b].sub].left \in Nat
    BY <2>2, <2>3, SubscriptionAssumption
  <2>5. Older(Committed[b].left) = Committed[b].left - 1
    BY <2>4 DEF Older
  <2>6. /\ graph'[Committed[b].sub] # Nothing
        /\ graph'[Committed[b].sub].left = graph[Committed[b].sub].left - 1
    BY <1>1, <2>2, <2>4
  <2>7. ~Done(b)'
    BY <1>1 DEF Done, At
  <2>8. QED BY <2>1, <2>2, <2>4, <2>5, <2>6, <2>7
<1>3. QED BY <1>1, <1>2 DEF Steady, At, Live

LEMMA SteadyStep ==
  ASSUME SubInv, faults = 0 => Steady, SubNext
  PROVE  (faults = 0 => Steady)'
<1> USE DEF SubInv
<1>1. SUFFICES ASSUME faults' = 0 PROVE Steady'
  OBVIOUS
<1>2. faults \in Nat
  BY SubscriptionAssumption DEF SubTypeOK
<1>3. ~Fault
  BY <1>1, <1>2 DEF Fault
<1>4. \/ SweepStep \/ Tick
      \/ \E n \in notices : Deliver(n) \/ Lose(n)
  BY <1>3 DEF SubNext, CallFails, Crash, OrphanKept, Drop, AskReauthorization,
              SetActive
<1>5. CASE SweepStep
  <2>1. faults' = faults
    BY <1>5, OrphanGoneMoves
       DEF SweepStep, Start, Visit, Patch, PatchDone, PatchNotFound, Create,
           CreateDone, End, Break
  <2>2. QED BY <1>1, <1>5, <2>1, SweepSteady
<1>6. CASE Tick
  BY <1>1, <1>6, TickSteady DEF Tick
<1>7. CASE \E n \in notices : Deliver(n) \/ Lose(n)
  <2>1. faults = 0
    BY <1>1, <1>7 DEF Deliver, Lose
  <2>2. QED BY <1>7, <2>1 DEF Steady
<1>8. QED BY <1>4, <1>5, <1>6, <1>7

-----------------------------------------------------------------------------
(* The inductive invariant of the subscriptions. *)
SubIInv == SubInv /\ StraysCounted /\ (faults = 0 => Steady)

LEMMA SubInitial == SubInit => SubIInv
<1> SUFFICES ASSUME SubInit PROVE SubIInv
  OBVIOUS
<1>1. /\ graph = [s \in Subs |-> Nothing] /\ row = [b \in Boxes |-> Nothing]
      /\ pend = Clean /\ active = Users /\ sweep = Asleep /\ swept = FALSE
      /\ notices = {} /\ faults = 0
  BY DEF SubInit, Clean
<1>2. SubTypeOK
  <2>1. pend \in [Boxes -> Row \cup {Same, Deleted}]
    BY <1>1 DEF Clean
  <2>2. /\ graph \in [Subs -> Remote \cup {Nothing}]
        /\ row \in [Boxes -> Row \cup {Nothing}]
    BY <1>1
  <2>3. faults \in 0..MaxFaults
    BY <1>1, SubscriptionAssumption
  <2>4. sweep \in Sweeps /\ swept \in BOOLEAN
    BY <1>1, AsleepFields
  <2>5. /\ active \subseteq Users
        /\ notices \subseteq
             [kind : {"subscriptionRemoved", "reauthorizationRequired"}, sub : Subs]
    BY <1>1
  <2>6. QED BY <2>1, <2>2, <2>3, <2>4, <2>5 DEF SubTypeOK
<1>3. \A b \in Boxes : Committed[b] = Nothing
  BY <1>1, <1>2, CommittedRow DEF Clean
<1>4. SweepShape /\ PendShape /\ WorkSound
  BY <1>1, AsleepFields, SubscriptionAssumption
     DEF SweepShape, PendShape, WorkSound, Clean, At
<1>5. StraysCounted
  <2>1. Strays = {}
    BY <1>1 DEF Strays, Live
  <2>2. IsFiniteSet({}) /\ Cardinality({}) = 0
    BY FS_EmptySet
  <2>3. QED BY <1>1, <2>1, <2>2 DEF StraysCounted
<1>6. Steady
  BY <1>1, <1>3, AsleepFields DEF Steady, At
<1>7. QED BY <1>2, <1>4, <1>5, <1>6 DEF SubIInv, SubInv

LEMMA SubStep == SubIInv /\ [SubNext]_subVars => SubIInv'
<1> SUFFICES ASSUME SubIInv, [SubNext]_subVars PROVE SubIInv'
  OBVIOUS
<1> USE DEF SubIInv
<1>1. CASE SubNext
  <2>1. SubTypeOK' /\ SweepShape' /\ PendShape' /\ WorkSound'
    BY <1>1, SubTypeStep, SweepShapeStep, PendShapeStep, WorkSoundStep
       DEF SubInv
  <2>2. StraysCounted'
    BY <1>1, <2>1, StraysStep
  <2>3. (faults = 0 => Steady)'
    BY <1>1, SteadyStep
  <2>4. QED BY <2>1, <2>2, <2>3 DEF SubInv
<1>2. CASE UNCHANGED subVars
  BY <1>2 DEF subVars, SubInv, SubTypeOK, SweepShape, PendShape, Unread, Clean,
              WorkSound, Committed, StraysCounted, Strays, Recorded, Steady,
              Done, At, Live
<1>3. QED BY <1>1, <1>2

(* The inductive invariant of the subscriptions holds. *)
THEOREM SubInvariant == SubSpec => []SubIInv
BY SubInitial, SubStep, PTL DEF SubSpec

(* No fault leaves more than two subscriptions without a row, and nothing  *)
(* else leaves any.                                                        *)
THEOREM StraysExplainedHolds == SubSpec => []StraysExplained
<1>1. SubIInv => StraysExplained
  BY DEF SubIInv, StraysCounted, Strays, StraysExplained
<1>2. QED BY <1>1, SubInvariant, PTL

(* While nothing fails, Graph holds every subscription on record.          *)
THEOREM NoGapsHolds == SubSpec => []NoGaps
<1>1. SubIInv => NoGaps
  BY DEF SubIInv, Steady, NoGaps
<1>2. QED BY <1>1, SubInvariant, PTL

-----------------------------------------------------------------------------
(* Rows and Graph agree on whose a subscription is.                        *)

Named(b, s) == Live(s) => graph[s].box = b

(* Whatever the database has of a box, or is about to have, is a           *)
(* subscription of that box as long as Graph holds it; so is what the      *)
(* sweep has in hand.                                                      *)
RowsNamed ==
  /\ \A b \in Boxes : \A r \in {row[b], pend[b]} : r \in Row => Named(b, r.sub)
  /\ sweep.sub \in Subs => Named(sweep.box, sweep.sub)

(* A notification that names a subscription on record is for the box the   *)
(* record says, and two boxes never have one live subscription.            *)
RowsNameTheirBox ==
  /\ \A b \in Boxes : row[b] # Nothing /\ Live(row[b].sub) =>
       graph[row[b].sub].box = b
  /\ \A b, c \in Boxes :
       row[b] # Nothing /\ row[c] # Nothing /\ Live(row[b].sub)
         /\ row[b].sub = row[c].sub => b = c

(* Only a creation says whose a subscription is. *)
LEMMA BoxesStay ==
  ASSUME SubTypeOK, SweepShape, SubNext, ~Create
  PROVE  \A s \in Subs : graph'[s] # Nothing =>
           graph[s] # Nothing /\ graph'[s].box = graph[s].box
<1>0. \A s \in Subs : graph[s] \in Remote \cup {Nothing}
  BY DEF SubTypeOK
<1>1. CASE Patch
  <2>1. sweep.sub \in Subs /\ graph[sweep.sub] \in Remote /\ graph[sweep.sub] # Nothing
    BY <1>0, <1>1, PatchMoves DEF Live
  <2>2. graph' = [graph EXCEPT ![sweep.sub] = [graph[sweep.sub] EXCEPT !.left = TTL]]
    BY <1>1 DEF Patch
  <2>3. [graph[sweep.sub] EXCEPT !.left = TTL].box = graph[sweep.sub].box
    BY <2>1 DEF Remote
  <2>4. QED BY <2>1, <2>2, <2>3 DEF SubTypeOK
<1>2. CASE Tick
  <2>1. SUFFICES ASSUME NEW s \in Subs, graph'[s] # Nothing
                 PROVE  graph[s] # Nothing /\ graph'[s].box = graph[s].box
    OBVIOUS
  <2>2. graph' = [t \in Subs |->
                   IF ~Live(t) \/ graph[t].left = 1 THEN Nothing
                   ELSE [graph[t] EXCEPT !.left = Older(@)]]
    BY <1>2 DEF Tick
  <2>3. graph[s] # Nothing /\ graph[s] \in Remote
        /\ graph'[s] = [graph[s] EXCEPT !.left = Older(@)]
    BY <1>0, <2>1, <2>2 DEF Live
  <2>4. QED BY <2>3 DEF Remote
<1>3. CASE \E b \in Boxes : OrphanGone(b)
  <2>1. PICK b \in Boxes : OrphanGone(b)
    BY <1>3
  <2>2. CASE row[b] = Nothing
    BY <2>1, <2>2 DEF OrphanGone
  <2>3. CASE row[b] # Nothing
    <3>1. graph' = [graph EXCEPT ![row[b].sub] = Nothing]
      BY <2>1, <2>3 DEF OrphanGone
    <3>2. QED BY <3>1 DEF SubTypeOK
  <2>4. QED BY <2>2, <2>3
<1>4. CASE \E s \in Subs : Drop(s)
  BY <1>4, DropMoves
<1>5. CASE UNCHANGED graph
  BY <1>5
<1>6. QED
  BY <1>1, <1>2, <1>3, <1>4, <1>5, StepsOfSubNext
     DEF Start, Visit, PatchDone, PatchNotFound, CreateDone, CallFails,
         OrphanKept, End, Break, Crash, AskReauthorization, Deliver, Lose,
         SetActive

(* A row comes from the row before it or from what was flushed over it,    *)
(* and what is flushed is the subscription in hand, for the box in hand.   *)
LEMMA RowsFrom ==
  ASSUME SubTypeOK, SweepShape, PendShape, SubNext, NEW b \in Boxes
  PROVE  /\ row'[b] \in Row => \E r \in {row[b], pend[b]} :
                                r \in Row /\ r.sub = row'[b].sub
         /\ pend'[b] \in Row =>
              \/ pend'[b] = pend[b]
              \/ b = sweep.box /\ sweep.sub \in Subs /\ pend'[b].sub = sweep.sub
<1>0. /\ Same \notin Row /\ Deleted \notin Row /\ Nothing \notin Row
      /\ row[b] \in Row \cup {Nothing}
  BY SubscriptionAssumption DEF SubTypeOK
<1>1. Committed[b] \in Row => Committed[b] \in {row[b], pend[b]}
  BY <1>0, CommittedRow
<1>2. ASSUME row' = Committed
      PROVE  row'[b] \in Row => \E r \in {row[b], pend[b]} :
                                r \in Row /\ r.sub = row'[b].sub
  BY <1>1, <1>2
<1>3. CASE CommitRows
  BY <1>0, <1>2, <1>3 DEF CommitRows, Clean
<1>4. CASE PatchDone \/ CreateDone
  <2>1. CASE CommitRowsThen(sweep.box, [sub |-> sweep.sub, left |-> TTL])
    <3>1. /\ sweep.box \in Boxes /\ sweep.sub \in Subs
          /\ row' = Committed
          /\ pend' = [Clean EXCEPT ![sweep.box] = [sub |-> sweep.sub, left |-> TTL]]
      BY <1>4, <2>1, PatchDoneMoves, CreateDoneMoves DEF CommitRowsThen
    <3>2. QED BY <1>0, <1>2, <3>1 DEF Clean
  <2>2. QED BY <1>3, <1>4, <2>1, PatchDoneMoves, CreateDoneMoves
<1>5. CASE PatchNotFound
  <2>1. /\ row' = Committed /\ sweep.box \in Boxes
        /\ pend' = [Clean EXCEPT ![sweep.box] = Deleted]
    BY <1>5, PatchNotFoundMoves DEF CommitRowsThen
  <2>2. QED BY <1>0, <1>2, <2>1 DEF Clean
<1>6. CASE \E c \in Boxes : OrphanGone(c)
  <2>1. PICK c \in Boxes : OrphanGone(c)
    BY <1>6
  <2>2. PICK r \in {Same, Deleted} :
          row' = Committed /\ pend' = [Clean EXCEPT ![c] = r]
    BY <2>1 DEF OrphanGone, CommitRowsThen
  <2>3. pend'[b] \in {Same, Deleted}
    BY <2>2 DEF Clean
  <2>4. QED BY <1>0, <1>2, <2>2, <2>3
<1>7. CASE Break \/ Crash
  BY <1>0, <1>7 DEF Break, Crash, RollbackRows, Clean
<1>8. CASE Tick
  <2>1. UNCHANGED pend
    BY <1>8 DEF Tick
  <2>2. row'[b] = IF row[b] = Nothing THEN Nothing
                  ELSE [row[b] EXCEPT !.left = Older(@)]
    BY <1>8 DEF Tick
  <2>3. CASE row[b] = Nothing
    BY <1>0, <2>1, <2>2, <2>3
  <2>4. CASE row[b] # Nothing
    <3>1. row[b] \in Row /\ row'[b] = [row[b] EXCEPT !.left = Older(@)]
      BY <1>0, <2>2, <2>4
    <3>2. row'[b].sub = row[b].sub
      BY <3>1 DEF Row
    <3>3. QED BY <2>1, <3>1, <3>2
  <2>5. QED BY <2>3, <2>4
<1>9. CASE \E n \in notices : Deliver(n)
  <2>1. PICK n \in notices : Deliver(n)
    BY <1>9
  <2>2. UNCHANGED pend
    BY <2>1 DEF Deliver
  <2>3. \/ row'[b] = row[b] \/ row'[b] = Nothing
        \/ row[b] # Nothing /\ row'[b] = [row[b] EXCEPT !.left = 0]
    BY <2>1 DEF Deliver
  <2>4. row[b] # Nothing => [row[b] EXCEPT !.left = 0].sub = row[b].sub
    BY <1>0 DEF Row
  <2>5. QED BY <1>0, <2>2, <2>3, <2>4
<1>10. CASE UNCHANGED <<row, pend>>
  BY <1>10
<1>11. QED
  BY <1>3, <1>4, <1>5, <1>6, <1>7, <1>8, <1>9, <1>10, StepsOfSubNext
     DEF Start, Visit, Patch, Create, CallFails, OrphanKept, End, Drop,
         AskReauthorization, Lose, SetActive

(* The subscription in hand stays, or comes from a row or a creation.      *)
LEMMA HandFrom ==
  ASSUME SubTypeOK, SweepShape, SubNext, ~Create, sweep'.sub \in Subs
  PROVE  \/ sweep'.sub = sweep.sub /\ sweep'.box = sweep.box
         \/ \E b \in Boxes : row[b] \in Row /\ sweep'.box = b
                           /\ sweep'.sub = row[b].sub
<1>0. Nothing \notin Subs
  BY SubscriptionAssumption
<1>1. CASE \E b \in Boxes : Visit(b)
  BY <1>0, <1>1, VisitMoves
<1>2. CASE Patch
  BY <1>2, PatchMoves
<1>3. CASE Start \/ PatchDone \/ PatchNotFound
  BY <1>0, <1>3, StartMoves, PatchDoneMoves, PatchNotFoundMoves
<1>4. CASE CreateDone \/ CallFails
  BY <1>0, <1>4, NextBoxFields DEF CreateDone, CallFails
<1>5. CASE End \/ Break \/ Crash
  BY <1>0, <1>5, AsleepFields DEF End, Break, Crash
<1>6. CASE \E b \in Boxes : OrphanGone(b) \/ OrphanKept(b)
  BY <1>0, <1>6, OrphanMoves
<1>7. CASE UNCHANGED sweep
  BY <1>7
<1>8. QED
  BY <1>1, <1>2, <1>3, <1>4, <1>5, <1>6, <1>7, StepsOfSubNext
     DEF Tick, Drop, AskReauthorization, Deliver, Lose, SetActive

LEMMA RowsNamedStep ==
  ASSUME SubInv, RowsNamed, SubNext
  PROVE  RowsNamed'
<1> USE DEF SubInv
<1>0. \A r \in Row : r.sub \in Subs
  BY DEF Row
<1>1. CASE Create
  <2>1. /\ FreshId \in Subs /\ Unused(FreshId)
        /\ \A s \in Subs \ {FreshId} : graph'[s] = graph[s]
        /\ sweep'.box = sweep.box /\ sweep'.sub = FreshId
        /\ UNCHANGED <<row, pend>>
    BY <1>1, CreateMoves
  <2>2. graph'[FreshId].box = sweep.box
    BY <1>1, <2>1 DEF Create, SubTypeOK
  <2>3. ASSUME NEW b \in Boxes, NEW r \in {row[b], pend[b]}, r \in Row
        PROVE  graph'[r.sub] # Nothing => graph'[r.sub].box = b
    BY <1>0, <2>1, <2>3 DEF Unused, RowsNamed, Named, Live
  <2>4. QED BY <2>1, <2>2, <2>3 DEF RowsNamed, Named, Live
<1>2. CASE ~Create
  <2>1. \A s \in Subs : graph'[s] # Nothing =>
          graph[s] # Nothing /\ graph'[s].box = graph[s].box
    BY <1>2, BoxesStay
  <2>2. ASSUME NEW b \in Boxes, NEW r \in {row'[b], pend'[b]}, r \in Row
        PROVE  graph[r.sub] # Nothing => graph[r.sub].box = b
    BY <2>2, RowsFrom DEF RowsNamed, Named, Live
  <2>3. sweep'.sub \in Subs =>
          (graph[sweep'.sub] # Nothing => graph[sweep'.sub].box = sweep'.box)
    BY <1>2, HandFrom DEF RowsNamed, Named, Live
  <2>4. QED BY <1>0, <2>1, <2>2, <2>3 DEF RowsNamed, Named, Live
<1>3. QED BY <1>1, <1>2

(* For any boxes and faults, a row names a subscription of its own box.    *)
THEOREM RowsNameTheirBoxHolds == SubSpec => []RowsNameTheirBox
<1>1. SubInit => RowsNamed
  BY SubscriptionAssumption DEF SubInit, RowsNamed, Asleep
<1>2. SubIInv /\ RowsNamed /\ [SubNext]_subVars => RowsNamed'
  <2>1. SubIInv /\ RowsNamed /\ SubNext => RowsNamed'
    BY RowsNamedStep DEF SubIInv
  <2>2. RowsNamed /\ UNCHANGED subVars => RowsNamed'
    BY DEF RowsNamed, Named, Live, subVars
  <2>3. QED BY <2>1, <2>2
<1>3. SubIInv /\ RowsNamed => RowsNameTheirBox
  <2>1. SubTypeOK => \A b \in Boxes : row[b] # Nothing => row[b] \in Row
    BY DEF SubTypeOK
  <2>2. QED BY <2>1 DEF SubIInv, SubInv, RowsNamed, Named, RowsNameTheirBox
<1>4. QED BY <1>1, <1>2, <1>3, SubInvariant, PTL DEF SubSpec
=============================================================================
