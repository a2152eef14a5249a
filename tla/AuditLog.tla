------------------------------- MODULE AuditLog -------------------------------
(***************************************************************************)
(* The hash-chained audit log.  Every session that writes an entry takes   *)
(* the firm's transaction-level advisory lock, reads the newest entry it   *)
(* can see, inserts an entry that carries that entry's hash, and keeps the *)
(* lock until its transaction ends.  Ids come from a sequence, which does  *)
(* not roll back.  Sessions of the API, the worker and the one-shot sweeps *)
(* all write to the same log.                                              *)
(***************************************************************************)
EXTENDS Naturals, FiniteSets, Functions

CONSTANTS Firms,
          Sessions,     \* database sessions, in whatever process
          Contents,     \* what an entry says
          Keys,         \* advisory lock keys
          KeyOf,        \* the lock key of each firm, 32 bits of a hash
          Hash(_, _),   \* SHA-256 of the canonical entry and prev_hash
          GENESIS,      \* AUDIT_LOG_GENESIS_HASH
          None,
          MaxId         \* bound on the ids drawn from the sequence

ASSUME AuditAssumption ==
  /\ KeyOf \in [Firms -> Keys]
  /\ None \notin Firms \cup Sessions
  /\ MaxId \in Nat

VARIABLES
  rows,    \* the committed entries of all firms
  nextId,  \* the sequence behind audit_log.id
  firm,    \* the firm each session is writing for, or None
  own,     \* the entries each session has inserted and not committed
  holder   \* the session that holds each advisory lock, or None

vars == <<rows, nextId, firm, own, holder>>

Of(S, f) == {e \in S : e.firm = f}

Init ==
  /\ rows = {}
  /\ nextId = 1
  /\ firm = [s \in Sessions |-> None]
  /\ own = [s \in Sessions |-> {}]
  /\ holder = [k \in Keys |-> None]

(* A session enters append_audit and asks for the lock. *)
Ask(s, f) ==
  /\ firm[s] = None
  /\ firm' = [firm EXCEPT ![s] = f]
  /\ UNCHANGED <<rows, nextId, own, holder>>

Waiting(s) == firm[s] # None /\ holder[KeyOf[firm[s]]] # s

(* pg_advisory_xact_lock blocks while another session holds the key. *)
Acquire(s) ==
  /\ firm[s] # None
  /\ holder[KeyOf[firm[s]]] = None
  /\ holder' = [holder EXCEPT ![KeyOf[firm[s]]] = s]
  /\ UNCHANGED <<rows, nextId, firm, own>>

(* The hash of the newest entry in S, or the genesis hash. *)
Newest(h, S) ==
  \/ S = {} /\ h = GENESIS
  \/ \E d \in S : h = d.hash /\ \A c \in S : c.id <= d.id

(* Mutant: append_audit links to the newest entry without taking the lock. *)
AppendUnlocked(s, c, h) ==
  /\ firm[s] # None
  /\ nextId <= MaxId
  /\ Newest(h, Of(rows \cup own[s], firm[s]))
  /\ own' = [own EXCEPT ![s] = @ \cup
       {[id |-> nextId, firm |-> firm[s], content |-> c, prev |-> h,
         hash |-> Hash(c, h)]}]
  /\ nextId' = nextId + 1
  /\ UNCHANGED <<rows, firm, holder>>

(* Mutant: append_audit does not see what its own session has inserted. *)
AppendFromCommitted(s, c, h) ==
  /\ firm[s] # None /\ holder[KeyOf[firm[s]]] = s
  /\ nextId <= MaxId
  /\ Newest(h, Of(rows, firm[s]))
  /\ own' = [own EXCEPT ![s] = @ \cup
       {[id |-> nextId, firm |-> firm[s], content |-> c, prev |-> h,
         hash |-> Hash(c, h)]}]
  /\ nextId' = nextId + 1
  /\ UNCHANGED <<rows, firm, holder>>

(* The select sees what is committed and what the session has inserted     *)
(* itself; the insert is flushed but not committed.                        *)
AppendAudit(s, c, h) ==
  /\ firm[s] # None /\ holder[KeyOf[firm[s]]] = s
  /\ nextId <= MaxId
  /\ Newest(h, Of(rows \cup own[s], firm[s]))
  /\ own' = [own EXCEPT ![s] = @ \cup
       {[id |-> nextId, firm |-> firm[s], content |-> c, prev |-> h,
         hash |-> Hash(c, h)]}]
  /\ nextId' = nextId + 1
  /\ UNCHANGED <<rows, firm, holder>>

(* The end of a transaction releases its lock. *)
Released(s) == [k \in Keys |-> IF holder[k] = s THEN None ELSE holder[k]]

(* Mutant: a session that is rolled back keeps its advisory lock. *)
RollbackKeepsLock(s) ==
  /\ firm[s] # None
  /\ own' = [own EXCEPT ![s] = {}]
  /\ firm' = [firm EXCEPT ![s] = None]
  /\ UNCHANGED <<rows, nextId, holder>>

(* Commit(s): everything the session inserted becomes visible at once. *)
Commit(s) ==
  /\ firm[s] # None /\ holder[KeyOf[firm[s]]] = s
  /\ rows' = rows \cup own[s]
  /\ own' = [own EXCEPT ![s] = {}]
  /\ firm' = [firm EXCEPT ![s] = None]
  /\ holder' = Released(s)
  /\ UNCHANGED nextId

(* An error, a crash or a cancelled request: the ids it drew stay drawn. *)
Rollback(s) ==
  /\ firm[s] # None
  /\ own' = [own EXCEPT ![s] = {}]
  /\ firm' = [firm EXCEPT ![s] = None]
  /\ holder' = Released(s)
  /\ UNCHANGED <<rows, nextId>>

Write(s) ==
  LET seen == Of(rows \cup own[s], firm[s])
  IN \E c \in Contents, h \in {GENESIS} \cup {d.hash : d \in seen} :
       AppendAudit(s, c, h)

Next ==
  \E s \in Sessions :
    \/ \E f \in Firms : Ask(s, f)
    \/ Acquire(s) \/ Write(s) \/ Commit(s) \/ Rollback(s)

Spec == Init /\ [][Next]_vars

(* Transactions end, and PostgreSQL serves the waiters of a lock in turn. *)
FairSpec ==
  /\ Spec
  /\ \A s \in Sessions : WF_vars(Commit(s)) /\ SF_vars(Acquire(s))

-----------------------------------------------------------------------------
(* The stream of S: every entry, in id order. *)
Walks(S) ==
  {walk \in [1..Cardinality(S) -> S] :
     /\ \A i, j \in DOMAIN walk : i < j => walk[i].id < walk[j].id
     /\ S \subseteq Range(walk)}

(* verify_chain streams one statement's snapshot of a firm's entries and   *)
(* fails on the first whose prev_hash is not the hash of the one before it *)
(* or whose hash is not that of its content.                               *)
VerifyChain(f) ==
  \A walk \in Walks(Of(rows, f)) : \A i \in DOMAIN walk :
    /\ walk[i].prev = IF i = 1 THEN GENESIS ELSE walk[i - 1].hash
    /\ walk[i].hash = Hash(walk[i].content, walk[i].prev)

-----------------------------------------------------------------------------
Entry(e) == e.id \in Nat /\ e.firm \in Firms /\ e.content \in Contents

(* The values of the variables; a session that writes for no firm has no   *)
(* uncommitted entries.                                                    *)
TypeOK ==
  /\ nextId \in Nat
  /\ firm \in [Sessions -> Firms \cup {None}]
  /\ holder \in [Keys -> Sessions \cup {None}]
  /\ own = [s \in Sessions |-> own[s]]
  /\ \A e \in rows : Entry(e)
  /\ \A s \in Sessions : \A e \in own[s] : Entry(e)
  /\ \A s \in Sessions : firm[s] = None => own[s] = {}

(* A session with uncommitted entries holds the lock of the firm they are  *)
(* for, so one session at a time extends a firm's chain.                   *)
OneWriter ==
  \A s \in Sessions : own[s] # {} =>
    /\ holder[KeyOf[firm[s]]] = s
    /\ \A e \in own[s] : e.firm = firm[s]

(* The entry points at the newest of the older entries in S. *)
Linked(e, S) ==
  /\ e.hash = Hash(e.content, e.prev)
  /\ Newest(e.prev, {d \in S : d.id < e.id})

ChainOf(S) == \A e \in S : Linked(e, S)

(* However sessions interleave, roll back or die, the committed entries of *)
(* every firm form one chain without forks or gaps.                        *)
ChainIntact == \A f \in Firms : ChainOf(Of(rows, f))

(* verify_chain accepts the log at every moment: no correct history is     *)
(* reported as tampered with.                                              *)
VerifyAccepts == \A f \in Firms : VerifyChain(f)

(* History is closed: what is committed later sorts after everything the   *)
(* firm has committed before, so the newest hash of a day stands for all   *)
(* that went before it.                                                    *)
HistoryClosed ==
  [][\A e \in rows' \ rows, d \in rows : d.firm = e.firm => d.id < e.id]_vars

(* A session that asks for the lock gets its turn. *)
WaiterServed == \A s \in Sessions : Waiting(s) ~> ~Waiting(s)
=============================================================================
