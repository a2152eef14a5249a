------------------------------- MODULE Tokens -------------------------------
(***************************************************************************)
(* The credentials the connectors work with: the Graph tokens of a user,   *)
(* the Xero tokens of the firm, or a plain key.  Sessions refresh a pair   *)
(* they read earlier, and a sign-in replaces it; the row they all write is *)
(* locked from the flush to the commit, and the audit log of the firm from *)
(* the append to the commit.  A Graph refresh takes them in the opposite   *)
(* order of the others, and PostgreSQL has to break the circle.            *)
(* ConnectorCalls says what a session does with its token.  A row is named *)
(* by its refresh token, and the n-th of those the provider issues is      *)
(* called n; an access token comes with each.                              *)
(***************************************************************************)
EXTENDS Naturals, FiniteSets

CONSTANTS Sessions, None,
          Vias,                            \* the kinds of credential looked at
          MaxIssued, MaxStarts, MaxFaults      \* bounds

ASSUME TokenAssumption ==
  /\ None \notin Nat \cup Sessions
  /\ Vias \subseteq {"graph", "xero", "key"}
  /\ MaxIssued \in Nat \ {0} /\ MaxStarts \in Nat /\ MaxFaults \in Nat

Issued == 0..MaxIssued
Rows == Issued \cup {None}

VARIABLES
  via,        \* the kind of credential: "graph", "xero" or "key"
  stored,     \* the refresh token, as committed
  users,      \* how many user rows have the Azure object id
  dead,       \* refresh tokens the provider no longer redeems
  issued,     \* how many the provider has issued after the first
  broken,     \* history: a token got lost, or all were revoked
  starts,     \* history: sign-ins begun, each with a state of its own
  states,     \* the states in Redis
  exchanges,  \* history: codes exchanged
  lock,       \* who holds the audit log of the firm
  sess,       \* what each session is doing
  faults

tokenVars == <<via, stored, users, dead, issued, broken, starts, states,
               exchanges, lock, sess, faults>>

Provider == <<via, dead, issued, broken>>
SignIns == <<starts, states, exchanges>>

(* No op is a sign-in.  row is what the session read, new the token it has *)
(* yet to commit, then where it goes after its audit entry; holds says it  *)
(* has flushed the row.                                                    *)
Asleep == [pc |-> "idle", op |-> None, mode |-> {}, seen |-> 0,
           row |-> None, new |-> None, then |-> "over", page |-> 0,
           holds |-> FALSE, slot |-> FALSE, client |-> FALSE]
Ended == [Asleep EXCEPT !.pc = "over"]

TokenInit ==
  /\ via \in Vias
  /\ \/ stored = 0 /\ users = 1
     \/ via = "graph" /\ stored = None /\ users = 0
  /\ dead = {} /\ issued = 0 /\ broken = FALSE
  /\ starts = 0 /\ states = 0 /\ exchanges = 0
  /\ lock = None
  /\ sess = [s \in Sessions |-> Asleep]
  /\ faults = 0

At(s, pc) == sess[s].pc = pc
Became(s, r) == sess' = [sess EXCEPT ![s] = r]
Goto(s, pc) ==
  Became(s, IF pc = "over" THEN Ended ELSE [sess[s] EXCEPT !.pc = pc])
AuditThen(s, pc) == sess' = [sess EXCEPT ![s].pc = "audit", ![s].then = pc]

-----------------------------------------------------------------------------
(* A session's token.                                                      *)

(* Where a session goes with its token: a Graph context is made before the *)
(* connector is called, a Xero token is looked for with every request.     *)
Ready == IF via = "graph" THEN "guard" ELSE "send"

(* The stored token has not expired when the session looks at it. *)
StoredToken(s) ==
  /\ At(s, "token") /\ sess[s].row # None
  /\ Goto(s, Ready)
  /\ UNCHANGED <<Provider, SignIns, stored, users, lock, faults>>

(* A key cannot be decrypted, or there is none. *)
NoKey(s) ==
  /\ At(s, "token") /\ via = "key"
  /\ Goto(s, "over")
  /\ UNCHANGED <<Provider, SignIns, stored, users, lock, faults>>

(* The token has expired, or there is none.  A key never does. *)
Refreshes(s) == At(s, "token") /\ via # "key"

(* No refresh token, or one the provider rejects: the user or the firm has *)
(* to connect again.                                                       *)
Rejected(s) ==
  /\ Refreshes(s)
  /\ sess[s].row \in dead \cup {None}
  /\ AuditThen(s, "over")
  /\ UNCHANGED <<Provider, SignIns, stored, users, lock, faults>>

(* The provider redeems the token the session read.  Xero kills it for a   *)
(* new one; Microsoft may leave it as it is.                               *)
Redeemed(s) ==
  /\ Refreshes(s)
  /\ sess[s].row \notin dead \cup {None}
  /\ \/ /\ issued < MaxIssued
        /\ issued' = issued + 1
        /\ dead' = IF via = "xero" THEN dead \cup {sess[s].row} ELSE dead
     \/ via = "graph" /\ UNCHANGED <<issued, dead>>

(* Mutant: only the new access token is stored, Xero's answer or not. *)
RefreshAccessOnly(s) ==
  /\ Redeemed(s)
  /\ sess' = [sess EXCEPT
       ![s].pc = "flush", ![s].then = Ready, ![s].new = sess[s].row]
  /\ UNCHANGED <<SignIns, via, stored, users, broken, lock, faults>>

(* Graph's refresh leaves the flush to append_audit, which locks the log   *)
(* first; Xero's flushes the row and then appends.                         *)
Refresh(s) ==
  /\ Redeemed(s)
  /\ sess' = [sess EXCEPT
       ![s].pc = IF via = "graph" THEN "audit" ELSE "flush", ![s].then = Ready,
       ![s].new = IF issued' = issued THEN sess[s].row ELSE issued']
  /\ UNCHANGED <<SignIns, via, stored, users, broken, lock, faults>>

(* A transient failure is audited.  The worker falls back on the stored    *)
(* token of the user; everybody else gives up.                             *)
GiveUp(s) ==
  \/ AuditThen(s, "over")
  \/ /\ via = "graph" /\ sess[s].row # None
     /\ AuditThen(s, Ready)

Unavailable(s) ==
  /\ Refreshes(s) /\ sess[s].row # None
  /\ faults < MaxFaults
  /\ faults' = faults + 1
  /\ GiveUp(s)
  /\ UNCHANGED <<Provider, SignIns, stored, users, lock>>

(* The provider has redeemed the token, but its answer does not arrive. *)
AnswerLost(s) ==
  /\ Redeemed(s)
  /\ faults < MaxFaults
  /\ faults' = faults + 1
  /\ broken' = TRUE
  /\ GiveUp(s)
  /\ UNCHANGED <<SignIns, via, stored, users, lock>>

-----------------------------------------------------------------------------
(* Writing the row and the audit log.                                      *)

Stores(s) == sess[s].new # None
Blocks(o, s) == o # s /\ sess[o].holds

(* A sign-in that found no user row inserts one. *)
Inserts(s) == sess[s].op = None /\ Stores(s) /\ sess[s].row = None

(* The new pair is flushed, once no other writer of the row is left. *)
Flush(s) ==
  /\ At(s, "flush")
  /\ \A o \in Sessions : ~Blocks(o, s)
  /\ ~(Inserts(s) /\ users > 0)
  /\ sess' = [sess EXCEPT ![s].holds = TRUE,
                          ![s].pc = IF lock = s THEN "commit" ELSE "audit"]
  /\ UNCHANGED <<Provider, SignIns, stored, users, lock, faults>>

(* The Azure object id is unique: a first sign-in that is no longer alone  *)
(* is turned away.                                                         *)
Conflict(s) ==
  /\ At(s, "flush") /\ Inserts(s) /\ users > 0
  /\ sess' = [sess EXCEPT ![s].pc = "audit", ![s].then = "over", ![s].new = None]
  /\ UNCHANGED <<Provider, SignIns, stored, users, lock, faults>>

(* append_audit waits for the lock of the firm. *)
Append(s) ==
  /\ At(s, "audit") /\ lock \in {None, s}
  /\ lock' = s
  /\ Goto(s, IF Stores(s) /\ ~sess[s].holds THEN "flush" ELSE "commit")
  /\ UNCHANGED <<Provider, SignIns, stored, users, faults>>

(* Mutant: the caller is to commit, after its own call. *)
CommitLeft(s) ==
  /\ At(s, "commit")
  /\ lock' = IF sess[s].then = "over" THEN None ELSE lock
  /\ stored' = IF Stores(s) THEN sess[s].new ELSE stored
  /\ users' = IF Inserts(s) THEN users + 1 ELSE users
  /\ Became(s, IF sess[s].then = "over" THEN Ended
               ELSE [sess[s] EXCEPT !.pc = sess[s].then, !.new = None,
                                    !.holds = FALSE])
  /\ UNCHANGED <<Provider, SignIns, faults>>

Commit(s) ==
  /\ At(s, "commit")
  /\ lock' = None
  /\ stored' = IF Stores(s) THEN sess[s].new ELSE stored
  /\ users' = IF Inserts(s) THEN users + 1 ELSE users
  /\ Became(s, IF sess[s].then = "over" THEN Ended
               ELSE [sess[s] EXCEPT !.pc = sess[s].then, !.new = None, !.holds = FALSE,
                                    !.row = IF Stores(s) THEN sess[s].new
                                            ELSE sess[s].row])
  /\ UNCHANGED <<Provider, SignIns, faults>>

(* Whoever holds the row waits for the log, and the other way round: one   *)
(* of the two is the victim of the deadlock detector.                      *)
Circle(s, o) ==
  /\ At(s, "audit") /\ lock = o
  /\ At(o, "flush") /\ Blocks(s, o)

Victim(s) ==
  /\ \E o \in Sessions \ {s} : Circle(s, o) \/ Circle(o, s)
  /\ broken' = TRUE
  /\ lock' = IF lock = s THEN None ELSE lock
  /\ Goto(s, "over")
  /\ UNCHANGED <<SignIns, via, stored, users, dead, issued, faults>>

-----------------------------------------------------------------------------
(* Sign-in.                                                                *)

(* auth_start puts a state into Redis. *)
Start ==
  /\ via = "graph" /\ starts < MaxStarts
  /\ starts' = starts + 1
  /\ states' = states + 1
  /\ UNCHANGED <<Provider, stored, users, exchanges, lock, sess, faults>>

(* Mutant: GET instead of GETDEL. *)
ConsumeKept(s) ==
  /\ At(s, "state") /\ states > 0
  /\ exchanges' = exchanges + 1 /\ states' = states
  /\ Goto(s, "exchange")
  /\ UNCHANGED <<Provider, stored, users, starts, lock, faults>>

(* The callback takes its state out of Redis, and will exchange the code. *)
Consume(s) ==
  /\ At(s, "state") /\ states > 0
  /\ states' = states - 1
  /\ exchanges' = exchanges + 1
  /\ Goto(s, "exchange")
  /\ UNCHANGED <<Provider, stored, users, starts, lock, faults>>

(* A state nobody issued, that has expired or was used before. *)
BadState(s) ==
  /\ At(s, "state")
  /\ Goto(s, "over")
  /\ UNCHANGED <<Provider, SignIns, stored, users, lock, faults>>

(* The code buys a token, and the user is looked up. *)
Exchange(s) ==
  /\ At(s, "exchange") /\ issued < MaxIssued
  /\ issued' = issued + 1
  /\ sess' = [sess EXCEPT
       ![s].pc = "flush", ![s].then = "over", ![s].row = stored,
       ![s].new = issued']
  /\ UNCHANGED <<SignIns, via, stored, users, dead, broken, lock, faults>>

ExchangeFails(s) ==
  /\ At(s, "exchange")
  /\ AuditThen(s, "over")
  /\ UNCHANGED <<Provider, SignIns, stored, users, lock, faults>>

-----------------------------------------------------------------------------
(* A password is reset, a consent withdrawn, a connection cut. *)
Revoke ==
  /\ via # "key" /\ ~broken /\ faults < MaxFaults
  /\ faults' = faults + 1
  /\ broken' = TRUE
  /\ dead' = 0..issued
  /\ UNCHANGED <<SignIns, via, stored, users, issued, lock, sess>>

(* The task is cancelled or the process dies: what is not committed is     *)
(* gone, and the locks are free.                                           *)
TokenDie(s) ==
  /\ sess[s].pc \notin {"idle", "over"} /\ faults < MaxFaults
  /\ faults' = faults + 1
  /\ broken' = (broken \/ Stores(s))
  /\ lock' = IF lock = s THEN None ELSE lock
  /\ Goto(s, "over")
  /\ UNCHANGED <<SignIns, via, stored, users, dead, issued>>

TokenStep(s) ==
  \/ StoredToken(s) \/ NoKey(s) \/ Rejected(s) \/ Unavailable(s) \/ AnswerLost(s)
  \/ Refresh(s) \/ Flush(s) \/ Conflict(s) \/ Victim(s) \/ Append(s) \/ Commit(s)
  \/ Consume(s) \/ BadState(s) \/ Exchange(s) \/ ExchangeFails(s)

World == Start \/ Revoke

-----------------------------------------------------------------------------
(* Xero honours a refresh token once.  The firm is never left with a used  *)
(* one, whatever sessions refresh at the same time from what they read     *)
(* long ago, unless the new one is about to be committed, its session died *)
(* or its answer got lost, or somebody revoked it.                         *)
DeadTokenExplained ==
  stored \in dead =>
    \/ broken
    \/ \E s \in Sessions : Stores(s)

(* A state buys one exchange, however often the browser calls back with    *)
(* it, and two first sign-ins of one person make one user.                 *)
StateUsedOnce == exchanges <= starts - states /\ users <= 1
=============================================================================
