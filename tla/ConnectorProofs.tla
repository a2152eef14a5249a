-------------------------- MODULE ConnectorProofs ---------------------------
(***************************************************************************)
(* Proofs about the connectors and their tokens, for any sessions, slots,  *)
(* tokens and methods called.                                              *)
(*                                                                         *)
(* A token that a session has been given and not committed is known to     *)
(* nobody else, so Xero cannot have used it up.                            *)
(***************************************************************************)
EXTENDS ConnectorCalls, TLAPS

Writing == {"flush", "audit", "commit"}

(* A session by itself. *)
Shape(x) ==
  /\ x.new # None => x.pc \in Writing
  /\ x.holds => x.new # None /\ x.pc # "flush"
  /\ x.new # None /\ x.pc = "commit" => x.holds
  /\ x.pc = "flush" => x.new # None
  /\ x.op = None /\ x.new # None /\ x.pc = "audit" => x.holds
  /\ x.pc \in Writing => x.then \in {Ready, "over"}
  /\ x.slot => \/ x.pc = "send"
               \/ x.pc \in {"audit", "commit"} /\ x.then = "over" /\ x.new = None
  /\ x.pc \in {"token", "guard", "slot", "send", "parse"} => x.op # None
  /\ x.pc \in {"state", "exchange"} => x.op = None /\ via = "graph"
  /\ x.op = None /\ x.pc \in Writing => x.then = "over" /\ via = "graph"
  /\ x.pc = "idle" => x = Asleep

(* The guard lies behind a session. *)
Passed(x) ==
  IF via = "graph" THEN x.pc \in {"slot", "send", "parse"}
  ELSE \/ x.pc \in {"token", "slot", "send", "parse"}
       \/ x.pc \in Writing /\ x.then # "over"

(* What it knows of the firm, and what a client knows of it. *)
Moded(x) ==
  x.op # None =>
    /\ x.seen <= toggles
    /\ x.seen = toggles => x.mode = mode
    /\ Passed(x) => ~(x.op.guarded /\ "shadow" \in x.mode)
    /\ x.client => x.op.write
    /\ x.pc \in {"token", "guard", "slot", "send"} => ~x.client
    /\ x.pc \in Writing /\ x.then # "over" => ~x.client

SessionsGood == \A s \in Sessions : Shape(sess[s]) /\ Moded(sess[s])

(* A session whose write is yet to be recorded. *)
Acted(x) ==
  /\ x.op # None /\ x.op.write /\ x.new = None
  /\ x.pc = "parse" \/ (x.pc \in {"audit", "commit"} /\ x.then = "over")

ActsGood == \A s \in acts : Acted(sess[s])

LocksGood ==
  /\ \A s \in Sessions : lock = s =>
       At(s, "commit") \/ (At(s, "flush") /\ sess[s].op # None)
  /\ \A s \in Sessions : At(s, "commit") => lock = s
  /\ \A s, o \in Sessions : sess[s].holds /\ sess[o].holds => s = o

UsersGood ==
  /\ users <= 1
  /\ \A s \in Sessions : Inserts(s) /\ sess[s].holds => users = 0

StatesGood == exchanges + states <= starts

(* What has been issued so far. *)
Known == 0..issued
KnownTokens ==
  /\ stored \in Known \cup {None} /\ dead \subseteq Known
  /\ \A s \in Sessions :
       sess[s].row \in Known \cup {None} /\ sess[s].new \in Known \cup {None}

(* The token s has been given is known to nobody else. *)
Fresh(s) ==
  /\ sess[s].new \notin dead /\ sess[s].new # stored
  /\ \A o \in Sessions : sess[o].row # sess[s].new
  /\ \A o \in Sessions : Stores(o) /\ sess[o].new = sess[s].new => o = s

TokensGood ==
  \/ broken
  \/ /\ via # "xero" => dead = {}
     /\ via = "xero" => \A s \in Sessions : Stores(s) => Fresh(s)
     /\ DeadTokenExplained

ConnectorInv ==
  /\ TypeOK /\ SessionsGood /\ ActsGood /\ LocksGood
  /\ UsersGood /\ StatesGood /\ KnownTokens /\ TokensGood

-----------------------------------------------------------------------------
(* The methods that write do not page, and all but one are guarded. *)
LEMMA OpFacts ==
  \A op \in Ops : /\ op.write => ~op.pages
                  /\ op.write /\ ~op.guarded => op = RegisterWebhook
<1> SUFFICES ASSUME NEW op \in Ops
             PROVE  /\ op.write => ~op.pages
                    /\ op.write /\ ~op.guarded => op = RegisterWebhook
  OBVIOUS
<1>1. CASE op \in {ListInbox, GetAttachment, ListCalendar, ListDriveItems,
                   DownloadDriveItem, MarkAsRead}
  <2>1. ListInbox.write = FALSE BY DEF ListInbox
  <2>2. MarkAsRead.guarded = TRUE /\ MarkAsRead.pages = FALSE
    BY DEF ListInbox, MarkAsRead
  <2>3. op = ListInbox \/ op = MarkAsRead
    BY <1>1 DEF GetAttachment, ListCalendar, ListDriveItems, DownloadDriveItem
  <2>4. QED BY <2>1, <2>2, <2>3
<1>2. CASE op \in {ListClients, ListJobs, ListInvoices, ListRelationships,
                   GetClient, GetInvoice, CreateClientNote}
  BY <1>2 DEF ListInbox, ListClients, ListJobs, ListInvoices,
     ListRelationships, GetClient, GetInvoice, CreateClientNote
<1>3. CASE op \in {ListEnvelopes, GetEnvelope, CreateEnvelope, SendReminder}
  BY <1>3 DEF ListInbox, ListEnvelopes, GetEnvelope, CreateEnvelope, SendReminder
<1>4. CASE op \in {RegisterWebhook, SendTeamsMessage}
  BY <1>4 DEF ListInbox, ListEnvelopes, RegisterWebhook, SendTeamsMessage
<1>5. QED BY <1>1, <1>2, <1>3, <1>4 DEF Ops

LEMMA AsleepType ==
  /\ Asleep \in SessionStates /\ Ended \in SessionStates
  /\ Asleep.pc = "idle" /\ Ended.pc = "over"
  /\ \A x \in {Asleep, Ended} :
       /\ x.op = None /\ x.new = None /\ x.row = None
       /\ ~x.holds /\ ~x.slot /\ ~x.client
<1>1. None \in Rows /\ 0 \in 0..MaxToggles /\ 0 \in Nat /\ {} \in SUBSET {"shadow", "sandbox"}
  BY ConnectorAssumption DEF Rows
<1>2. {"idle", "over"} \subseteq Pcs BY DEF Pcs
<1>3. Asleep \in SessionStates BY <1>1, <1>2 DEF Asleep, SessionStates
<1>4. Ended \in SessionStates BY <1>1, <1>2, <1>3 DEF Asleep, Ended, SessionStates
<1>5. QED BY <1>3, <1>4 DEF Asleep, Ended

LEMMA AtRest ==
  ASSUME NEW x \in {Asleep, Ended} PROVE Shape(x) /\ Moded(x)
BY AsleepType DEF Shape, Moded, Writing

LEMMA InitHolds == ASSUME Init PROVE ConnectorInv
<1>1. \A s \in Sessions : sess[s] = Asleep BY DEF Init, TokenInit
<1>2. TypeOK
  <2>1. sess \in [Sessions -> SessionStates] BY AsleepType DEF Init, TokenInit
  <2>2. via \in Vias /\ mode \in Modes /\ toggles \in 0..MaxToggles
    BY ConnectorAssumption DEF Init, TokenInit
  <2>3. stored \in Rows /\ users \in Nat
    BY TokenAssumption DEF Init, TokenInit, Rows, Issued
  <2>4. /\ dead \subseteq Issued /\ issued \in Issued /\ broken \in BOOLEAN
        /\ starts \in Nat /\ states \in Nat /\ exchanges \in Nat
        /\ lock \in Sessions \cup {None} /\ faults \in 0..MaxFaults
        /\ acts \subseteq Sessions
    <3>1. 0 \in Issued /\ 0 \in 0..MaxFaults BY TokenAssumption DEF Issued
    <3>2. QED BY <3>1 DEF Init, TokenInit
  <2>5. QED BY <2>1, <2>2, <2>3, <2>4 DEF TypeOK
<1>3. SessionsGood BY <1>1, AtRest DEF SessionsGood
<1>4. ActsGood /\ StatesGood BY DEF Init, TokenInit, ActsGood, StatesGood
<1>5. LocksGood
  BY <1>1, AsleepType, TokenAssumption DEF Init, TokenInit, LocksGood, At
<1>6. UsersGood BY <1>1, AsleepType DEF Init, TokenInit, UsersGood
<1>7. KnownTokens BY <1>1, AsleepType DEF Init, TokenInit, KnownTokens, Known
<1>8. TokensGood
  BY <1>1, AsleepType DEF Init, TokenInit, TokensGood, DeadTokenExplained, Stores
<1>9. QED BY <1>2, <1>3, <1>4, <1>5, <1>6, <1>7, <1>8 DEF ConnectorInv

-----------------------------------------------------------------------------
(* Steps that leave the tokens alone.                                      *)

(* A session with no token in hand may copy what is stored. *)
LEMMA TokensRest ==
  ASSUME ConnectorInv, NEW s \in Sessions, NEW x \in SessionStates,
         sess' = [sess EXCEPT ![s] = x],
         sess[s].new = None, x.new = None,
         x.row \in {sess[s].row, stored, None},
         UNCHANGED <<Provider, stored>>
  PROVE  TokensGood'
<1> USE DEF ConnectorInv
<1>1. sess'[s] = x /\ \A o \in Sessions \ {s} : sess'[o] = sess[o] BY DEF TypeOK
<1>2. CASE broken BY <1>2 DEF TokensGood, Provider
<1>3. CASE ~broken
  <2>1. \A o \in Sessions : Stores(o)' <=> Stores(o) BY <1>1 DEF Stores
  <2>2. \A o \in Sessions : sess'[o].new = sess[o].new BY <1>1
  <2>3. ASSUME via = "xero", NEW o \in Sessions, Stores(o) PROVE Fresh(o)'
    <3>1. Fresh(o) BY <1>3, <2>3 DEF TokensGood
    <3>2. \A q \in Sessions : sess'[q].row # sess[o].new
      BY <1>1, <2>3, <3>1 DEF Fresh, Stores
    <3>3. QED BY <2>1, <2>2, <3>1, <3>2 DEF Fresh, Provider
  <2>4. QED
    BY <1>3, <2>1, <2>3 DEF TokensGood, DeadTokenExplained, Provider
<1>4. QED BY <1>2, <1>3

(* A session that has no token in hand moves on, and takes none. *)
LEMMA QuietKeeps ==
  ASSUME ConnectorInv, NEW s \in Sessions, NEW x \in SessionStates,
         sess' = [sess EXCEPT ![s] = x],
         sess[s].new = None, sess[s].pc \notin {"flush", "commit"},
         x.new = None, x.pc # "commit", x.row \in {sess[s].row, stored, None},
         Shape(x), Moded(x),
         UNCHANGED <<Provider, stored, users, lock, mode, toggles>>,
         StatesGood', starts' \in Nat, states' \in Nat, exchanges' \in Nat,
         faults' \in 0..MaxFaults,
         acts' \subseteq acts \cup {s}, s \in acts' => Acted(x)
  PROVE  ConnectorInv'
<1> USE DEF ConnectorInv
<1>1. sess'[s] = x /\ \A o \in Sessions \ {s} : sess'[o] = sess[o] BY DEF TypeOK
<1>2. TypeOK' BY DEF TypeOK, Provider, Modes
<1>3. SessionsGood'
  BY <1>1 DEF SessionsGood, Shape, Moded, Passed, Ready, Provider
<1>4. ActsGood' BY <1>1 DEF ActsGood, Acted, TypeOK
<1>5. ~sess[s].holds /\ ~x.holds BY DEF SessionsGood, Shape
<1>6. LocksGood'
  BY <1>1, <1>5 DEF LocksGood, At
<1>7. UsersGood' BY <1>1, <1>5 DEF UsersGood, Inserts, Stores
<1>8. KnownTokens' BY <1>1 DEF KnownTokens, Known, Provider
<1>9. TokensGood' BY TokensRest
<1>10. QED BY <1>2, <1>3, <1>4, <1>6, <1>7, <1>8, <1>9

(* Facts about a session that has not acted and has no token in hand. *)
LEMMA Idle ==
  ASSUME ConnectorInv, NEW s \in Sessions,
         sess[s].pc \notin Writing \cup {"parse"}
  PROVE  s \notin acts /\ sess[s].new = None /\ ~sess[s].holds
BY DEF ConnectorInv, SessionsGood, Shape, ActsGood, Acted, Writing

LEMMA TypesKept ==
  ASSUME ConnectorInv, SignIns' = SignIns
  PROVE  /\ StatesGood' /\ starts' \in Nat /\ states' \in Nat /\ exchanges' \in Nat
BY DEF ConnectorInv, StatesGood, TypeOK, SignIns

(* A session that ends without having changed anything. *)
LEMMA EndKeeps ==
  ASSUME ConnectorInv, NEW s \in Sessions,
         sess' = [sess EXCEPT ![s] = Ended],
         sess[s].new = None, sess[s].pc \notin {"flush", "commit"},
         UNCHANGED <<Provider, SignIns, stored, users, lock, mode, toggles>>,
         faults' \in 0..MaxFaults,
         acts' \subseteq acts \ {s}
  PROVE  ConnectorInv'
<1> DEFINE x == Ended
<1>1. x \in SessionStates /\ x.pc = "over" /\ x.new = None /\ x.row = None
  BY AsleepType
<1>2. Shape(x) /\ Moded(x) BY AtRest
<1>3. sess' = [sess EXCEPT ![s] = x] /\ s \notin acts' /\ acts' \subseteq acts \cup {s}
  OBVIOUS
<1>4. UNCHANGED <<Provider, stored, users, lock, mode, toggles>> /\ SignIns' = SignIns
  OBVIOUS
<1>5. /\ StatesGood' /\ starts' \in Nat /\ states' \in Nat /\ exchanges' \in Nat
  BY <1>4, TypesKept
<1> HIDE DEF x
<1>6. QED BY <1>1, <1>2, <1>3, <1>4, <1>5, QuietKeeps

(* A session that has an audit entry to write and no token to store. *)
LEMMA AuditKeeps ==
  ASSUME ConnectorInv, NEW s \in Sessions, NEW x \in SessionStates,
         NEW then \in {Ready, "over"},
         sess' = [sess EXCEPT ![s] = x],
         x = [sess[s] EXCEPT !.pc = "audit", !.then = then,
                             !.slot = x.slot, !.client = x.client],
         sess[s].new = None, sess[s].pc \notin Writing,
         x.slot => then = "over" /\ sess[s].slot,
         x.client => then = "over" /\ (x.op # None => x.op.write),
         then # "over" => x.op # None /\ via = "graph",
         sess[s].op = None => via = "graph" /\ then = "over",
         UNCHANGED <<Provider, SignIns, stored, users, lock, mode, toggles>>,
         faults' \in 0..MaxFaults,
         acts' \subseteq acts \cup {s},
         s \in acts' => x.op # None /\ x.op.write /\ then = "over"
  PROVE  ConnectorInv'
<1>1. sess[s] \in SessionStates BY DEF ConnectorInv, TypeOK
<1>2. /\ x.pc = "audit" /\ x.then = then /\ x.new = None /\ x.row = sess[s].row
      /\ x.holds = sess[s].holds /\ x.op = sess[s].op
      /\ x.mode = sess[s].mode /\ x.seen = sess[s].seen
  BY <1>1 DEF SessionStates
<1>3. Shape(sess[s]) /\ Moded(sess[s]) BY DEF ConnectorInv, SessionsGood
<1>4. ~x.holds BY <1>2, <1>3 DEF Shape
<1>5. Shape(x) BY <1>2, <1>4 DEF Shape, Writing
<1>6. Moded(x)
  <2>1. ~Passed(x) \/ then # "over" BY <1>2 DEF Passed
  <2>2. ~Passed(x)
    BY <1>2, <2>1 DEF Passed
  <2>3. QED BY <1>2, <1>3, <2>2 DEF Moded
<1>7. s \in acts' => Acted(x) BY <1>2 DEF Acted
<1>8. /\ StatesGood' /\ starts' \in Nat /\ states' \in Nat /\ exchanges' \in Nat
  BY TypesKept
<1>9. sess[s].pc \notin {"flush", "commit"} /\ x.pc # "commit" BY <1>2 DEF Writing
<1>10. UNCHANGED <<Provider, stored, users, lock, mode, toggles>> OBVIOUS
<1>11. QED
  BY <1>2, <1>5, <1>6, <1>7, <1>8, <1>9, <1>10, QuietKeeps

-----------------------------------------------------------------------------
(* Each of the quiet steps.                                                *)

LEMMA StoredTokenKeeps ==
  ASSUME ConnectorInv, NEW s \in Sessions, StoredToken(s), UNCHANGED callVars
  PROVE  ConnectorInv'
<1> DEFINE x == [sess[s] EXCEPT !.pc = Ready]
<1>1. sess[s] \in SessionStates /\ Shape(sess[s]) /\ Moded(sess[s])
  BY DEF ConnectorInv, TypeOK, SessionsGood
<1>2. sess[s].pc = "token" /\ Ready \in {"guard", "send"} /\ Ready # "over"
  BY DEF StoredToken, At, Ready
<1>3. sess' = [sess EXCEPT ![s] = x]
  BY <1>2 DEF StoredToken, Goto, Became
<1>4. x \in SessionStates BY <1>1, <1>2 DEF SessionStates, Pcs
<1>5. /\ x.pc = Ready /\ x.row = sess[s].row /\ x.new = sess[s].new
      /\ x.op = sess[s].op /\ x.mode = sess[s].mode /\ x.seen = sess[s].seen
      /\ x.holds = sess[s].holds /\ x.slot = sess[s].slot
      /\ x.client = sess[s].client
  BY <1>1 DEF SessionStates
<1>6. s \notin acts /\ sess[s].new = None /\ ~sess[s].holds
  BY <1>2, Idle DEF Writing
<1> HIDE DEF x
<1>7. Shape(x) BY <1>1, <1>2, <1>5, <1>6 DEF Shape, Writing
<1>8. Moded(x) BY <1>1, <1>2, <1>5 DEF Moded, Passed, Writing, Ready
<1>9. /\ StatesGood' /\ starts' \in Nat /\ states' \in Nat /\ exchanges' \in Nat
      /\ faults' \in 0..MaxFaults
  BY TypesKept DEF StoredToken, ConnectorInv, TypeOK
<1>10. UNCHANGED <<Provider, stored, users, lock, mode, toggles>> /\ acts' = acts
  BY DEF StoredToken, callVars
<1>11. QED
  BY <1>2, <1>3, <1>4, <1>5, <1>6, <1>7, <1>8, <1>9, <1>10, QuietKeeps

LEMMA TokenEndsKeeps ==
  ASSUME ConnectorInv, NEW s \in Sessions, NoKey(s) \/ BadState(s),
         UNCHANGED callVars
  PROVE  ConnectorInv'
<1>1. sess[s].pc \in {"token", "state"} BY DEF NoKey, BadState, At
<1>2. s \notin acts /\ sess[s].new = None BY <1>1, Idle DEF Writing
<1>3. sess' = [sess EXCEPT ![s] = Ended] BY DEF NoKey, BadState, Goto, Became
<1>4. /\ UNCHANGED <<Provider, SignIns, stored, users, lock, mode, toggles>>
      /\ acts' \subseteq acts \ {s} /\ faults' \in 0..MaxFaults
  BY <1>2 DEF NoKey, BadState, callVars, ConnectorInv, TypeOK
<1>5. QED BY <1>1, <1>2, <1>3, <1>4, EndKeeps

LEMMA TokenAuditKeeps ==
  ASSUME ConnectorInv, NEW s \in Sessions,
         Rejected(s) \/ Unavailable(s) \/ ExchangeFails(s),
         UNCHANGED callVars
  PROVE  ConnectorInv'
<1>1. sess[s].pc \in {"token", "exchange"}
  BY DEF Rejected, Unavailable, ExchangeFails, Refreshes, At
<1>2. /\ s \notin acts /\ sess[s].new = None
      /\ sess[s] \in SessionStates /\ Shape(sess[s]) /\ Moded(sess[s])
  BY <1>1, Idle DEF Writing, ConnectorInv, TypeOK, SessionsGood
<1>3. PICK then \in {Ready, "over"} :
        /\ AuditThen(s, then)
        /\ then # "over" => via = "graph" /\ sess[s].pc = "token"
  BY DEF Rejected, Unavailable, ExchangeFails, GiveUp, Refreshes, At
<1> DEFINE x == [sess[s] EXCEPT !.pc = "audit", !.then = then]
<1>4. sess' = [sess EXCEPT ![s] = x]
  BY <1>3 DEF AuditThen, ConnectorInv, TypeOK
<1>5. x \in SessionStates BY <1>2 DEF SessionStates, Pcs, Ready
<1>6. x.slot = sess[s].slot /\ x.client = sess[s].client /\ x.op = sess[s].op
  BY <1>2 DEF SessionStates
<1>7. x = [sess[s] EXCEPT !.pc = "audit", !.then = then,
                          !.slot = x.slot, !.client = x.client]
  BY <1>2, <1>6 DEF SessionStates
<1>8. ~x.slot BY <1>1, <1>2, <1>6 DEF Shape
<1>9. x.op # None => ~x.client BY <1>1, <1>2, <1>6 DEF Shape, Moded
<1>10. sess[s].op = None => via = "graph" /\ then = "over"
  BY <1>1, <1>2, <1>3 DEF Shape
<1>11. then # "over" => x.op # None BY <1>2, <1>3, <1>6 DEF Shape
<1>12. /\ UNCHANGED <<Provider, SignIns, stored, users, lock, mode, toggles>>
       /\ acts' = acts /\ faults' \in 0..MaxFaults
  BY TokenAssumption
  DEF Rejected, Unavailable, ExchangeFails, callVars, ConnectorInv, TypeOK
<1>13. sess[s].pc \notin Writing BY <1>1 DEF Writing
<1> HIDE DEF x
<1>14. QED
  BY <1>2, <1>3, <1>4, <1>5, <1>6, <1>7, <1>8, <1>9, <1>10, <1>11, <1>12,
     <1>13, AuditKeeps

LEMMA ConsumeKeeps ==
  ASSUME ConnectorInv, NEW s \in Sessions, Consume(s), UNCHANGED callVars
  PROVE  ConnectorInv'
<1> DEFINE x == [sess[s] EXCEPT !.pc = "exchange"]
<1>1. sess[s] \in SessionStates /\ Shape(sess[s]) /\ Moded(sess[s])
  BY DEF ConnectorInv, TypeOK, SessionsGood
<1>2. sess[s].pc = "state" BY DEF Consume, At
<1>3. sess' = [sess EXCEPT ![s] = x] BY DEF Consume, Goto, Became
<1>4. x \in SessionStates BY <1>1 DEF SessionStates, Pcs
<1>5. /\ x.pc = "exchange" /\ x.row = sess[s].row /\ x.new = sess[s].new
      /\ x.op = sess[s].op /\ x.holds = sess[s].holds /\ x.slot = sess[s].slot
  BY <1>1 DEF SessionStates
<1>6. s \notin acts /\ sess[s].new = None /\ ~sess[s].holds
  BY <1>2, Idle DEF Writing
<1> HIDE DEF x
<1>7. Shape(x) BY <1>1, <1>2, <1>5, <1>6 DEF Shape, Writing
<1>8. Moded(x) BY <1>1, <1>2, <1>5 DEF Moded, Shape
<1>9. /\ starts' = starts /\ states' = states - 1 /\ exchanges' = exchanges + 1
      /\ states > 0
  BY DEF Consume
<1>10. /\ StatesGood' /\ starts' \in Nat /\ states' \in Nat /\ exchanges' \in Nat
  BY <1>9 DEF ConnectorInv, TypeOK, StatesGood
<1>11. /\ UNCHANGED <<Provider, stored, users, lock, mode, toggles>>
       /\ acts' = acts /\ faults' \in 0..MaxFaults
  BY DEF Consume, callVars, ConnectorInv, TypeOK
<1>12. QED
  BY <1>2, <1>3, <1>4, <1>5, <1>6, <1>7, <1>8, <1>10, <1>11, QuietKeeps

LEMMA LoadKeeps ==
  ASSUME ConnectorInv, NEW s \in Sessions, NEW op \in Ops, Load(s, op)
  PROVE  ConnectorInv'
<1> DEFINE x == [sess[s] EXCEPT
                   !.pc = IF via = "graph" THEN "token" ELSE "guard",
                   !.op = op, !.mode = mode, !.seen = toggles, !.row = stored]
<1>1. /\ sess[s] \in SessionStates /\ Shape(sess[s])
      /\ toggles \in 0..MaxToggles /\ stored \in Rows
      /\ mode \in SUBSET {"shadow", "sandbox"}
  BY DEF ConnectorInv, TypeOK, SessionsGood, Modes
<1>2. sess[s].pc = "idle" BY DEF Load, At
<1>3. sess' = [sess EXCEPT ![s] = x] BY DEF Load
<1>4. x \in SessionStates BY <1>1 DEF SessionStates, Pcs
<1>5. /\ x.pc = IF via = "graph" THEN "token" ELSE "guard"
      /\ x.op = op /\ x.mode = mode /\ x.seen = toggles /\ x.row = stored
      /\ x.new = sess[s].new /\ x.holds = sess[s].holds
      /\ x.slot = sess[s].slot /\ x.client = sess[s].client
  BY <1>1 DEF SessionStates
<1>6. s \notin acts /\ sess[s].new = None /\ ~sess[s].holds
  BY <1>2, Idle DEF Writing
<1>7. op # None BY ConnectorAssumption
<1> HIDE DEF x
<1>8. Shape(x) BY <1>1, <1>2, <1>5, <1>6, <1>7 DEF Shape, Writing
<1>9. Moded(x)
  <2>1. ~x.client BY <1>1, <1>2, <1>5, AsleepType DEF Shape
  <2>2. ~Passed(x) BY <1>5 DEF Passed, Writing
  <2>3. QED BY <1>1, <1>5, <2>1, <2>2 DEF Moded
<1>10. /\ StatesGood' /\ starts' \in Nat /\ states' \in Nat /\ exchanges' \in Nat
       /\ UNCHANGED <<Provider, stored, users, lock, mode, toggles>>
       /\ acts' = acts /\ faults' \in 0..MaxFaults
  BY TypesKept DEF Load, Keep, callVars, ConnectorInv, TypeOK
<1>11. QED
  BY <1>2, <1>3, <1>4, <1>5, <1>6, <1>8, <1>9, <1>10, QuietKeeps

LEMMA LoadSignInKeeps ==
  ASSUME ConnectorInv, NEW s \in Sessions, LoadSignIn(s) PROVE ConnectorInv'
<1> DEFINE x == [sess[s] EXCEPT !.pc = "state"]
<1>1. sess[s] \in SessionStates /\ Shape(sess[s]) /\ Moded(sess[s])
  BY DEF ConnectorInv, TypeOK, SessionsGood
<1>2. sess[s].pc = "idle" /\ via = "graph" BY DEF LoadSignIn, At
<1>3. sess' = [sess EXCEPT ![s] = x] BY DEF LoadSignIn, Goto, Became
<1>4. x \in SessionStates BY <1>1 DEF SessionStates, Pcs
<1>5. /\ x.pc = "state" /\ x.row = sess[s].row /\ x.new = sess[s].new
      /\ x.op = sess[s].op /\ x.holds = sess[s].holds /\ x.slot = sess[s].slot
  BY <1>1 DEF SessionStates
<1>6. s \notin acts /\ sess[s].new = None /\ ~sess[s].holds
  BY <1>2, Idle DEF Writing
<1> HIDE DEF x
<1>7. x.op = None /\ ~x.slot BY <1>1, <1>2, <1>5, AsleepType DEF Shape
<1>8. Shape(x) BY <1>2, <1>5, <1>6, <1>7 DEF Shape, Writing
<1>9. Moded(x) BY <1>7 DEF Moded
<1>10. /\ StatesGood' /\ starts' \in Nat /\ states' \in Nat /\ exchanges' \in Nat
       /\ UNCHANGED <<Provider, stored, users, lock, mode, toggles>>
       /\ acts' = acts /\ faults' \in 0..MaxFaults
  BY TypesKept DEF LoadSignIn, Keep, callVars, ConnectorInv, TypeOK
<1>11. QED
  BY <1>2, <1>3, <1>4, <1>5, <1>6, <1>8, <1>9, <1>10, QuietKeeps

LEMMA GuardBlocksKeeps ==
  ASSUME ConnectorInv, NEW s \in Sessions, GuardBlocks(s) \/ Refused(s)
  PROVE  ConnectorInv'
<1> DEFINE then == "over"
           x == [sess[s] EXCEPT !.pc = "audit", !.then = then,
                                !.slot = IF sess[s].pc = "send" THEN FALSE
                                         ELSE sess[s].slot]
<1>1. sess[s] \in SessionStates /\ Shape(sess[s]) /\ Moded(sess[s])
  BY DEF ConnectorInv, TypeOK, SessionsGood
<1>2. sess[s].pc \in {"guard", "send"} /\ sess[s].op # None
  BY DEF GuardBlocks, Refused, Called, At
<1>3. s \notin acts /\ sess[s].new = None BY <1>2, Idle DEF Writing
<1>4. sess' = [sess EXCEPT ![s] = x]
  <2>1. CASE GuardBlocks(s)
    <3>1. sess[s].pc = "guard" BY <2>1 DEF GuardBlocks, Called, At
    <3>2. x = [sess[s] EXCEPT !.pc = "audit", !.then = "over"]
      BY <1>1, <3>1 DEF SessionStates
    <3>3. sess' = [sess EXCEPT ![s] =
                     [sess[s] EXCEPT !.pc = "audit", !.then = "over"]]
      BY <2>1 DEF GuardBlocks, AuditThen, ConnectorInv, TypeOK
    <3>4. QED BY <3>2, <3>3
  <2>2. CASE Refused(s)
    <3>1. sess[s].pc = "send" BY <2>2 DEF Refused, Called, At
    <3>2. QED BY <2>2, <3>1 DEF Refused, ConnectorInv, TypeOK
  <2>3. QED BY <2>1, <2>2
<1>5. x \in SessionStates BY <1>1 DEF SessionStates, Pcs
<1>6. ~x.slot /\ x.client = sess[s].client /\ x.op = sess[s].op
  BY <1>1, <1>2 DEF SessionStates, Shape
<1>7. x = [sess[s] EXCEPT !.pc = "audit", !.then = then,
                          !.slot = x.slot, !.client = x.client]
  BY <1>1, <1>6 DEF SessionStates
<1>8. ~x.client BY <1>1, <1>2, <1>6 DEF Moded
<1>9. /\ UNCHANGED <<Provider, SignIns, stored, users, lock, mode, toggles>>
      /\ acts' = acts /\ faults' \in 0..MaxFaults
  BY DEF GuardBlocks, Refused, Keep, callVars, ConnectorInv, TypeOK
<1>10. sess[s].pc \notin Writing /\ then \in {Ready, "over"}
  BY <1>2 DEF Writing
<1>11. then = "over" OBVIOUS
<1> HIDE DEF x, then
<1>12. QED
  BY <1>2, <1>3, <1>4, <1>5, <1>6, <1>7, <1>8, <1>9, <1>10, <1>11, AuditKeeps

LEMMA GuardPassesKeeps ==
  ASSUME ConnectorInv, NEW s \in Sessions, GuardPasses(s) PROVE ConnectorInv'
<1>1. sess[s] \in SessionStates /\ Shape(sess[s]) /\ Moded(sess[s])
  BY DEF ConnectorInv, TypeOK, SessionsGood
<1>2. sess[s].pc = "guard" /\ sess[s].op # None /\ ~Blocked(s)
  BY DEF GuardPasses, Called, At
<1>3. s \notin acts /\ sess[s].new = None /\ ~sess[s].holds
  BY <1>2, Idle DEF Writing
<1>4. /\ UNCHANGED <<Provider, SignIns, stored, users, lock, mode, toggles>>
      /\ acts' = acts /\ faults' \in 0..MaxFaults
  BY DEF GuardPasses, Keep, callVars, ConnectorInv, TypeOK
<1>5. PICK pc \in {"over", "slot", "token"} :
        Goto(s, pc) /\ (pc = "slot" => via = "graph") /\ (pc = "token" => via # "graph")
  BY DEF GuardPasses
<1>6. CASE pc = "over"
  <2>1. sess' = [sess EXCEPT ![s] = Ended] BY <1>5, <1>6 DEF Goto, Became
  <2>2. QED BY <1>2, <1>3, <1>4, <2>1, EndKeeps
<1>7. CASE pc # "over"
  <2> DEFINE x == [sess[s] EXCEPT !.pc = pc]
  <2>1. sess' = [sess EXCEPT ![s] = x] BY <1>5, <1>7 DEF Goto, Became
  <2>2. x \in SessionStates BY <1>1 DEF SessionStates, Pcs
  <2>3. /\ x.pc = pc /\ x.row = sess[s].row /\ x.new = sess[s].new
        /\ x.op = sess[s].op /\ x.mode = sess[s].mode /\ x.seen = sess[s].seen
        /\ x.holds = sess[s].holds /\ x.slot = sess[s].slot
        /\ x.client = sess[s].client
    BY <1>1 DEF SessionStates
  <2>4. Shape(x) BY <1>1, <1>2, <1>3, <1>7, <2>3 DEF Shape, Writing
  <2>5. Moded(x) BY <1>1, <1>2, <1>5, <1>7, <2>3 DEF Moded, Passed, Writing, Blocked
  <2>6. /\ StatesGood' /\ starts' \in Nat /\ states' \in Nat /\ exchanges' \in Nat
    BY <1>4, TypesKept
  <2> HIDE DEF x
  <2>7. QED
    BY <1>2, <1>3, <1>4, <1>7, <2>1, <2>2, <2>3, <2>4, <2>5, <2>6, QuietKeeps
<1>8. QED BY <1>6, <1>7

LEMMA TakeSlotKeeps ==
  ASSUME ConnectorInv, NEW s \in Sessions, TakeSlot(s) PROVE ConnectorInv'
<1> DEFINE x == [sess[s] EXCEPT !.pc = "send", !.slot = TRUE]
<1>1. sess[s] \in SessionStates /\ Shape(sess[s]) /\ Moded(sess[s])
  BY DEF ConnectorInv, TypeOK, SessionsGood
<1>2. sess[s].pc = "slot" /\ sess[s].op # None BY DEF TakeSlot, Called, At
<1>3. s \notin acts /\ sess[s].new = None /\ ~sess[s].holds
  BY <1>2, Idle DEF Writing
<1>4. /\ UNCHANGED <<Provider, SignIns, stored, users, lock, mode, toggles>>
      /\ acts' = acts /\ faults' \in 0..MaxFaults
  BY DEF TakeSlot, Keep, callVars, ConnectorInv, TypeOK
<1>5. sess' = [sess EXCEPT ![s] = x] BY DEF TakeSlot, ConnectorInv, TypeOK
<1>6. x \in SessionStates BY <1>1 DEF SessionStates, Pcs
<1>7. /\ x.pc = "send" /\ x.row = sess[s].row /\ x.new = sess[s].new
      /\ x.op = sess[s].op /\ x.mode = sess[s].mode /\ x.seen = sess[s].seen
      /\ x.holds = sess[s].holds /\ x.client = sess[s].client
  BY <1>1 DEF SessionStates
<1>8. /\ StatesGood' /\ starts' \in Nat /\ states' \in Nat /\ exchanges' \in Nat
  BY <1>4, TypesKept
<1> HIDE DEF x
<1>9. Shape(x) BY <1>1, <1>2, <1>3, <1>7 DEF Shape, Writing
<1>10. Moded(x)
  <2>1. Passed(sess[s]) BY <1>2 DEF Passed
  <2>2. QED BY <1>1, <1>2, <1>7, <2>1 DEF Moded, Writing
<1>11. QED
  BY <1>2, <1>3, <1>4, <1>5, <1>6, <1>7, <1>8, <1>9, <1>10, QuietKeeps

LEMMA ServedKeeps ==
  ASSUME ConnectorInv, NEW s \in Sessions, Served(s) PROVE ConnectorInv'
<1> DEFINE x == [sess[s] EXCEPT
                   !.pc = "parse", !.slot = FALSE, !.client = Reaches(s),
                   !.page = IF sess[s].op.pages THEN @ + 1 ELSE @]
<1>1. sess[s] \in SessionStates /\ Shape(sess[s]) /\ Moded(sess[s])
  BY DEF ConnectorInv, TypeOK, SessionsGood
<1>2. sess[s].pc = "send" /\ sess[s].op # None BY DEF Served, Called, At
<1>3. s \notin acts /\ sess[s].new = None /\ ~sess[s].holds
  BY <1>2, Idle DEF Writing
<1>4. /\ UNCHANGED <<Provider, SignIns, stored, users, lock, mode, toggles>>
      /\ faults' \in 0..MaxFaults
  BY DEF Served, Keep, ConnectorInv, TypeOK
<1>5. sess' = [sess EXCEPT ![s] = x]
  BY DEF Served, ConnectorInv, TypeOK
<1>6. Reaches(s) \in BOOLEAN BY DEF Reaches
<1>7. x \in SessionStates
  <2>1. sess[s].page + 1 \in Nat BY <1>1 DEF SessionStates
  <2>2. QED BY <1>1, <1>6, <2>1 DEF SessionStates, Pcs
<1>8. /\ x.pc = "parse" /\ x.row = sess[s].row /\ x.new = sess[s].new
      /\ x.op = sess[s].op /\ x.mode = sess[s].mode /\ x.seen = sess[s].seen
      /\ x.holds = sess[s].holds /\ ~x.slot /\ x.client = Reaches(s)
  BY <1>1 DEF SessionStates
<1>9. /\ StatesGood' /\ starts' \in Nat /\ states' \in Nat /\ exchanges' \in Nat
  BY <1>4, TypesKept
<1> HIDE DEF x
<1>10. Shape(x) BY <1>1, <1>2, <1>3, <1>8 DEF Shape, Writing
<1>11. Moded(x)
  <2>1. Passed(sess[s]) BY <1>2 DEF Passed
  <2>2. x.client => x.op.write BY <1>8 DEF Reaches
  <2>3. QED BY <1>1, <1>2, <1>8, <2>1, <2>2 DEF Moded, Writing
<1>12. acts' \subseteq acts \cup {s} /\ (s \in acts' => Acted(x))
  BY <1>2, <1>3, <1>8 DEF Served, Acts, Acted
<1>13. QED
  BY <1>2, <1>3, <1>4, <1>5, <1>7, <1>8, <1>9, <1>10, <1>11, <1>12, QuietKeeps

LEMMA NetworkFailsKeeps ==
  ASSUME ConnectorInv, NEW s \in Sessions, NetworkFails(s) PROVE ConnectorInv'
<1>1. sess[s] \in SessionStates /\ Shape(sess[s]) /\ Moded(sess[s])
  BY DEF ConnectorInv, TypeOK, SessionsGood
<1>2. sess[s].pc = "send" /\ sess[s].op # None BY DEF NetworkFails, Called, At
<1>3. s \notin acts /\ sess[s].new = None /\ sess[s].pc \notin Writing
  BY <1>2, Idle DEF Writing
<1>4. /\ UNCHANGED <<Provider, SignIns, stored, users, lock, mode, toggles>>
      /\ faults' \in 0..MaxFaults
  BY DEF NetworkFails, Keep, ConnectorInv, TypeOK
<1>5. ~sess[s].client BY <1>1, <1>2 DEF Moded
<1>6. PICK client \in BOOLEAN :
        /\ sess' = [sess EXCEPT ![s] = [sess[s] EXCEPT
             !.pc = "audit", !.then = "over", !.client = client]]
        /\ client => sess[s].op.write
        /\ acts' \subseteq acts \cup {s}
        /\ s \in acts' => sess[s].op.write
  <2>1. CASE AuditThen(s, "over") /\ acts' = acts
    <3>1. [sess[s] EXCEPT !.pc = "audit", !.then = "over"] =
          [sess[s] EXCEPT !.pc = "audit", !.then = "over", !.client = FALSE]
      BY <1>1, <1>5 DEF SessionStates
    <3>2. sess' = [sess EXCEPT ![s] =
                     [sess[s] EXCEPT !.pc = "audit", !.then = "over"]]
      BY <2>1 DEF AuditThen, ConnectorInv, TypeOK
    <3>3. QED BY <1>3, <2>1, <3>1, <3>2
  <2>2. CASE /\ sess[s].op.write /\ Acts(s)
             /\ sess' = [sess EXCEPT ![s].pc = "audit", ![s].then = "over",
                                     ![s].client = Reaches(s)]
    <3>1. Reaches(s) \in BOOLEAN BY DEF Reaches
    <3>2. acts' \subseteq acts \cup {s} BY <2>2 DEF Acts
    <3>3. sess' = [sess EXCEPT ![s] = [sess[s] EXCEPT
             !.pc = "audit", !.then = "over", !.client = Reaches(s)]]
      BY <2>2 DEF ConnectorInv, TypeOK
    <3>4. QED BY <2>2, <3>1, <3>2, <3>3
  <2>3. QED BY <2>1, <2>2 DEF NetworkFails
<1> DEFINE then == "over"
           x == [sess[s] EXCEPT !.pc = "audit", !.then = then, !.client = client]
<1>7. sess' = [sess EXCEPT ![s] = x] BY <1>6
<1>8. x \in SessionStates BY <1>1 DEF SessionStates, Pcs
<1>9. x.slot = sess[s].slot /\ x.client = client /\ x.op = sess[s].op
  BY <1>1 DEF SessionStates
<1>10. x = [sess[s] EXCEPT !.pc = "audit", !.then = then,
                           !.slot = x.slot, !.client = x.client]
  BY <1>1, <1>9 DEF SessionStates
<1>11. then = "over" /\ then \in {Ready, "over"} OBVIOUS
<1> HIDE DEF x, then
<1>12. QED
  BY <1>2, <1>3, <1>4, <1>6, <1>7, <1>8, <1>9, <1>10, <1>11, AuditKeeps

LEMMA ParsedKeeps ==
  ASSUME ConnectorInv, NEW s \in Sessions, Parsed(s) PROVE ConnectorInv'
<1>1. sess[s] \in SessionStates /\ Shape(sess[s]) /\ Moded(sess[s])
  BY DEF ConnectorInv, TypeOK, SessionsGood
<1>2. sess[s].pc = "parse" /\ sess[s].op # None BY DEF Parsed, Called, At
<1>3. /\ sess[s].new = None /\ ~sess[s].holds /\ ~sess[s].slot
      /\ sess[s].pc \notin Writing
  BY <1>1, <1>2 DEF Shape, Writing
<1>4. /\ UNCHANGED <<Provider, SignIns, stored, users, lock, mode, toggles>>
      /\ acts' = acts /\ faults' \in 0..MaxFaults
  BY DEF Parsed, Keep, callVars, ConnectorInv, TypeOK
<1>5. s \in acts => sess[s].op.write BY DEF ConnectorInv, ActsGood, Acted
<1>6. CASE AuditThen(s, "over")
  <2> DEFINE then == "over"
             x == [sess[s] EXCEPT !.pc = "audit", !.then = then]
  <2>1. sess' = [sess EXCEPT ![s] = x]
    BY <1>6 DEF AuditThen, ConnectorInv, TypeOK
  <2>2. x \in SessionStates BY <1>1 DEF SessionStates, Pcs
  <2>3. x.slot = sess[s].slot /\ x.client = sess[s].client /\ x.op = sess[s].op
    BY <1>1 DEF SessionStates
  <2>4. x = [sess[s] EXCEPT !.pc = "audit", !.then = then,
                            !.slot = x.slot, !.client = x.client]
    BY <1>1, <2>3 DEF SessionStates
  <2>5. then = "over" /\ then \in {Ready, "over"} OBVIOUS
  <2>6. x.client => x.op.write BY <1>1, <1>2, <2>3 DEF Moded
  <2> HIDE DEF x, then
  <2>7. QED
    BY <1>2, <1>3, <1>4, <1>5, <2>1, <2>2, <2>3, <2>4, <2>5, <2>6, AuditKeeps
<1>7. CASE sess[s].op.pages /\ Goto(s, "token")
  <2> DEFINE x == [sess[s] EXCEPT !.pc = "token"]
  <2>1. sess' = [sess EXCEPT ![s] = x] BY <1>7 DEF Goto, Became
  <2>2. x \in SessionStates BY <1>1 DEF SessionStates, Pcs
  <2>3. /\ x.pc = "token" /\ x.row = sess[s].row /\ x.new = sess[s].new
        /\ x.op = sess[s].op /\ x.mode = sess[s].mode /\ x.seen = sess[s].seen
        /\ x.holds = sess[s].holds /\ x.slot = sess[s].slot
        /\ x.client = sess[s].client
    BY <1>1 DEF SessionStates
  <2>4. ~sess[s].op.write BY <1>1, <1>2, <1>7, OpFacts DEF SessionStates
  <2>5. s \notin acts /\ ~x.client BY <1>1, <1>2, <1>5, <2>3, <2>4 DEF Moded
  <2>6. Shape(x) BY <1>1, <1>2, <1>3, <2>3 DEF Shape, Writing
  <2>7. Moded(x) BY <1>1, <1>2, <2>3, <2>5 DEF Moded, Passed, Writing
  <2>8. /\ StatesGood' /\ starts' \in Nat /\ states' \in Nat /\ exchanges' \in Nat
    BY <1>4, TypesKept
  <2> HIDE DEF x
  <2>9. QED
    BY <1>2, <1>3, <1>4, <2>1, <2>2, <2>3, <2>5, <2>6, <2>7, <2>8, QuietKeeps
<1>8. QED BY <1>6, <1>7 DEF Parsed

LEMMA UnparsedKeeps ==
  ASSUME ConnectorInv, NEW s \in Sessions, Unparsed(s) PROVE ConnectorInv'
<1>1. sess[s].pc = "parse" BY DEF Unparsed, Called, At
<1>2. sess[s].new = None
  BY <1>1 DEF ConnectorInv, SessionsGood, Shape, Writing
<1>3. sess' = [sess EXCEPT ![s] = Ended] BY DEF Unparsed, Goto, Became
<1>4. /\ UNCHANGED <<Provider, SignIns, stored, users, lock, mode, toggles>>
      /\ acts' \subseteq acts \ {s} /\ faults' \in 0..MaxFaults
  BY DEF Unparsed, Keep, ConnectorInv, TypeOK
<1>5. QED BY <1>1, <1>2, <1>3, <1>4, EndKeeps

-----------------------------------------------------------------------------
(* The steps that touch the tokens or the locks.                           *)

(* A session lets go of everything it has in hand. *)
LEMMA LetGoKeeps ==
  ASSUME ConnectorInv, NEW s \in Sessions, NEW x \in SessionStates,
         sess' = [sess EXCEPT ![s] = x],
         x.new = None, x.row \in {sess[s].row, None}, ~x.holds,
         x.pc \notin {"flush", "commit"}, Shape(x), Moded(x),
         lock' = IF lock = s THEN None ELSE lock,
         UNCHANGED <<SignIns, via, stored, users, mode, toggles>>,
         issued' \in Issued, issued' >= issued, dead' \subseteq 0..issued',
         broken' \in BOOLEAN, faults' \in 0..MaxFaults,
         acts' \subseteq acts \ {s}, TokensGood'
  PROVE  ConnectorInv'
<1> USE DEF ConnectorInv
<1>1. sess'[s] = x /\ \A o \in Sessions \ {s} : sess'[o] = sess[o] BY DEF TypeOK
<1>2. TypeOK'
  <2>1. dead' \subseteq Issued BY TokenAssumption DEF Issued
  <2>2. QED BY <2>1, TypesKept DEF TypeOK, Modes
<1>3. SessionsGood' BY <1>1 DEF SessionsGood, Shape, Moded, Passed, Ready
<1>4. ActsGood' BY <1>1 DEF ActsGood, Acted, TypeOK
<1>5. None \notin Sessions BY TokenAssumption
<1>6. LocksGood' BY <1>1, <1>5 DEF LocksGood, At
<1>7. UsersGood' BY <1>1 DEF UsersGood, Inserts, Stores
<1>8. KnownTokens'
  <2>1. Known \subseteq Known' BY DEF Known, TypeOK, Issued
  <2>2. \A o \in Sessions : sess'[o].row \in Known' \cup {None}
                         /\ sess'[o].new \in Known' \cup {None}
    BY <1>1, <2>1 DEF KnownTokens
  <2>3. QED BY <2>1, <2>2 DEF KnownTokens, Known
<1>9. StatesGood' BY TypesKept
<1>10. QED BY <1>2, <1>3, <1>4, <1>6, <1>7, <1>8, <1>9

LEMMA DieKeeps ==
  ASSUME ConnectorInv, NEW s \in Sessions, Die(s) PROVE ConnectorInv'
<1> DEFINE x == Ended
<1>1. /\ x \in SessionStates /\ x.new = None /\ x.row = None
      /\ ~x.holds /\ x.pc = "over"
  BY AsleepType
<1>2. Shape(x) /\ Moded(x) BY AtRest
<1>3. sess' = [sess EXCEPT ![s] = x] BY DEF Die, TokenDie, Goto, Became
<1>4. /\ UNCHANGED <<SignIns, via, stored, users, mode, toggles>>
      /\ issued' = issued /\ dead' = dead
      /\ lock' = IF lock = s THEN None ELSE lock
      /\ broken' = (broken \/ Stores(s))
      /\ acts' = acts \ {s}
  BY DEF Die, TokenDie
<1>5. /\ issued' \in Issued /\ issued' >= issued /\ dead' \subseteq 0..issued'
      /\ broken' \in BOOLEAN /\ faults' \in 0..MaxFaults
  BY <1>4, TokenAssumption
  DEF Die, TokenDie, ConnectorInv, TypeOK, KnownTokens, Known, Issued
<1>6. TokensGood'
  <2>1. CASE broken' BY <2>1 DEF TokensGood
  <2>2. CASE ~broken'
    <3>1. broken' = broken /\ sess[s].new = None
      BY <1>4, <2>2 DEF Stores, ConnectorInv, TypeOK
    <3>2. UNCHANGED <<Provider, stored>> BY <1>4, <3>1 DEF Provider
    <3>3. QED BY <1>1, <1>3, <3>1, <3>2, TokensRest
  <2>3. QED BY <2>1, <2>2
<1> HIDE DEF x
<1>7. QED BY <1>1, <1>2, <1>3, <1>4, <1>5, <1>6, LetGoKeeps

LEMMA VictimKeeps ==
  ASSUME ConnectorInv, NEW s \in Sessions, Victim(s), Recorded(s),
         UNCHANGED <<mode, toggles>>
  PROVE  ConnectorInv'
<1> DEFINE x == Ended
<1>1. /\ x \in SessionStates /\ x.new = None /\ x.row = None
      /\ ~x.holds /\ x.pc = "over"
  BY AsleepType
<1>2. Shape(x) /\ Moded(x) BY AtRest
<1>3. sess' = [sess EXCEPT ![s] = x] BY DEF Victim, Goto, Became
<1>4. /\ UNCHANGED <<SignIns, via, stored, users, mode, toggles>>
      /\ issued' = issued /\ dead' = dead /\ broken' = TRUE
      /\ lock' = IF lock = s THEN None ELSE lock
      /\ faults' = faults
  BY DEF Victim
<1>5. s \notin acts /\ ~At(s, "commit")
  <2>1. \/ At(s, "audit") /\ sess[s].holds
        \/ At(s, "flush")
    BY DEF Victim, Circle, Blocks
  <2>2. QED
    BY <2>1 DEF At, ConnectorInv, ActsGood, Acted, SessionsGood, Shape
<1>6. acts' \subseteq acts \ {s} BY <1>5 DEF Recorded
<1>7. /\ issued' \in Issued /\ issued' >= issued /\ dead' \subseteq 0..issued'
      /\ broken' \in BOOLEAN /\ faults' \in 0..MaxFaults
  BY <1>4 DEF ConnectorInv, TypeOK, KnownTokens, Known, Issued
<1>8. TokensGood' BY <1>4 DEF TokensGood
<1> HIDE DEF x
<1>9. QED BY <1>1, <1>2, <1>3, <1>4, <1>5, <1>6, <1>7, <1>8, LetGoKeeps

LEMMA AnswerLostKeeps ==
  ASSUME ConnectorInv, NEW s \in Sessions, AnswerLost(s), Recorded(s),
         UNCHANGED <<mode, toggles>>
  PROVE  ConnectorInv'
<1>1. sess[s].pc = "token" BY DEF AnswerLost, Redeemed, Refreshes, At
<1>2. /\ s \notin acts /\ sess[s].new = None /\ ~sess[s].holds
      /\ sess[s] \in SessionStates /\ Shape(sess[s]) /\ Moded(sess[s])
  BY <1>1, Idle DEF Writing, ConnectorInv, TypeOK, SessionsGood
<1>3. PICK then \in {Ready, "over"} :
        AuditThen(s, then) /\ (then # "over" => via = "graph")
  BY DEF AnswerLost, GiveUp
<1> DEFINE x == [sess[s] EXCEPT !.pc = "audit", !.then = then]
<1>4. sess' = [sess EXCEPT ![s] = x]
  BY <1>3 DEF AuditThen, ConnectorInv, TypeOK
<1>5. x \in SessionStates BY <1>2 DEF SessionStates, Pcs, Ready
<1>6. /\ x.pc = "audit" /\ x.then = then /\ x.row = sess[s].row
      /\ x.new = None /\ ~x.holds
      /\ x.slot = sess[s].slot /\ x.client = sess[s].client
      /\ x.op = sess[s].op /\ x.mode = sess[s].mode /\ x.seen = sess[s].seen
  BY <1>2 DEF SessionStates
<1> HIDE DEF x
<1>7. Shape(x) BY <1>1, <1>2, <1>6 DEF Shape, Writing
<1>8. Moded(x) BY <1>1, <1>2, <1>3, <1>6 DEF Moded, Passed, Writing, Shape
<1>9. lock # s BY <1>1 DEF ConnectorInv, LocksGood, At
<1>10. /\ UNCHANGED <<SignIns, via, stored, users, lock, mode, toggles>>
       /\ broken' = TRUE /\ faults' \in 0..MaxFaults
  BY TokenAssumption DEF AnswerLost, Redeemed, ConnectorInv, TypeOK
<1>11. /\ issued' \in Issued /\ issued' >= issued /\ dead' \subseteq 0..issued'
  <2>1. /\ issued' \in {issued, issued + 1} /\ issued' \in Issued
        /\ dead' \subseteq dead \cup {sess[s].row} /\ sess[s].row # None
    BY TokenAssumption DEF AnswerLost, Redeemed, ConnectorInv, TypeOK, Issued
  <2>2. dead \cup {sess[s].row} \subseteq 0..issued
    BY <2>1 DEF ConnectorInv, KnownTokens, Known
  <2>3. QED BY <2>1, <2>2 DEF ConnectorInv, TypeOK, Issued
<1>12. acts' = acts BY <1>1 DEF Recorded, At
<1>13. TokensGood' BY <1>10 DEF TokensGood
<1>14. QED
  BY <1>2, <1>4, <1>5, <1>6, <1>7, <1>8, <1>9, <1>10, <1>11, <1>12, <1>13,
     LetGoKeeps

(* A session is handed a token. *)
LEMMA TakesKeeps ==
  ASSUME ConnectorInv, NEW s \in Sessions, NEW x \in SessionStates,
         sess' = [sess EXCEPT ![s] = x],
         sess[s].pc \in {"token", "exchange"},
         x.new \in Issued, x.new <= issued', x.new # None,
         x.row \in {sess[s].row, stored}, ~x.holds,
         x.pc \in {"flush", "audit"}, x.op = sess[s].op,
         Shape(x), Moded(x),
         UNCHANGED <<SignIns, via, stored, users, broken, lock, faults,
                     mode, toggles, acts>>,
         issued' \in Issued, issued' >= issued, dead' \subseteq 0..issued',
         TokensGood'
  PROVE  ConnectorInv'
<1> USE DEF ConnectorInv
<1>1. sess'[s] = x /\ \A o \in Sessions \ {s} : sess'[o] = sess[o] BY DEF TypeOK
<1>2. s \notin acts /\ sess[s].new = None /\ ~sess[s].holds /\ lock # s
  BY Idle DEF Writing, LocksGood, At
<1>3. TypeOK'
  <2>1. dead' \subseteq Issued BY TokenAssumption DEF Issued
  <2>2. QED BY <2>1, TypesKept DEF TypeOK, Modes
<1>4. SessionsGood' BY <1>1 DEF SessionsGood, Shape, Moded, Passed, Ready
<1>5. ActsGood' BY <1>1, <1>2 DEF ActsGood, Acted, TypeOK
<1>6. LocksGood' BY <1>1, <1>2 DEF LocksGood, At
<1>7. UsersGood' BY <1>1, <1>2 DEF UsersGood, Inserts, Stores
<1>8. KnownTokens'
  <2>1. Known \subseteq Known' BY DEF Known, TypeOK, Issued
  <2>2. x.new \in Known' BY DEF Known, Issued
  <2>3. \A o \in Sessions : sess'[o].row \in Known' \cup {None}
                         /\ sess'[o].new \in Known' \cup {None}
    BY <1>1, <2>1, <2>2 DEF KnownTokens
  <2>4. QED BY <2>1, <2>3 DEF KnownTokens, Known
<1>9. StatesGood' BY TypesKept
<1>10. QED BY <1>3, <1>4, <1>5, <1>6, <1>7, <1>8, <1>9

LEMMA ExchangeKeeps ==
  ASSUME ConnectorInv, NEW s \in Sessions, Exchange(s), Recorded(s),
         UNCHANGED <<mode, toggles>>
  PROVE  ConnectorInv'
<1> DEFINE x == [sess[s] EXCEPT !.pc = "flush", !.then = "over",
                                !.row = stored, !.new = issued']
<1>1. /\ sess[s] \in SessionStates /\ Shape(sess[s]) /\ Moded(sess[s])
      /\ stored \in Rows
  BY DEF ConnectorInv, TypeOK, SessionsGood
<1>2. sess[s].pc = "exchange" /\ issued < MaxIssued /\ issued' = issued + 1
  BY DEF Exchange, At
<1>3. issued' \in Issued /\ issued' >= issued /\ issued' \in Rows /\ issued' # None
  BY <1>2, TokenAssumption DEF ConnectorInv, TypeOK, Issued, Rows
<1>4. sess' = [sess EXCEPT ![s] = x] BY DEF Exchange, ConnectorInv, TypeOK
<1>5. x \in SessionStates BY <1>1, <1>3 DEF SessionStates, Pcs
<1>6. /\ x.pc = "flush" /\ x.then = "over" /\ x.row = stored /\ x.new = issued'
      /\ x.op = sess[s].op /\ x.holds = sess[s].holds /\ x.slot = sess[s].slot
  BY <1>1 DEF SessionStates
<1>7. s \notin acts /\ sess[s].new = None /\ ~sess[s].holds
  BY <1>2, Idle DEF Writing
<1> HIDE DEF x
<1>8. Shape(x) BY <1>1, <1>2, <1>3, <1>6, <1>7 DEF Shape, Writing
<1>9. Moded(x) BY <1>1, <1>2, <1>6 DEF Moded, Shape
<1>10. /\ UNCHANGED <<SignIns, via, stored, users, broken, lock, faults,
                      mode, toggles, acts>>
       /\ dead' = dead
  BY <1>2 DEF Exchange, Recorded, At
<1>11. dead' \subseteq 0..issued'
  BY <1>2, <1>10 DEF ConnectorInv, KnownTokens, Known, TypeOK, Issued
<1>12. TokensGood'
  <2>1. via = "graph" BY <1>1, <1>2 DEF Shape
  <2>2. QED
    BY <1>10, <2>1 DEF ConnectorInv, TokensGood, DeadTokenExplained
<1>13. x.new <= issued' BY <1>3, <1>6 DEF Issued
<1>14. QED
  BY <1>2, <1>3, <1>4, <1>5, <1>6, <1>7, <1>8, <1>9, <1>10, <1>11, <1>12,
     <1>13, TakesKeeps

LEMMA RefreshKeeps ==
  ASSUME ConnectorInv, NEW s \in Sessions, Refresh(s), Recorded(s),
         UNCHANGED <<mode, toggles>>
  PROVE  ConnectorInv'
<1> DEFINE new == IF issued' = issued THEN sess[s].row ELSE issued'
           pc == IF via = "graph" THEN "audit" ELSE "flush"
           x == [sess[s] EXCEPT !.pc = pc, !.then = Ready, !.new = new]
<1>1. /\ sess[s] \in SessionStates /\ Shape(sess[s]) /\ Moded(sess[s])
      /\ issued \in Issued
  BY DEF ConnectorInv, TypeOK, SessionsGood
<1>2. /\ sess[s].pc = "token" /\ sess[s].op # None
      /\ sess[s].row \notin dead \cup {None}
  BY <1>1 DEF Refresh, Redeemed, Refreshes, At, Shape
<1>3. s \notin acts /\ sess[s].new = None /\ ~sess[s].holds
  BY <1>2, Idle DEF Writing
<1>4. sess[s].row \in 0..issued
  BY <1>2 DEF ConnectorInv, KnownTokens, Known
<1>5. /\ issued' \in Issued /\ issued' >= issued
      /\ issued' = issued => via = "graph" /\ dead' = dead
      /\ issued' # issued => issued' = issued + 1
      /\ dead' = IF via = "xero" THEN dead \cup {sess[s].row} ELSE dead
  BY <1>1, TokenAssumption DEF Refresh, Redeemed, Issued
<1>6. new \in Issued /\ new <= issued' /\ new # None /\ new \in Rows
  BY <1>1, <1>4, <1>5, TokenAssumption DEF Issued, Rows
<1>7. sess' = [sess EXCEPT ![s] = x] BY DEF Refresh, ConnectorInv, TypeOK
<1>8. x \in SessionStates BY <1>1, <1>6 DEF SessionStates, Pcs, Ready
<1>9. /\ x.pc = pc /\ x.then = Ready /\ x.new = new /\ x.row = sess[s].row
      /\ x.op = sess[s].op /\ x.mode = sess[s].mode /\ x.seen = sess[s].seen
      /\ x.holds = sess[s].holds /\ x.slot = sess[s].slot
      /\ x.client = sess[s].client
  BY <1>1 DEF SessionStates
<1>10. pc \in {"audit", "flush"} OBVIOUS
<1> HIDE DEF x, new
<1>11. Shape(x) BY <1>1, <1>2, <1>3, <1>6, <1>9, <1>10 DEF Shape, Writing
<1>12. Moded(x)
  <2>1. Passed(x) => Passed(sess[s]) BY <1>2, <1>9, <1>10 DEF Passed, Writing
  <2>2. QED BY <1>1, <1>2, <1>9, <1>10, <2>1 DEF Moded, Writing
<1>13. UNCHANGED <<SignIns, via, stored, users, broken, lock, faults,
                   mode, toggles, acts>>
  BY <1>2 DEF Refresh, Recorded, At
<1>14. dead' \subseteq 0..issued'
  <2>1. dead \subseteq 0..issued /\ 0..issued \subseteq 0..issued'
    BY <1>1, <1>5 DEF ConnectorInv, KnownTokens, Known, Issued
  <2>2. QED BY <1>4, <1>5, <2>1
<1>15. TokensGood'
  <2>1. sess'[s] = x /\ \A o \in Sessions \ {s} : sess'[o] = sess[o]
    BY <1>7 DEF ConnectorInv, TypeOK
  <2>2. CASE broken BY <1>13, <2>2 DEF TokensGood
  <2>3. CASE ~broken /\ via # "xero"
    <3>1. dead' = {} BY <1>5, <2>3 DEF ConnectorInv, TokensGood
    <3>2. QED BY <1>13, <2>3, <3>1 DEF TokensGood, DeadTokenExplained
  <2>4. CASE ~broken /\ via = "xero"
    <3>1. new = issued + 1 /\ issued + 1 \notin 0..issued /\ issued + 1 # None
      BY <1>1, <1>5, <1>6, <2>4 DEF new, Issued
    <3>2. \A o \in Sessions : sess[o].row # new /\ sess[o].new # new
      BY <3>1 DEF ConnectorInv, KnownTokens, Known
    <3>3. stored # new /\ new \notin dead
      BY <3>1 DEF ConnectorInv, KnownTokens, Known
    <3>4. Fresh(s)'
      BY <1>2, <1>4, <1>5, <1>9, <1>13, <2>1, <2>4, <3>1, <3>2, <3>3
      DEF Fresh, Stores
    <3>5. ASSUME NEW o \in Sessions, Stores(o)', o # s PROVE Fresh(o)'
      <4>1. Stores(o) /\ sess'[o] = sess[o] BY <2>1, <3>5 DEF Stores
      <4>2. Fresh(o) BY <2>4, <4>1 DEF ConnectorInv, TokensGood
      <4>3. sess[o].new \notin dead' BY <1>5, <4>2 DEF Fresh
      <4>4. \A q \in Sessions : sess'[q].row # sess[o].new
        BY <1>9, <2>1, <4>2 DEF Fresh
      <4>5. \A q \in Sessions : Stores(q)' /\ sess'[q].new = sess[o].new => q = o
        BY <1>9, <2>1, <3>2, <4>2 DEF Fresh, Stores
      <4>6. QED BY <1>13, <4>1, <4>2, <4>3, <4>4, <4>5 DEF Fresh
    <3>6. Stores(s)' BY <1>6, <1>9, <2>1 DEF Stores
    <3>7. QED
      BY <1>13, <2>4, <3>4, <3>5, <3>6 DEF TokensGood, DeadTokenExplained
  <2>5. QED BY <2>2, <2>3, <2>4
<1>16. QED
  BY <1>2, <1>3, <1>5, <1>6, <1>7, <1>8, <1>9, <1>10, <1>11, <1>12, <1>13,
     <1>14, <1>15, TakesKeeps

(* A session writes the row or the log. *)
LEMMA WritesKeeps ==
  ASSUME ConnectorInv, NEW s \in Sessions, NEW x \in SessionStates,
         sess' = [sess EXCEPT ![s] = x],
         x.new \in {sess[s].new, None}, x.row = sess[s].row, x.op = sess[s].op,
         Shape(x), Moded(x), s \in acts => Acted(x),
         UNCHANGED <<Provider, SignIns, stored, users, faults, mode, toggles, acts>>,
         lock' \in Sessions \cup {None},
         \A o \in Sessions \ {s} : lock' = o <=> lock = o,
         lock' = s => x.pc = "commit" \/ (x.pc = "flush" /\ x.op # None),
         x.pc = "commit" => lock' = s,
         x.holds => \A o \in Sessions \ {s} : ~sess[o].holds,
         x.holds /\ x.op = None /\ x.new # None /\ x.row = None => users = 0,
         TokensGood'
  PROVE  ConnectorInv'
<1> USE DEF ConnectorInv
<1>1. sess'[s] = x /\ \A o \in Sessions \ {s} : sess'[o] = sess[o] BY DEF TypeOK
<1>2. TypeOK' BY TypesKept DEF TypeOK, Modes, Provider
<1>3. SessionsGood'
  BY <1>1 DEF SessionsGood, Shape, Moded, Passed, Ready, Provider
<1>4. ActsGood' BY <1>1 DEF ActsGood, Acted, TypeOK
<1>5. LocksGood' BY <1>1 DEF LocksGood, At
<1>6. UsersGood' BY <1>1 DEF UsersGood, Inserts, Stores
<1>7. KnownTokens' BY <1>1 DEF KnownTokens, Known, Provider
<1>8. StatesGood' BY TypesKept
<1>9. QED BY <1>2, <1>3, <1>4, <1>5, <1>6, <1>7, <1>8

(* Nothing changes for the tokens while a row is on its way. *)
LEMMA TokensUntouched ==
  ASSUME ConnectorInv, NEW s \in Sessions, NEW x \in SessionStates,
         sess' = [sess EXCEPT ![s] = x],
         x.new = sess[s].new, x.row = sess[s].row,
         UNCHANGED <<Provider, stored>>
  PROVE  TokensGood'
<1>1. \A o \in Sessions : sess'[o].new = sess[o].new /\ sess'[o].row = sess[o].row
  BY DEF ConnectorInv, TypeOK
<1>2. \A o \in Sessions : Stores(o)' <=> Stores(o) BY <1>1 DEF Stores
<1>3. \A o \in Sessions : Fresh(o) => Fresh(o)'
  BY <1>1, <1>2 DEF Fresh, Provider
<1>4. QED
  BY <1>2, <1>3 DEF ConnectorInv, TokensGood, DeadTokenExplained, Provider

LEMMA FlushKeeps ==
  ASSUME ConnectorInv, NEW s \in Sessions, Flush(s), Recorded(s),
         UNCHANGED <<mode, toggles>>
  PROVE  ConnectorInv'
<1> DEFINE pc == IF lock = s THEN "commit" ELSE "audit"
           x == [sess[s] EXCEPT !.holds = TRUE, !.pc = pc]
<1>1. sess[s] \in SessionStates /\ Shape(sess[s]) /\ Moded(sess[s])
  BY DEF ConnectorInv, TypeOK, SessionsGood
<1>2. sess[s].pc = "flush" /\ pc \in {"commit", "audit"} BY DEF Flush, At
<1>3. sess' = [sess EXCEPT ![s] = x] BY DEF Flush, ConnectorInv, TypeOK
<1>4. x \in SessionStates BY <1>1 DEF SessionStates, Pcs
<1>5. /\ x.pc = pc /\ x.holds /\ x.row = sess[s].row /\ x.new = sess[s].new
      /\ x.op = sess[s].op /\ x.mode = sess[s].mode /\ x.seen = sess[s].seen
      /\ x.slot = sess[s].slot /\ x.client = sess[s].client
      /\ x.then = sess[s].then
  BY <1>1 DEF SessionStates
<1> HIDE DEF x
<1>6. Shape(x) BY <1>1, <1>2, <1>5 DEF Shape, Writing
<1>7. Moded(x)
  <2>1. Passed(x) <=> Passed(sess[s]) BY <1>2, <1>5 DEF Passed, Writing
  <2>2. QED BY <1>1, <1>2, <1>5, <2>1 DEF Moded, Writing
<1>8. s \notin acts BY <1>2 DEF ConnectorInv, ActsGood, Acted
<1>9. UNCHANGED <<Provider, SignIns, stored, users, lock, faults, mode, toggles, acts>>
  BY <1>2 DEF Flush, Recorded, At
<1>10. TokensGood' BY <1>3, <1>4, <1>5, <1>9, TokensUntouched DEF Provider
<1>11. \A o \in Sessions \ {s} : ~sess[o].holds BY DEF Flush, Blocks
<1>12. x.op = None /\ x.new # None /\ x.row = None => users = 0
  BY <1>5 DEF Flush, Inserts, Stores, ConnectorInv, TypeOK
<1>13. lock' = s <=> pc = "commit" BY <1>9
<1>14. lock' \in Sessions \cup {None} BY <1>9 DEF ConnectorInv, TypeOK
<1> HIDE DEF pc
<1>15. QED
  BY <1>3, <1>4, <1>5, <1>6, <1>7, <1>8, <1>9, <1>10, <1>11, <1>12, <1>13,
     <1>14, WritesKeeps

LEMMA AppendKeeps ==
  ASSUME ConnectorInv, NEW s \in Sessions, Append(s), Recorded(s),
         UNCHANGED <<mode, toggles>>
  PROVE  ConnectorInv'
<1> DEFINE pc == IF Stores(s) /\ ~sess[s].holds THEN "flush" ELSE "commit"
           x == [sess[s] EXCEPT !.pc = pc]
<1>1. sess[s] \in SessionStates /\ Shape(sess[s]) /\ Moded(sess[s])
  BY DEF ConnectorInv, TypeOK, SessionsGood
<1>2. sess[s].pc = "audit" /\ pc \in {"commit", "flush"} BY DEF Append, At
<1>3. sess' = [sess EXCEPT ![s] = x] BY <1>2 DEF Append, Goto, Became
<1>4. x \in SessionStates BY <1>1 DEF SessionStates, Pcs
<1>5. /\ x.pc = pc /\ x.holds = sess[s].holds
      /\ x.row = sess[s].row /\ x.new = sess[s].new
      /\ x.op = sess[s].op /\ x.mode = sess[s].mode /\ x.seen = sess[s].seen
      /\ x.slot = sess[s].slot /\ x.client = sess[s].client
      /\ x.then = sess[s].then
  BY <1>1 DEF SessionStates
<1>6. /\ pc = "flush" => sess[s].new # None /\ ~sess[s].holds
      /\ pc = "commit" /\ sess[s].new # None => sess[s].holds
  BY DEF Stores
<1>7. lock \in {None, s} /\ lock' = s BY DEF Append
<1> HIDE DEF x, pc
<1>8. Shape(x) BY <1>1, <1>2, <1>5, <1>6 DEF Shape, Writing
<1>9. Moded(x)
  <2>1. Passed(x) <=> Passed(sess[s]) BY <1>2, <1>5 DEF Passed, Writing
  <2>2. QED BY <1>1, <1>2, <1>5, <2>1 DEF Moded, Writing
<1>10. s \in acts => Acted(x)
  <2>1. s \in acts => Acted(sess[s]) BY DEF ConnectorInv, ActsGood
  <2>2. QED BY <1>2, <1>5, <1>6, <2>1 DEF Acted
<1>11. UNCHANGED <<Provider, SignIns, stored, users, faults, mode, toggles, acts>>
  BY <1>2 DEF Append, Recorded, At
<1>12. TokensGood' BY <1>3, <1>4, <1>5, <1>11, TokensUntouched
<1>13. x.holds => \A o \in Sessions \ {s} : ~sess[o].holds
  BY <1>5 DEF ConnectorInv, LocksGood
<1>14. x.holds /\ x.op = None /\ x.new # None /\ x.row = None => users = 0
  BY <1>5 DEF ConnectorInv, UsersGood, Inserts, Stores
<1>15. pc = "flush" => x.op # None BY <1>1, <1>2, <1>5, <1>6 DEF Shape
<1>16. \A o \in Sessions \ {s} : lock' = o <=> lock = o
  BY <1>7, TokenAssumption
<1>17. QED
  BY <1>2, <1>3, <1>4, <1>5, <1>7, <1>8, <1>9, <1>10, <1>11, <1>12, <1>13,
     <1>14, <1>15, <1>16, WritesKeeps

LEMMA ConflictKeeps ==
  ASSUME ConnectorInv, NEW s \in Sessions, Conflict(s), Recorded(s),
         UNCHANGED <<mode, toggles>>
  PROVE  ConnectorInv'
<1> DEFINE x == [sess[s] EXCEPT !.pc = "audit", !.then = "over", !.new = None]
<1>1. sess[s] \in SessionStates /\ Shape(sess[s]) /\ Moded(sess[s])
  BY DEF ConnectorInv, TypeOK, SessionsGood
<1>2. sess[s].pc = "flush" /\ sess[s].op = None
  BY DEF Conflict, At, Inserts
<1>3. ~sess[s].holds /\ via = "graph" /\ ~sess[s].slot
  BY <1>1, <1>2 DEF Shape, Writing
<1>4. sess' = [sess EXCEPT ![s] = x] BY DEF Conflict, ConnectorInv, TypeOK
<1>5. x \in SessionStates BY <1>1 DEF SessionStates, Pcs, Rows
<1>6. /\ x.pc = "audit" /\ x.then = "over" /\ x.holds = sess[s].holds
      /\ x.row = sess[s].row /\ x.new = None /\ x.op = None
      /\ x.slot = sess[s].slot
  BY <1>1, <1>2 DEF SessionStates
<1> HIDE DEF x
<1>7. Shape(x) BY <1>3, <1>6 DEF Shape, Writing
<1>8. Moded(x) BY <1>6 DEF Moded
<1>9. s \notin acts BY <1>2 DEF ConnectorInv, ActsGood, Acted
<1>10. lock # s BY <1>2 DEF ConnectorInv, LocksGood, At
<1>11. UNCHANGED <<Provider, SignIns, stored, users, lock, faults, mode, toggles, acts>>
  BY <1>2 DEF Conflict, Recorded, At
<1>12. TokensGood'
  <2>1. broken \/ dead = {} BY <1>3 DEF ConnectorInv, TokensGood
  <2>2. QED BY <1>3, <1>11, <2>1 DEF TokensGood, DeadTokenExplained, Provider
<1>13. lock' \in Sessions \cup {None} BY <1>11 DEF ConnectorInv, TypeOK
<1>14. QED
  BY <1>2, <1>3, <1>4, <1>5, <1>6, <1>7, <1>8, <1>9, <1>10, <1>11, <1>12,
     <1>13, WritesKeeps

(* What a committed token becomes known to, and what a session knows then. *)
LEMMA CommitTokens ==
  ASSUME ConnectorInv, NEW s \in Sessions, NEW x \in SessionStates,
         sess' = [sess EXCEPT ![s] = x],
         x.new = None,
         x.row \in {sess[s].row, sess[s].new, None},
         Stores(s) \/ x.row \in {sess[s].row, None},
         stored' = IF Stores(s) THEN sess[s].new ELSE stored,
         UNCHANGED Provider
  PROVE  TokensGood'
<1> USE DEF ConnectorInv
<1>1. sess'[s] = x /\ \A o \in Sessions \ {s} : sess'[o] = sess[o] BY DEF TypeOK
<1>2. CASE broken BY <1>2 DEF TokensGood, Provider
<1>3. CASE ~broken /\ via # "xero"
  BY <1>3 DEF TokensGood, DeadTokenExplained, Provider
<1>4. CASE ~broken /\ via = "xero"
  <2>1. \A o \in Sessions : Stores(o) => Fresh(o) BY <1>4 DEF TokensGood
  <2>2. ASSUME NEW o \in Sessions, Stores(o)' PROVE Fresh(o)'
    <3>1. o # s /\ Stores(o) /\ sess'[o] = sess[o] BY <1>1, <2>2 DEF Stores
    <3>2. Fresh(o) BY <2>1, <3>1
    <3>3. Stores(s) => sess[s].new # sess[o].new BY <3>1, <3>2 DEF Fresh
    <3>4. stored' # sess[o].new BY <3>2, <3>3 DEF Fresh
    <3>5. x.row # sess[o].new
      BY <3>1, <3>2, <3>3 DEF Fresh, Stores
    <3>6. \A q \in Sessions : sess'[q].row # sess[o].new
      BY <1>1, <3>2, <3>5 DEF Fresh
    <3>7. \A q \in Sessions : Stores(q)' /\ sess'[q].new = sess[o].new => q = o
      BY <1>1, <3>2 DEF Fresh, Stores
    <3>8. QED BY <3>1, <3>2, <3>4, <3>6, <3>7 DEF Fresh, Provider
  <2>3. DeadTokenExplained'
    <3>1. CASE Stores(s) BY <2>1, <3>1 DEF Fresh, DeadTokenExplained, Provider
    <3>2. CASE ~Stores(s)
      <4>1. DeadTokenExplained BY <1>4 DEF TokensGood
      <4>2. \A o \in Sessions : Stores(o) => Stores(o)' BY <1>1, <3>2 DEF Stores
      <4>3. QED BY <3>2, <4>1, <4>2 DEF DeadTokenExplained, Provider
    <3>3. QED BY <3>1, <3>2
  <2>4. QED BY <1>4, <2>2, <2>3 DEF TokensGood, Provider
<1>5. QED BY <1>2, <1>3, <1>4

LEMMA CommitKeeps ==
  ASSUME ConnectorInv, NEW s \in Sessions, Commit(s), Recorded(s),
         UNCHANGED <<mode, toggles>>
  PROVE  ConnectorInv'
<1> USE DEF ConnectorInv
<1> DEFINE row == IF Stores(s) THEN sess[s].new ELSE sess[s].row
           y == [sess[s] EXCEPT !.pc = sess[s].then, !.new = None,
                                !.holds = FALSE, !.row = row]
           x == IF sess[s].then = "over" THEN Ended ELSE y
<1>1. sess[s] \in SessionStates /\ Shape(sess[s]) /\ Moded(sess[s])
  BY DEF TypeOK, SessionsGood
<1>2. sess[s].pc = "commit" /\ sess[s].then \in {Ready, "over"} /\ lock = s
  BY <1>1 DEF Commit, At, Shape, Writing, LocksGood
<1>3. sess' = [sess EXCEPT ![s] = x] BY DEF Commit, Became
<1>4. y \in SessionStates BY <1>1 DEF SessionStates, Rows
<1>5. /\ y.pc = sess[s].then /\ y.new = None /\ ~y.holds /\ y.row = row
      /\ y.op = sess[s].op /\ y.mode = sess[s].mode /\ y.seen = sess[s].seen
      /\ y.slot = sess[s].slot /\ y.client = sess[s].client
      /\ y.then = sess[s].then
  BY <1>1 DEF SessionStates
<1> HIDE DEF y
<1>6. x \in SessionStates /\ x.new = None /\ ~x.holds /\ x.row \in {row, None}
  BY <1>4, <1>5, AsleepType
<1>7. sess[s].then # "over" => sess[s].op # None /\ ~sess[s].slot
  BY <1>1, <1>2 DEF Shape, Writing
<1>8. Ready \in {"guard", "send"} /\ (Ready = "guard" <=> via = "graph")
  BY DEF Ready
<1>9. Shape(x) /\ Moded(x)
  <2>1. CASE sess[s].then = "over" BY <2>1, AtRest
  <2>2. CASE sess[s].then # "over"
    <3>1. x = y /\ y.pc = Ready BY <1>2, <1>5, <2>2
    <3>2. Shape(y) BY <1>5, <1>7, <1>8, <2>2, <3>1 DEF Shape, Writing
    <3>3. Passed(y) => Passed(sess[s])
      BY <1>2, <1>8, <2>2, <3>1 DEF Passed, Writing
    <3>4. Moded(y) BY <1>1, <1>2, <1>5, <1>8, <2>2, <3>1, <3>3 DEF Moded, Writing
    <3>5. QED BY <3>1, <3>2, <3>4
  <2>3. QED BY <2>1, <2>2
<1>10. x.pc \notin {"commit", "flush", "audit"}
  BY <1>2, <1>5, <1>8, AsleepType
<1>11. /\ UNCHANGED <<Provider, SignIns, faults, mode, toggles>>
       /\ lock' = None /\ acts' = acts \ {s}
       /\ stored' = IF Stores(s) THEN sess[s].new ELSE stored
       /\ users' = IF Inserts(s) THEN users + 1 ELSE users
  BY <1>2 DEF Commit, Recorded, At
<1> HIDE DEF x
<1>12. sess'[s] = x /\ \A o \in Sessions \ {s} : sess'[o] = sess[o]
  BY <1>3 DEF TypeOK
<1>13. TypeOK'
  <2>1. stored' \in Rows BY <1>1, <1>11 DEF TypeOK, SessionStates
  <2>2. users' \in Nat BY <1>11 DEF TypeOK
  <2>3. sess' \in [Sessions -> SessionStates] BY <1>3, <1>6 DEF TypeOK
  <2>4. QED BY <1>11, <2>1, <2>2, <2>3, TypesKept DEF TypeOK, Modes, Provider
<1>14. SessionsGood'
  BY <1>9, <1>11, <1>12 DEF SessionsGood, Shape, Moded, Passed, Ready, Provider
<1>15. ActsGood' BY <1>11, <1>12 DEF ActsGood, Acted, TypeOK
<1>16. LocksGood'
  <2>1. \A o \in Sessions \ {s} : ~At(o, "commit") BY <1>2 DEF LocksGood
  <2>2. None \notin Sessions BY TokenAssumption
  <2>3. QED BY <1>6, <1>10, <1>11, <1>12, <2>1, <2>2 DEF LocksGood, At
<1>17. UsersGood'
  <2>1. Stores(s) => sess[s].holds BY <1>1, <1>2 DEF Shape, Stores
  <2>2. Inserts(s) => users = 0 BY <2>1 DEF UsersGood, Inserts
  <2>3. \A o \in Sessions \ {s} : sess[o].holds => ~Stores(s)
    BY <2>1 DEF LocksGood
  <2>4. users' <= 1 BY <1>11, <2>2 DEF UsersGood
  <2>5. ASSUME NEW o \in Sessions, Inserts(o)', sess'[o].holds PROVE users' = 0
    <3>1. o # s /\ sess'[o] = sess[o] BY <1>6, <1>12, <2>5
    <3>2. Inserts(o) /\ sess[o].holds BY <2>5, <3>1 DEF Inserts, Stores
    <3>3. users = 0 BY <3>2 DEF UsersGood
    <3>4. ~Inserts(s) BY <2>3, <3>1, <3>2 DEF Inserts
    <3>5. QED BY <1>11, <3>3, <3>4
  <2>6. QED BY <2>4, <2>5 DEF UsersGood
<1>18. KnownTokens'
  <2>1. row \in Known \cup {None} /\ stored' \in Known \cup {None}
    BY <1>11 DEF KnownTokens
  <2>2. \A o \in Sessions : sess'[o].row \in Known \cup {None}
                         /\ sess'[o].new \in Known \cup {None}
    BY <1>6, <1>12, <2>1 DEF KnownTokens
  <2>3. QED BY <1>11, <2>1, <2>2 DEF KnownTokens, Known, Provider
<1>19. TokensGood'
  <2>1. x.row \in {sess[s].row, sess[s].new, None} BY <1>6
  <2>2. Stores(s) \/ x.row \in {sess[s].row, None} BY <1>6
  <2>3. QED BY <1>3, <1>6, <1>11, <2>1, <2>2, CommitTokens
<1>20. StatesGood' BY <1>11, TypesKept
<1>21. QED BY <1>13, <1>14, <1>15, <1>16, <1>17, <1>18, <1>19, <1>20

(* The world around the sessions. *)
LEMMA WorldKeeps ==
  ASSUME ConnectorInv,
         \/ World /\ UNCHANGED callVars
         \/ Toggle
         \/ UNCHANGED vars
  PROVE  ConnectorInv'
<1> USE DEF ConnectorInv
<1>1. UNCHANGED <<via, stored, users, issued, lock, sess, acts>>
  BY DEF World, Start, Revoke, Toggle, vars, tokenVars, callVars, Provider, SignIns
<1>2. TypeOK'
  <2>1. CASE Start /\ UNCHANGED callVars
    BY <2>1 DEF Start, callVars, TypeOK, Modes, Provider
  <2>2. CASE Revoke /\ UNCHANGED callVars
    <3>1. 0..issued \subseteq Issued BY TokenAssumption DEF TypeOK, Issued
    <3>2. QED
      BY <2>2, <3>1, TokenAssumption DEF Revoke, callVars, TypeOK, Modes, SignIns
  <2>3. CASE Toggle
    <3>1. mode' \in Modes' /\ toggles' \in 0..MaxToggles
      BY <2>3, ConnectorAssumption
      DEF Toggle, Modes, tokenVars, TypeOK
    <3>2. QED BY <2>3, <3>1 DEF Toggle, TypeOK, tokenVars
  <2>4. CASE UNCHANGED vars BY <2>4 DEF vars, tokenVars, callVars, TypeOK, Modes
  <2>5. QED BY <2>1, <2>2, <2>3, <2>4 DEF World
<1>3. SessionsGood'
  <2>1. \A s \in Sessions : Shape(sess[s])' <=> Shape(sess[s])
    BY <1>1 DEF Shape, Ready
  <2>2. \A s \in Sessions : Moded(sess[s]) => Moded(sess[s])'
    <3>1. CASE toggles' = toggles /\ mode' = mode
      BY <1>1, <3>1 DEF Moded, Passed
    <3>2. CASE Toggle
      <4> SUFFICES ASSUME NEW s \in Sessions, Moded(sess[s]) PROVE Moded(sess[s])'
        OBVIOUS
      <4>1. sess[s].seen \in Nat /\ toggles \in Nat /\ toggles' = toggles + 1
        BY <3>2 DEF Toggle, TypeOK, SessionStates
      <4>2. sess[s].op # None =>
              sess[s].seen <= toggles' /\ sess[s].seen # toggles'
        BY <4>1 DEF Moded
      <4>3. QED BY <1>1, <4>2 DEF Moded, Passed
    <3>3. QED BY <3>1, <3>2 DEF callVars, vars
  <2>3. QED BY <2>1, <2>2 DEF SessionsGood
<1>4. ActsGood' /\ LocksGood' /\ UsersGood'
  BY <1>1 DEF ActsGood, Acted, LocksGood, UsersGood, Inserts, Stores, At
<1>5. StatesGood'
  BY DEF World, Start, Revoke, Toggle, vars, tokenVars, StatesGood, TypeOK, SignIns
<1>6. KnownTokens'
  <2>1. dead' = dead \/ dead' = 0..issued
    BY DEF World, Start, Revoke, Toggle, vars, tokenVars, Provider
  <2>2. QED BY <1>1, <2>1 DEF KnownTokens, Known
<1>7. TokensGood'
  <2>1. broken' \/ (dead' = dead /\ broken' = broken)
    BY DEF World, Start, Revoke, Toggle, vars, tokenVars, Provider
  <2>2. QED
    BY <1>1, <2>1 DEF TokensGood, Fresh, Stores, DeadTokenExplained
<1>8. QED BY <1>2, <1>3, <1>4, <1>5, <1>6, <1>7

LEMMA StepKeeps == ASSUME ConnectorInv, [Next]_vars PROVE ConnectorInv'
<1>1. ASSUME NEW s \in Sessions, CallStep(s) PROVE ConnectorInv'
  BY <1>1, LoadKeeps, LoadSignInKeeps, GuardBlocksKeeps, GuardPassesKeeps,
     TakeSlotKeeps, ServedKeeps, NetworkFailsKeeps, ParsedKeeps, UnparsedKeeps
  DEF CallStep
<1>2. ASSUME NEW s \in Sessions, TokenStep(s), Recorded(s),
             UNCHANGED <<mode, toggles>>
      PROVE  ConnectorInv'
  <2>1. ~At(s, "commit") => UNCHANGED callVars
    BY <1>2 DEF Recorded, callVars
  <2>2. CASE \/ StoredToken(s) \/ NoKey(s) \/ Rejected(s) \/ Unavailable(s)
             \/ Consume(s) \/ BadState(s) \/ ExchangeFails(s)
    <3>1. ~At(s, "commit")
      BY <2>2 DEF StoredToken, NoKey, Rejected, Unavailable, Consume, BadState,
         ExchangeFails, Refreshes, At
    <3>2. QED
      BY <2>1, <2>2, <3>1, StoredTokenKeeps, TokenEndsKeeps, TokenAuditKeeps,
         ConsumeKeeps
  <2>3. CASE \/ AnswerLost(s) \/ Refresh(s) \/ Flush(s) \/ Conflict(s)
             \/ Victim(s) \/ Append(s) \/ Commit(s) \/ Exchange(s)
    BY <1>2, <2>3, AnswerLostKeeps, RefreshKeeps, FlushKeeps, ConflictKeeps,
       VictimKeeps, AppendKeeps, CommitKeeps, ExchangeKeeps
  <2>4. QED BY <1>2, <2>2, <2>3 DEF TokenStep
<1>3. ASSUME NEW s \in Sessions, Step(s) \/ Die(s) PROVE ConnectorInv'
  BY <1>1, <1>2, <1>3, DieKeeps DEF Step
<1>4. QED BY <1>3, WorldKeeps DEF Next

(* Every reachable state satisfies the invariant: a token in hand is known *)
(* to its session alone, and who waits for a slot holds no lock.           *)
THEOREM ConnectorInvariant == Spec => []ConnectorInv
<1>1. Init => ConnectorInv BY InitHolds
<1>2. ConnectorInv /\ [Next]_vars => ConnectorInv' BY StepKeeps
<1>3. QED BY <1>1, <1>2, PTL DEF Spec

(* The variables of the connectors keep their types. *)
THEOREM ConnectorTypeCorrect == Spec => []TypeOK
<1>1. ConnectorInv => TypeOK BY DEF ConnectorInv
<1>2. QED BY <1>1, ConnectorInvariant, PTL

(* The stored refresh token can be redeemed, unless a new one is about to  *)
(* be committed or a fault explains it.                                    *)
THEOREM DeadTokenExplainedHolds == Spec => []DeadTokenExplained
<1>1. ConnectorInv => DeadTokenExplained
  BY DEF ConnectorInv, TokensGood, DeadTokenExplained
<1>2. QED BY <1>1, ConnectorInvariant, PTL

(* A state buys one exchange, and a person becomes one user. *)
THEOREM StateUsedOnceHolds == Spec => []StateUsedOnce
<1>1. ConnectorInv => StateUsedOnce
  <2>1. ConnectorInv => exchanges <= starts - states
    BY DEF ConnectorInv, StatesGood, TypeOK
  <2>2. ConnectorInv => users <= 1 BY DEF ConnectorInv, UsersGood
  <2>3. QED BY <2>1, <2>2 DEF StateUsedOnce
<1>2. QED BY <1>1, ConnectorInvariant, PTL

(* A write that was carried out is on its way to the audit log. *)
THEOREM ActsAuditedHolds == Spec => []ActsAudited
<1>1. ConnectorInv => ActsAudited
  BY DEF ConnectorInv, ActsGood, Acted, ActsAudited
<1>2. QED BY <1>1, ConnectorInvariant, PTL

(* No circle of waiting sessions goes through the slot of a mailbox. *)
THEOREM SlotsNeverInCircleHolds == Spec => []SlotsNeverInCircle
<1>1. ConnectorInv => SlotsNeverInCircle
  <2> SUFFICES ASSUME ConnectorInv, NEW s \in Sessions, NEW o \in Sessions,
                      WaitsFor(s, o), WaitsFor(o, s), At(s, "slot")
               PROVE  FALSE
    BY DEF SlotsNeverInCircle
  <2>1. sess[s].new = None /\ ~sess[s].holds /\ ~sess[s].slot /\ lock # s
    BY DEF At, ConnectorInv, SessionsGood, Shape, Writing, LocksGood
  <2>2. QED BY <2>1 DEF WaitsFor, Blocks, At
<1>2. QED BY <1>1, ConnectorInvariant, PTL

(* A session changes nothing of another. *)
LEMMA OthersKept ==
  ASSUME ConnectorInv, NEW o \in Sessions, NEW s \in Sessions, s # o,
         Step(o) \/ Die(o)
  PROVE  sess'[s] = sess[s] /\ (s \in acts' => s \in acts)
<1> USE DEF ConnectorInv
<1>1. CASE CallStep(o)
  <2>1. s \in acts' => s \in acts
    BY <1>1 DEF CallStep, Load, LoadSignIn, GuardBlocks, GuardPasses, TakeSlot,
       Served, Refused, NetworkFails, Parsed, Unparsed, Acts, callVars
  <2>2. sess'[s] = sess[s]
    BY <1>1 DEF CallStep, Load, LoadSignIn, GuardBlocks, GuardPasses, TakeSlot,
       Served, Refused, NetworkFails, Parsed, Unparsed, Goto, Became, AuditThen,
       TypeOK
  <2>3. QED BY <2>1, <2>2
<1>2. CASE TokenStep(o) /\ Recorded(o)
  <2>1. s \in acts' => s \in acts BY <1>2 DEF Recorded
  <2>2. sess'[s] = sess[s]
    BY <1>2 DEF TokenStep, StoredToken, NoKey, Rejected, Unavailable, AnswerLost,
       Refresh, Flush, Conflict, Victim, Append, Commit, Consume, BadState,
       Exchange, ExchangeFails, GiveUp, Goto, Became, AuditThen, TypeOK
  <2>3. QED BY <2>1, <2>2
<1>3. CASE Die(o)
  BY <1>3 DEF Die, TokenDie, Goto, Became, TypeOK
<1>4. QED BY <1>1, <1>2, <1>3 DEF Step

(* What the step of a session at its request may write, and who hears of it. *)
LEMMA SendsByFlag ==
  ASSUME ConnectorInv, [Next]_vars, NEW s \in Sessions, At(s, "send")
  PROVE  /\ s \in acts' => sess[s].op.write
         /\ sess'[s].client => Reaches(s)
<1>1. /\ s \notin acts /\ ~sess[s].client /\ sess[s].op # None
      /\ sess[s] \in SessionStates /\ ~sess[s].holds
  BY Idle DEF At, ConnectorInv, SessionsGood, Shape, Moded, TypeOK, Writing
<1>2. CASE \E o \in Sessions \ {s} : Step(o) \/ Die(o)
  BY <1>1, <1>2, OthersKept
<1>3. CASE Served(s) \/ Refused(s) \/ NetworkFails(s)
  <2>1. s \in acts' => sess[s].op.write
    BY <1>1, <1>3 DEF Served, Refused, NetworkFails, Acts, callVars
  <2>2. sess'[s].client => Reaches(s)
    <3>1. sess \in [Sessions -> SessionStates] BY DEF ConnectorInv, TypeOK
    <3>2. CASE Served(s) BY <1>1, <3>1, <3>2 DEF Served, SessionStates
    <3>3. CASE Refused(s) BY <1>1, <3>1, <3>3 DEF Refused, SessionStates
    <3>4. CASE NetworkFails(s)
      BY <1>1, <3>1, <3>4 DEF NetworkFails, AuditThen, SessionStates
    <3>5. QED BY <1>3, <3>2, <3>3, <3>4
  <2>3. QED BY <2>1, <2>2
<1>4. CASE Die(s)
  BY <1>4, AsleepType DEF Die, TokenDie, Goto, Became, ConnectorInv, TypeOK
<1>5. CASE Step(s) /\ ~(Served(s) \/ Refused(s) \/ NetworkFails(s))
  <2>1. ~CallStep(s)
    BY <1>5 DEF CallStep, Load, LoadSignIn, GuardBlocks, GuardPasses, TakeSlot,
       Parsed, Unparsed, Called, At
  <2>2. ~TokenStep(s)
    BY <1>1 DEF TokenStep, StoredToken, NoKey, Rejected, Unavailable, AnswerLost,
       Refresh, Flush, Conflict, Victim, Append, Commit, Consume, BadState,
       Exchange, ExchangeFails, Redeemed, Refreshes, Circle, At
  <2>3. QED BY <1>5, <2>1, <2>2 DEF Step
<1>6. CASE (World /\ UNCHANGED callVars) \/ Toggle \/ UNCHANGED vars
  BY <1>1, <1>6 DEF World, Start, Revoke, Toggle, vars, tokenVars, callVars
<1>7. QED BY <1>2, <1>3, <1>4, <1>5, <1>6 DEF Next

(* Whatever the firm's flags are switched to while sessions run, no step   *)
(* writes or reaches a client that the flags, as they were read, forbid.   *)
THEOREM ModeRespectedHolds == Spec => ModeRespected
<1> DEFINE Allowed ==
      \A s \in Sessions : At(s, "send") /\ sess[s].seen = toggles =>
        /\ s \in acts' /\ "shadow" \in mode => sess[s].op = RegisterWebhook
        /\ sess'[s].client => "sandbox" \notin mode
<1>1. ConnectorInv /\ [Next]_vars => [Allowed]_vars
  <2> SUFFICES ASSUME ConnectorInv, [Next]_vars, NEW s \in Sessions,
                      At(s, "send"), sess[s].seen = toggles
               PROVE  /\ s \in acts' /\ "shadow" \in mode =>
                           sess[s].op = RegisterWebhook
                      /\ sess'[s].client => "sandbox" \notin mode
    OBVIOUS
  <2>1. /\ sess[s].op \in Ops /\ sess[s].mode = mode
        /\ ~(sess[s].op.guarded /\ "shadow" \in mode)
    BY DEF ConnectorInv, TypeOK, SessionStates, SessionsGood, Shape, Moded,
       Passed, At
  <2>2. s \in acts' => sess[s].op.write BY SendsByFlag
  <2>3. sess'[s].client => Reaches(s) BY SendsByFlag
  <2>4. QED BY <2>1, <2>2, <2>3, OpFacts DEF Reaches
<1>2. QED BY <1>1, ConnectorInvariant, PTL DEF Spec, ModeRespected
=============================================================================
