------------------------------ MODULE DraftGate ------------------------------
(***************************************************************************)
(* What the approval queue promises, without rows, requests or sweeps: an  *)
(* e-mail draft leaves the system only for a proposal that as many         *)
(* distinct people have approved as its policy asks for.  A proposal that  *)
(* was approved automatically needs nobody.                                *)
(***************************************************************************)
EXTENDS Integers, FiniteSets

CONSTANTS Items,  \* the proposals
          Users   \* the people who may vote

VARIABLES proposed,  \* the items proposed so far
          needed,    \* how many distinct votes each proposal needs
          votes,     \* who has voted for each proposal
          emitted    \* how many drafts left the system for each proposal

gateVars == <<proposed, needed, votes, emitted>>

GateInit ==
  /\ proposed = {}
  /\ needed = [i \in Items |-> 0]
  /\ votes = [i \in Items |-> {}]
  /\ emitted = [i \in Items |-> 0]

(* A plugin proposes an item; the policy of the item is fixed here. *)
Propose(i) ==
  /\ i \in Items \ proposed
  /\ proposed' = proposed \cup {i}
  /\ needed' \in [Items -> Nat]
  /\ \A j \in Items \ {i} : needed'[j] = needed[j]
  /\ UNCHANGED <<votes, emitted>>

Vote(i, u) ==
  /\ i \in proposed
  /\ votes' = [votes EXCEPT ![i] = @ \cup {u}]
  /\ UNCHANGED <<proposed, needed, emitted>>

Emit(i) ==
  /\ i \in proposed
  /\ Cardinality(votes[i]) >= needed[i]
  /\ emitted' = [emitted EXCEPT ![i] = @ + 1]
  /\ UNCHANGED <<proposed, needed, votes>>

GateNext ==
  \E i \in Items : Propose(i) \/ Emit(i) \/ \E u \in Users : Vote(i, u)

GateSpec == GateInit /\ [][GateNext]_gateVars
=============================================================================
