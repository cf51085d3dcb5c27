-------------------------- MODULE CompletionLedger --------------------------
(***************************************************************************)
(* What the trust chain promises, without its documents: a ledger of how   *)
(* each task was completed.  A task that needs a verdict is approved only  *)
(* by a standing judgment about the state it is in at that moment, one     *)
(* that meets the review policy whenever that policy is in force then; the *)
(* only other ways to complete are to need none or to override the gate    *)
(* on the record.  TrustChain implements it.                               *)
(***************************************************************************)
CONSTANTS
  Tasks,
  States    \* what a judgment can be about

VARIABLES
  phase,      \* "open", "completed" or "archived"
  present,    \* the state each task is in
  gated,      \* completing the task takes a judgment
  standing,   \* the state the latest judgment approves: {} or {s}
  reviewed,   \* the latest judgment meets the review policy
  demanding,  \* the review policy is in force
  outcome     \* "none", "approved", "ungated" or "overridden"

vars == <<phase, present, gated, standing, reviewed, demanding, outcome>>

Init ==
  /\ phase = [t \in Tasks |-> "open"]
  /\ present \in [Tasks -> States]
  /\ gated \in [Tasks -> BOOLEAN]
  /\ standing = [t \in Tasks |-> {}]
  /\ reviewed \in [Tasks -> BOOLEAN]
  /\ demanding \in BOOLEAN
  /\ outcome = [t \in Tasks |-> "none"]

(* The world moves: any task may be in another state, and need a judgment
   or no longer need one; the review policy comes into force, or is lost. *)
Change ==
  /\ present' \in [Tasks -> States]
  /\ gated' \in [Tasks -> BOOLEAN]
  /\ demanding' \in BOOLEAN
  /\ UNCHANGED <<phase, standing, reviewed, outcome>>

(* A judgment is about the present state, and replaces the one before. *)
Judge(t) ==
  /\ \E s \in {{}, {present[t]}} : standing' = [standing EXCEPT ![t] = s]
  /\ \E met \in BOOLEAN : reviewed' = [reviewed EXCEPT ![t] = met]
  /\ UNCHANGED <<phase, present, gated, demanding, outcome>>

Close(t, how) ==
  /\ phase[t] = "open"
  /\ phase' = [phase EXCEPT ![t] = "completed"]
  /\ outcome' = [outcome EXCEPT ![t] = how]
  /\ UNCHANGED <<present, gated, standing, reviewed, demanding>>

Approve(t) ==
  /\ gated[t]
  /\ standing[t] = {present[t]}
  /\ demanding => reviewed[t]
  /\ Close(t, "approved")

Finish(t) == ~gated[t] /\ Close(t, "ungated")

Override(t) == Close(t, "overridden")

Archive(t) ==
  /\ phase[t] = "completed"
  /\ phase' = [phase EXCEPT ![t] = "archived"]
  /\ UNCHANGED <<present, gated, standing, reviewed, demanding, outcome>>

Next ==
  \/ Change
  \/ \E t \in Tasks :
       Judge(t) \/ Approve(t) \/ Finish(t) \/ Override(t) \/ Archive(t)

Spec == Init /\ [][Next]_vars

=============================================================================
