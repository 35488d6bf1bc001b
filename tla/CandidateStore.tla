--------------------------- MODULE CandidateStore ---------------------------
(***************************************************************************)
(* What `satyrn-engine deliver` promises about the shared repository, with *)
(* every worktree, process and receipt field hidden.  Several deliveries   *)
(* compete for the candidate refs refs/satyrn/candidates/<id>/head; a ref  *)
(* is created at most once, by a delivery that was still working, and a    *)
(* delivery announces a candidate only after it created the ref.  The      *)
(* caller, and the commands deliveries run, may create or remove a ref by  *)
(* themselves; a delivery may die without a word at any time.              *)
(***************************************************************************)
CONSTANTS Deliveries,  \* the delivery operations, each one engine process
          Ids,         \* the contract ids
          NoCommit,    \* the value of a candidate ref that does not exist
          Foreign      \* a commit that no delivery made

VARIABLES claim,   \* claim[d]: the contract id delivery d works for
          refs,    \* refs[i]: what the candidate ref of id i points at
          status   \* status[d]: how far delivery d has come

vars == <<claim, refs, status>>

Statuses == {"working", "created", "announced", "refused", "silent"}

TypeOK ==
  /\ claim \in [Deliveries -> Ids]
  /\ refs \in [Ids -> Deliveries \cup {NoCommit, Foreign}]
  /\ status \in [Deliveries -> Statuses]

Init ==
  /\ claim \in [Deliveries -> Ids]
  /\ refs \in [Ids -> {NoCommit, Foreign}]
  /\ status = [d \in Deliveries |-> "working"]

(* The ref comes into existence, pointing at d's own commit. *)
Create(d) ==
  /\ status[d] = "working"
  /\ refs[claim[d]] = NoCommit
  /\ refs' = [refs EXCEPT ![claim[d]] = d]
  /\ status' = [status EXCEPT ![d] = "created"]
  /\ UNCHANGED claim

(* A receipt with outcome candidate-created reaches the caller. *)
Announce(d) ==
  /\ status[d] = "created"
  /\ status' = [status EXCEPT ![d] = "announced"]
  /\ UNCHANGED <<claim, refs>>

(* A receipt with outcome refused or discarded reaches the caller. *)
Refuse(d) ==
  /\ status[d] = "working"
  /\ status' = [status EXCEPT ![d] = "refused"]
  /\ UNCHANGED <<claim, refs>>

(* The delivery ends and no receipt reaches the caller. *)
Die(d) ==
  /\ status[d] \in {"working", "created"}
  /\ status' = [status EXCEPT ![d] = "silent"]
  /\ UNCHANGED <<claim, refs>>

(* Someone other than the engine creates or removes a candidate ref. *)
Meddle(i) ==
  /\ \/ refs[i] = NoCommit /\ refs' = [refs EXCEPT ![i] = Foreign]
     \/ refs[i] # NoCommit /\ refs' = [refs EXCEPT ![i] = NoCommit]
  /\ UNCHANGED <<claim, status>>

Next ==
  \/ \E d \in Deliveries : Create(d) \/ Announce(d) \/ Refuse(d) \/ Die(d)
  \/ \E i \in Ids : Meddle(i)

Spec == Init /\ [][Next]_vars
=============================================================================
