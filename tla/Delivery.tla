------------------------------ MODULE Delivery ------------------------------
(***************************************************************************)
(* The delivery pipeline of src/satyrn_engine/delivery.py: `deliver` checks*)
(* the contract, inspects the repository, runs one command in a detached   *)
(* worktree, builds a candidate commit from the tree it leaves, validates  *)
(* it, removes the worktree and only then creates the candidate ref.       *)
(*                                                                         *)
(* Several deliveries run at once on one repository: they share its refs   *)
(* and its list of worktrees, and each may be told to stop by SIGTERM      *)
(* (cli.py turns it into one exception raised at whatever statement is     *)
(* running) or be killed outright.  Any git command, process creation or   *)
(* file removal may fail.                                                  *)
(***************************************************************************)
EXTENDS Naturals

CONSTANTS Deliveries,  \* the delivery operations, each one engine process
          Ids,         \* the contract ids
          Contracts,   \* the contracts deliveries are asked to deliver
          NoCommit,    \* the value of a candidate ref that does not exist
          Foreign      \* a commit that no delivery made

ASSUME ContractsAssumption ==
  Contracts \subseteq [id : Ids, budget : BOOLEAN, runs : 0..3]

ASSUME CommitsAssumption ==
  NoCommit \notin Deliveries /\ Foreign \notin Deliveries /\ NoCommit # Foreign

VARIABLES
  (* shared by every process that opens the repository *)
  refs,      \* refs[i]: the candidate ref of id i
  wt,        \* wt[d]: d's worktree is registered and on disk
  (* the operating system's view of one delivery *)
  parent,    \* parent[d]: d's temporary directory is on disk
  cmd,       \* cmd[d]: the command's process group
  test,      \* test[d]: the process group of the current test command
  status,    \* status[d]: the direct command's own exit status
  (* the engine process's own state *)
  pc,        \* pc[d]: the statement delivery d is about to execute
  contract,  \* contract[d]: the parsed contract and the resolved budget
  reg,       \* reg[d]: _AttemptState.registration
  gate,      \* gate[d]: _AttemptState.cleanup_gate
  trip,      \* trip[d]: why the engine tore the command down, if it did
  runs,      \* runs[d]: validation runs still to do
  failedRun, \* failedRun[d]: a validation run has exited non-zero
  pending,   \* pending[d]: the receipt built so far; written when pc is "done"
  sigterm,   \* sigterm[d]: the termination exception has been raised
  diag,      \* diag[d]: a retained path was written to stderr
  (* history *)
  published  \* the deliveries whose update-ref succeeded

shared == <<refs, published>>
procs  == <<cmd, test, status>>
belief == <<reg, gate, trip>>
valid  == <<runs, failedRun>>
vars   == <<refs, published, wt, parent, cmd, test, status, pc, contract, reg,
            gate, trip, runs, failedRun, pending, sigterm, diag>>

Codes == {"NONE", "OK", "TESTS_FAILED", "BUDGET_EXHAUSTED", "CONTRACT_REFUSED",
          "REPO_NOT_GIT", "REPO_DIRTY", "INVALID_CANDIDATE_ID",
          "CANDIDATE_EXISTS", "COMMAND_UNAVAILABLE", "COMMAND_TIMEOUT",
          "COMMAND_FAILED", "COMMAND_CHANGED_HEAD", "NO_CHANGES", "GIT_FAILED",
          "CLEANUP_FAILED"}

(* The codes whose outcome is candidate-created. *)
CreatedCodes == {"OK", "TESTS_FAILED", "BUDGET_EXHAUSTED"}

Validations == {"NOT_APPLICABLE", "NOT_REQUESTED", "PASSED", "FAILED",
                "UNAVAILABLE", "TIMED_OUT"}

Receipts == [code : Codes, commit : BOOLEAN, moved : BOOLEAN,
             budget : {"not_declared", "within", "exhausted"}, lost : BOOLEAN,
             exit : {"null", "zero", "nonzero"}, validation : Validations,
             path : {"none", "worktree", "parent"}]

(* _context_receipt with its default arguments. *)
Receipt(code) ==
  [code |-> code, commit |-> FALSE, moved |-> FALSE, budget |-> "not_declared",
   lost |-> FALSE, exit |-> "null", validation |-> "NOT_APPLICABLE",
   path |-> "none"]

(* Mutant: the rebuilt receipt falls back on the default of head_moved. *)
RebuiltWithoutMove(code, p) ==
  [Receipt(code) EXCEPT !.commit = p.commit, !.budget = p.budget, !.lost = p.lost,
                        !.exit = p.exit, !.validation = p.validation]

(* A receipt of another code that repeats what the attempt already knows,  *)
(* as the cleanup-failed and the unpublished paths build it.               *)
Rebuilt(code, p) ==
  [Receipt(code) EXCEPT !.commit = p.commit, !.moved = p.moved,
                        !.budget = p.budget, !.lost = p.lost, !.exit = p.exit,
                        !.validation = p.validation]

Running == {"check", "inspect", "inspect_ref", "allocate", "allocated",
            "adding", "spool", "starting", "running", "teardown", "head",
            "commit", "validate", "test", "testing", "drain", "cleanup",
            "rmtree", "publish", "explain", "return"}

(* A receipt was written; the receipt met a closed stdout (exit 1); SIGTERM *)
(* unwound the process (exit 143); the process was killed.                 *)
Ended == {"done", "unread", "terminated", "killed"}

TypeOK ==
  /\ refs \in [Ids -> Deliveries \cup {NoCommit, Foreign}]
  /\ published \subseteq Deliveries
  /\ wt \in [Deliveries -> BOOLEAN]
  /\ parent \in [Deliveries -> BOOLEAN]
  /\ cmd \in [Deliveries -> {"none", "live", "orphans", "gone"}]
  /\ test \in [Deliveries -> {"none", "live", "orphans", "gone"}]
  /\ status \in [Deliveries -> {"none", "zero", "lost", "nonzero", "killed"}]
  /\ pc \in [Deliveries -> Running \cup Ended]
  /\ contract \in [Deliveries -> Contracts]
  /\ reg \in [Deliveries -> {"ABSENT", "MAY_EXIST", "PRESENT"}]
  /\ gate \in [Deliveries -> {"OPEN", "CLOSED"}]
  /\ trip \in [Deliveries -> {"none", "timeout", "exhausted", "sigterm"}]
  /\ runs \in [Deliveries -> 0..3]
  /\ failedRun \in [Deliveries -> BOOLEAN]
  /\ pending \in [Deliveries -> Receipts]
  /\ sigterm \in [Deliveries -> BOOLEAN]
  /\ diag \in [Deliveries -> BOOLEAN]

Init ==
  /\ refs \in [Ids -> {NoCommit, Foreign}]
  /\ published = {}
  /\ wt = [d \in Deliveries |-> FALSE]
  /\ parent = [d \in Deliveries |-> FALSE]
  /\ cmd = [d \in Deliveries |-> "none"]
  /\ test = [d \in Deliveries |-> "none"]
  /\ status = [d \in Deliveries |-> "none"]
  /\ pc = [d \in Deliveries |-> "check"]
  /\ contract \in [Deliveries -> Contracts]
  /\ reg = [d \in Deliveries |-> "ABSENT"]
  /\ gate = [d \in Deliveries |-> "OPEN"]
  /\ trip = [d \in Deliveries |-> "none"]
  /\ runs = [d \in Deliveries |-> 0]
  /\ failedRun = [d \in Deliveries |-> FALSE]
  /\ pending = [d \in Deliveries |-> Receipt("NONE")]
  /\ sigterm = [d \in Deliveries |-> FALSE]
  /\ diag = [d \in Deliveries |-> FALSE]

Ref(d) == refs[contract[d].id]

Goto(d, label) == pc' = [pc EXCEPT ![d] = label]

Build(d, receipt) == pending' = [pending EXCEPT ![d] = receipt]

(***************************************************************************)
(* Before the worktree exists: check, _preflight and _temporary_parent.    *)
(***************************************************************************)
(* A refusal before _AttemptState exists has nothing to clean up. *)
Refuse(d, code) ==
  /\ Goto(d, "return")
  /\ Build(d, Receipt(code))
  /\ UNCHANGED <<shared, wt, parent, procs, contract, belief, valid, sigterm, diag>>

Proceed(d, label) ==
  /\ Goto(d, label)
  /\ UNCHANGED <<shared, wt, parent, procs, contract, belief, valid, pending,
                 sigterm, diag>>

Check(d) ==
  /\ pc[d] = "check"
  /\ Refuse(d, "CONTRACT_REFUSED") \/ Proceed(d, "inspect")

(* Everything of _preflight before the candidate ref: the environment, the *)
(* root, the base commit, cleanliness and the id.                          *)
InspectRepository(d) ==
  /\ pc[d] = "inspect"
  /\ \/ \E code \in {"GIT_FAILED", "REPO_NOT_GIT", "REPO_DIRTY",
                     "INVALID_CANDIDATE_ID"} : Refuse(d, code)
     \/ Proceed(d, "inspect_ref")

InspectRef(d) ==
  /\ pc[d] = "inspect_ref"
  /\ \/ Refuse(d, "GIT_FAILED")
     \/ Ref(d) # NoCommit /\ Refuse(d, "CANDIDATE_EXISTS")
     \/ Ref(d) = NoCommit /\ Proceed(d, "allocate")

AllocateParent(d) ==
  /\ pc[d] = "allocate"
  /\ \/ Refuse(d, "GIT_FAILED")
     \/ /\ Goto(d, "allocated")
        /\ parent' = [parent EXCEPT ![d] = TRUE]
        /\ UNCHANGED <<shared, wt, procs, contract, belief, valid, pending,
                       sigterm, diag>>

(***************************************************************************)
(* _attempt: the worktree, then _run_and_commit.                           *)
(***************************************************************************)
(* Enters the try block: from here on the finally clause cleans up. *)
EnterAttempt(d) ==
  /\ pc[d] = "allocated"
  /\ Goto(d, "adding")
  /\ reg' = [reg EXCEPT ![d] = "MAY_EXIST"]
  /\ UNCHANGED <<shared, wt, parent, procs, contract, gate, trip, valid, pending,
                 sigterm, diag>>

(* `git worktree add`, then observe_registration on what `worktree list`   *)
(* says: it may fail to answer.  A failed add may leave a registration.    *)
AddWorktree(d) ==
  /\ pc[d] = "adding"
  /\ \E added, registered, listed \in BOOLEAN :
       /\ added => registered
       /\ wt' = [wt EXCEPT ![d] = registered]
       /\ reg' = [reg EXCEPT ![d] = IF ~listed THEN "MAY_EXIST"
                                    ELSE IF registered THEN "PRESENT" ELSE "ABSENT"]
       /\ IF added /\ listed
          THEN Goto(d, "spool") /\ UNCHANGED pending
          ELSE Goto(d, "cleanup") /\ Build(d, Receipt("GIT_FAILED"))
  /\ UNCHANGED <<shared, parent, procs, contract, gate, trip, valid, sigterm, diag>>

OpenSpool(d) ==
  /\ pc[d] = "spool"
  /\ \/ /\ Goto(d, "cleanup")
        /\ Build(d, Receipt("COMMAND_UNAVAILABLE"))
        /\ UNCHANGED gate
     \/ /\ Goto(d, "starting")
        /\ gate' = [gate EXCEPT ![d] = "CLOSED"]
        /\ UNCHANGED pending
  /\ UNCHANGED <<shared, wt, parent, procs, contract, reg, trip, valid, sigterm, diag>>

StartCommand(d) ==
  /\ pc[d] = "starting"
  /\ \/ /\ Goto(d, "cleanup")
        /\ gate' = [gate EXCEPT ![d] = "OPEN"]
        /\ Build(d, Receipt("COMMAND_UNAVAILABLE"))
        /\ UNCHANGED cmd
     \/ /\ Goto(d, "running")
        /\ cmd' = [cmd EXCEPT ![d] = "live"]
        /\ UNCHANGED <<gate, pending>>
  /\ UNCHANGED <<shared, wt, parent, test, status, contract, reg, trip, valid,
                 sigterm, diag>>

(* The budget state of a receipt built after the command ended. *)
BudgetState(d) ==
  IF trip[d] = "exhausted" THEN "exhausted"
  ELSE IF contract[d].budget THEN "within" ELSE "not_declared"

(* What every receipt after the command repeats. *)
Spent(d, code) ==
  [Receipt(code) EXCEPT !.budget = BudgetState(d), !.lost = (status[d] = "lost")]

(* The command exited by itself: no teardown runs, whatever its descendants *)
(* still do.  ATTEMPT_OK_FORWARD_LOST counts as success.                   *)
CommandFinished(d) ==
  /\ pc[d] = "running"
  /\ cmd[d] \in {"orphans", "gone"}
  /\ gate' = [gate EXCEPT ![d] = "OPEN"]
  /\ IF status[d] \in {"zero", "lost"}
     THEN Goto(d, "head") /\ UNCHANGED pending
     ELSE /\ Goto(d, "cleanup")
          /\ Build(d, [Spent(d, "COMMAND_FAILED") EXCEPT !.exit = "nonzero"])
  /\ UNCHANGED <<shared, wt, parent, procs, contract, reg, trip, valid, sigterm, diag>>

(* Mutant: without a budget the command is waited for without a timeout. *)
TripLimitOnlyBudget(d) ==
  /\ pc[d] = "running"
  /\ contract[d].budget
  /\ \E limit \in {"timeout", "exhausted"} : trip' = [trip EXCEPT ![d] = limit]
  /\ Goto(d, "teardown")
  /\ UNCHANGED <<shared, wt, parent, procs, contract, reg, gate, valid, pending,
                 sigterm, diag>>

(* Without a budget process.wait times out on a live child; with one the   *)
(* stream also compares the clock before it looks whether the child lives, *)
(* and a turn or token limit may be crossed by output already written.     *)
TripLimit(d) ==
  /\ pc[d] = "running"
  /\ \/ /\ cmd[d] = "live" \/ contract[d].budget
        /\ trip' = [trip EXCEPT ![d] = "timeout"]
     \/ /\ contract[d].budget
        /\ trip' = [trip EXCEPT ![d] = "exhausted"]
  /\ Goto(d, "teardown")
  /\ UNCHANGED <<shared, wt, parent, procs, contract, reg, gate, valid, pending,
                 sigterm, diag>>

(* Mutant: the gate opens as soon as the signals were sent. *)
TearDownCommandUnconfirmed(d) ==
  /\ pc[d] = "teardown"
  /\ \E survivors \in {cmd[d], "gone"} : cmd' = [cmd EXCEPT ![d] = survivors]
  /\ gate' = [gate EXCEPT ![d] = "OPEN"]
  /\ status' = [status EXCEPT ![d] = IF @ = "none" THEN "killed" ELSE @]
  /\ IF trip[d] = "exhausted" THEN Goto(d, "head") ELSE Goto(d, "cleanup")
  /\ IF trip[d] = "timeout" THEN Build(d, Spent(d, "COMMAND_TIMEOUT"))
                            ELSE UNCHANGED pending
  /\ UNCHANGED <<shared, wt, parent, test, contract, reg, trip, valid, sigterm, diag>>

(* _teardown_process_group, then _apply_teardown: the gate opens only when *)
(* the group is confirmed gone and the direct child is reaped.  A group    *)
(* that is not confirmed gone may be gone or not.                          *)
TearDownCommand(d) ==
  /\ pc[d] = "teardown"
  /\ \E confirmed \in BOOLEAN, survivors \in {cmd[d], "gone"} :
       /\ confirmed => survivors = "gone"
       /\ cmd' = [cmd EXCEPT ![d] = survivors]
       /\ gate' = [gate EXCEPT ![d] = IF confirmed THEN "OPEN" ELSE "CLOSED"]
  /\ status' = [status EXCEPT ![d] = IF @ = "none" THEN "killed" ELSE @]
  /\ IF trip[d] = "exhausted" THEN Goto(d, "head") ELSE Goto(d, "cleanup")
  /\ IF trip[d] = "timeout" THEN Build(d, Spent(d, "COMMAND_TIMEOUT"))
                            ELSE UNCHANGED pending
  /\ UNCHANGED <<shared, wt, parent, test, contract, reg, trip, valid, sigterm, diag>>

(* A receipt built after the command ended well, or was stopped by its     *)
(* budget: the code writes command_exit 0 in both cases.                   *)
AfterCommand(d, code, moved) ==
  [Spent(d, code) EXCEPT !.exit = "zero", !.moved = moved]

InspectHead(d) ==
  /\ pc[d] = "head"
  /\ \/ \E code \in {"GIT_FAILED", "COMMAND_CHANGED_HEAD"} :
          Goto(d, "cleanup") /\ Build(d, AfterCommand(d, code, FALSE))
     \/ \E moved \in BOOLEAN :
          Goto(d, "commit") /\ Build(d, AfterCommand(d, "NONE", moved))
  /\ UNCHANGED <<shared, wt, parent, procs, contract, belief, valid, sigterm, diag>>

(* Stage, write-tree, commit-tree on the base commit, diff-tree. *)
CommitTree(d) ==
  /\ pc[d] = "commit"
  /\ \/ \E code \in {"GIT_FAILED", "NO_CHANGES"}, made \in BOOLEAN :
          /\ made => code = "GIT_FAILED"   \* the paths of a made commit cannot be read
          /\ Goto(d, "cleanup")
          /\ Build(d, [AfterCommand(d, code, pending[d].moved) EXCEPT !.commit = made])
     \/ /\ Goto(d, "validate")
        /\ Build(d, IF trip[d] = "exhausted"
                    THEN [pending[d] EXCEPT !.code = "BUDGET_EXHAUSTED",
                                            !.commit = TRUE, !.exit = "null"]
                    ELSE [pending[d] EXCEPT !.code = "OK", !.commit = TRUE])
  /\ UNCHANGED <<shared, wt, parent, procs, contract, belief, valid, sigterm, diag>>

(***************************************************************************)
(* _validate_candidate and _run_test_command.                              *)
(***************************************************************************)
Validated(d, outcome) ==
  /\ Goto(d, "cleanup")
  /\ Build(d, [pending[d] EXCEPT !.validation = outcome])

(* A failed run changes the code, unless the budget already decided it. *)
ValidationFailed(d) ==
  /\ Goto(d, "cleanup")
  /\ Build(d, [pending[d] EXCEPT !.validation = "FAILED",
                                 !.code = IF @ = "BUDGET_EXHAUSTED" THEN @
                                          ELSE "TESTS_FAILED"])

(* The candidate is checked out and the carried set restored; the declared *)
(* command then runs alone, with the preserved and with the checked paths. *)
BeginValidation(d) ==
  /\ pc[d] = "validate"
  /\ IF contract[d].runs = 0
     THEN Validated(d, "NOT_REQUESTED") /\ UNCHANGED runs
     ELSE \/ Validated(d, "UNAVAILABLE") /\ UNCHANGED runs
          \/ /\ Goto(d, "test")
             /\ runs' = [runs EXCEPT ![d] = contract[d].runs]
             /\ UNCHANGED pending
  /\ UNCHANGED <<shared, wt, parent, procs, contract, belief, failedRun, sigterm, diag>>

StartTest(d) ==
  /\ pc[d] = "test"
  /\ \/ Validated(d, "UNAVAILABLE") /\ UNCHANGED test
     \/ /\ Goto(d, "testing")
        /\ test' = [test EXCEPT ![d] = "live"]
        /\ UNCHANGED pending
  /\ UNCHANGED <<shared, wt, parent, cmd, status, contract, belief, valid, sigterm, diag>>

(* The run ended by itself; descendants that let go of the pipe may go on. *)
TestFinished(d) ==
  /\ pc[d] = "testing"
  /\ \E left \in {"orphans", "gone"} : test' = [test EXCEPT ![d] = left]
  /\ \E failed \in BOOLEAN :
       /\ failedRun' = [failedRun EXCEPT ![d] = @ \/ failed]
       /\ runs' = [runs EXCEPT ![d] = @ - 1]
       /\ IF runs[d] > 1 THEN Goto(d, "test") /\ UNCHANGED pending
          ELSE IF failedRun'[d] THEN ValidationFailed(d) ELSE Validated(d, "PASSED")
  /\ UNCHANGED <<shared, wt, parent, cmd, status, contract, belief, sigterm, diag>>

(* The run's share of the timeout is spent: the group is torn down and the *)
(* result of the teardown is dropped, so some of the group may survive.    *)
(* Then the rest of the output is read up to the end of the pipe, which    *)
(* "live" survivors hold and "orphans" have let go of.                     *)
TestTimedOut(d) ==
  /\ pc[d] = "testing"
  /\ Goto(d, "drain")
  /\ \E left \in {"live", "orphans", "gone"} : test' = [test EXCEPT ![d] = left]
  /\ UNCHANGED <<shared, wt, parent, cmd, status, contract, belief, valid, pending,
                 sigterm, diag>>

(* Mutant: a timeout is the verdict whatever an earlier run showed. *)
TimedOutVerdictHidesFailure(d) ==
  /\ pc[d] = "drain"
  /\ test[d] # "live"
  /\ Validated(d, "TIMED_OUT")
  /\ UNCHANGED <<shared, wt, parent, procs, contract, belief, valid, sigterm, diag>>

TimedOutVerdict(d) ==
  /\ pc[d] = "drain"
  /\ test[d] # "live"
  /\ IF failedRun[d] THEN ValidationFailed(d) ELSE Validated(d, "TIMED_OUT")
  /\ UNCHANGED <<shared, wt, parent, procs, contract, belief, valid, sigterm, diag>>

(***************************************************************************)
(* _cleanup_attempt, on the way to a receipt and from the finally clause.  *)
(***************************************************************************)
(* Mutant: the receipt of a failed cleanup does not say what it left. *)
CleanupFailsUnnamed(d, path) ==
  IF sigterm[d]
  THEN Goto(d, "terminated") /\ diag' = [diag EXCEPT ![d] = TRUE] /\ UNCHANGED pending
  ELSE /\ Goto(d, "return")
       /\ Build(d, Rebuilt("CLEANUP_FAILED", pending[d]))
       /\ UNCHANGED diag

(* Mutant: a failed cleanup does not stop the publication. *)
CleanupFailsPublishes(d, path) ==
  IF sigterm[d]
  THEN Goto(d, "terminated") /\ diag' = [diag EXCEPT ![d] = TRUE] /\ UNCHANGED pending
  ELSE /\ Goto(d, IF pending[d].code \in CreatedCodes THEN "publish" ELSE "return")
       /\ UNCHANGED <<pending, diag>>

(* A failed cleanup is reported on the receipt, or on stderr when the      *)
(* termination exception is already on its way out.                        *)
CleanupFails(d, path) ==
  IF sigterm[d]
  THEN Goto(d, "terminated") /\ diag' = [diag EXCEPT ![d] = TRUE] /\ UNCHANGED pending
  ELSE /\ Goto(d, "return")
       /\ Build(d, [Rebuilt("CLEANUP_FAILED", pending[d]) EXCEPT !.path = path])
       /\ UNCHANGED diag

(* The worktree is withheld while the gate is closed; else it is removed   *)
(* and the registration looked up again, which alone decides.              *)
RemoveWorktree(d) ==
  /\ pc[d] = "cleanup"
  /\ \/ gate[d] = "CLOSED" /\ CleanupFails(d, "worktree") /\ UNCHANGED <<wt, reg>>
     \/ /\ gate[d] = "OPEN"
        /\ reg[d] = "ABSENT"
        /\ Goto(d, "rmtree")
        /\ UNCHANGED <<wt, reg, pending, diag>>
     \/ /\ gate[d] = "OPEN"
        /\ reg[d] # "ABSENT"
        /\ \E removed, listed \in BOOLEAN :
             /\ wt' = [wt EXCEPT ![d] = @ /\ ~removed]
             /\ IF listed /\ ~wt'[d]
                THEN /\ Goto(d, "rmtree")
                     /\ reg' = [reg EXCEPT ![d] = "ABSENT"]
                     /\ UNCHANGED <<pending, diag>>
                ELSE CleanupFails(d, "worktree") /\ UNCHANGED reg
  /\ UNCHANGED <<shared, parent, procs, contract, gate, trip, valid, sigterm>>

(* shutil.rmtree fails on a directory that is not there, or any time. *)
RemoveParent(d) ==
  /\ pc[d] = "rmtree"
  /\ \/ CleanupFails(d, "parent") /\ UNCHANGED parent
     \/ /\ parent[d]
        /\ parent' = [parent EXCEPT ![d] = FALSE]
        /\ Goto(d, IF sigterm[d] THEN "terminated"
                   ELSE IF pending[d].code \in CreatedCodes THEN "publish"
                   ELSE "return")
        /\ UNCHANGED <<pending, diag>>
  /\ UNCHANGED <<shared, wt, procs, contract, belief, valid, sigterm>>

(***************************************************************************)
(* _publish and the receipt.                                               *)
(***************************************************************************)
(* Mutant: update-ref without the empty old value overwrites. *)
PublishOverwrites(d) ==
  /\ pc[d] = "publish"
  /\ \/ /\ refs' = [refs EXCEPT ![contract[d].id] = d]
        /\ published' = published \cup {d}
        /\ Goto(d, "return")
     \/ Goto(d, "explain") /\ UNCHANGED shared
  /\ UNCHANGED <<wt, parent, procs, contract, belief, valid, pending, sigterm, diag>>

(* Mutant: the exit status of update-ref is not looked at. *)
PublishUnchecked(d) ==
  /\ pc[d] = "publish"
  /\ \/ /\ Ref(d) = NoCommit
        /\ refs' = [refs EXCEPT ![contract[d].id] = d]
        /\ published' = published \cup {d}
     \/ UNCHANGED shared
  /\ Goto(d, "return")
  /\ UNCHANGED <<wt, parent, procs, contract, belief, valid, pending, sigterm, diag>>

(* `git update-ref REF COMMIT ""` creates the ref only if it is absent. *)
Publish(d) ==
  /\ pc[d] = "publish"
  /\ \/ /\ Ref(d) = NoCommit
        /\ refs' = [refs EXCEPT ![contract[d].id] = d]
        /\ published' = published \cup {d}
        /\ Goto(d, "return")
     \/ Goto(d, "explain") /\ UNCHANGED shared
  /\ UNCHANGED <<wt, parent, procs, contract, belief, valid, pending, sigterm, diag>>

(* The ref could not be created: was it there, as far as Git can tell? *)
ExplainUnpublished(d) ==
  /\ pc[d] = "explain"
  /\ \/ Ref(d) # NoCommit /\ Build(d, Rebuilt("CANDIDATE_EXISTS", pending[d]))
     \/ Build(d, Rebuilt("GIT_FAILED", pending[d]))
  /\ Goto(d, "return")
  /\ UNCHANGED <<shared, wt, parent, procs, contract, belief, valid, sigterm, diag>>

(* main writes the receipt; the caller may have closed stdout. *)
WriteReceipt(d) ==
  /\ pc[d] = "return"
  /\ Goto(d, "done") \/ Goto(d, "unread")
  /\ UNCHANGED <<shared, wt, parent, procs, contract, belief, valid, pending,
                 sigterm, diag>>

(***************************************************************************)
(* SIGTERM: one exception, raised between any two steps; a second SIGTERM  *)
(* is ignored.                                                             *)
(***************************************************************************)
(* Outside _attempt's try block, or with nothing left to clean up, the     *)
(* process is gone with exit 143; a failed cleanup whose receipt is about  *)
(* to be returned is either tried again or forgotten, as the exception     *)
(* falls before or after retain_failed_cleanup is set.                     *)
LeaveAtOnce(d) ==
  /\ pc[d] \in {"check", "inspect", "inspect_ref", "allocate", "allocated",
                "publish", "explain", "return"}
  /\ Goto(d, "terminated")
  /\ UNCHANGED <<wt, parent, cmd, test, trip>>

(* Within the try block the finally clause cleans up; what the interrupted *)
(* git or process call had already done stays done.                        *)
Unwind(d) ==
  /\ \/ pc[d] \in {"adding", "spool", "starting", "teardown", "head", "commit",
                   "validate", "test", "testing", "drain", "cleanup", "rmtree"}
     \/ pc[d] = "return" /\ pending[d].code = "CLEANUP_FAILED"
  /\ Goto(d, "cleanup")
  /\ wt' \in {wt} \cup (IF pc[d] = "adding" THEN {[wt EXCEPT ![d] = TRUE]}
                        ELSE IF pc[d] = "cleanup" /\ gate[d] = "OPEN"
                        THEN {[wt EXCEPT ![d] = FALSE]} ELSE {})
  /\ parent' \in {parent} \cup (IF pc[d] = "rmtree" THEN {[parent EXCEPT ![d] = FALSE]}
                                ELSE {})
  /\ cmd' \in {cmd} \cup (IF pc[d] = "starting" THEN {[cmd EXCEPT ![d] = "live"]} ELSE {})
  /\ test' \in {test} \cup (IF pc[d] = "test" THEN {[test EXCEPT ![d] = "live"]}
                            ELSE IF pc[d] = "testing" THEN {[test EXCEPT ![d] = "gone"]}
                            ELSE {})
  /\ UNCHANGED trip

(* While the command is watched the exception handler tears it down first. *)
StopCommand(d) ==
  /\ pc[d] = "running"
  /\ Goto(d, "teardown")
  /\ trip' = [trip EXCEPT ![d] = "sigterm"]
  /\ UNCHANGED <<wt, parent, cmd, test>>

Sigterm(d) ==
  /\ ~sigterm[d]
  /\ sigterm' = [sigterm EXCEPT ![d] = TRUE]
  /\ LeaveAtOnce(d) \/ Unwind(d) \/ StopCommand(d)
  /\ UNCHANGED <<shared, status, contract, reg, gate, valid, pending, diag>>

(* SIGKILL, or SIGTERM once main has left the guard: no cleanup at all. *)
Kill(d) ==
  /\ pc[d] \in Running
  /\ Goto(d, "killed")
  /\ UNCHANGED <<shared, wt, parent, procs, contract, belief, valid, pending,
                 sigterm, diag>>

(***************************************************************************)
(* The processes a delivery starts, and the other users of the repository. *)
(***************************************************************************)
CommandExits(d) ==
  /\ cmd[d] = "live"
  /\ \E left \in {"orphans", "gone"} : cmd' = [cmd EXCEPT ![d] = left]
  /\ IF status[d] = "none"
     THEN \E s \in {"zero", "lost", "nonzero"} : status' = [status EXCEPT ![d] = s]
     ELSE UNCHANGED status
  /\ UNCHANGED <<shared, wt, parent, test, pc, contract, belief, valid, pending,
                 sigterm, diag>>

SurvivorsExit(d) ==
  /\ \/ /\ cmd[d] = "orphans"
        /\ cmd' = [cmd EXCEPT ![d] = "gone"]
        /\ UNCHANGED test
     \/ /\ test[d] \in {"live", "orphans"}
        /\ pc[d] # "testing"
        /\ test' = [test EXCEPT ![d] = "gone"]
        /\ UNCHANGED cmd
  /\ UNCHANGED <<shared, wt, parent, status, pc, contract, belief, valid, pending,
                 sigterm, diag>>

(* The caller removes a candidate after review; the caller or a command    *)
(* makes one by hand.                                                      *)
Meddle(i) ==
  /\ \/ refs[i] = NoCommit /\ refs' = [refs EXCEPT ![i] = Foreign]
     \/ refs[i] # NoCommit /\ refs' = [refs EXCEPT ![i] = NoCommit]
  /\ UNCHANGED <<published, wt, parent, procs, pc, contract, belief, valid, pending,
                 sigterm, diag>>

(* One step of delivery d's own program. *)
Step(d) ==
  \/ Check(d) \/ InspectRepository(d) \/ InspectRef(d) \/ AllocateParent(d)
  \/ EnterAttempt(d) \/ AddWorktree(d) \/ OpenSpool(d) \/ StartCommand(d)
  \/ CommandFinished(d) \/ TripLimit(d) \/ TearDownCommand(d)
  \/ InspectHead(d) \/ CommitTree(d)
  \/ BeginValidation(d) \/ StartTest(d) \/ TestFinished(d) \/ TestTimedOut(d)
  \/ TimedOutVerdict(d)
  \/ RemoveWorktree(d) \/ RemoveParent(d)
  \/ Publish(d) \/ ExplainUnpublished(d) \/ WriteReceipt(d)

Next ==
  \/ \E d \in Deliveries :
       Step(d) \/ Sigterm(d) \/ Kill(d) \/ CommandExits(d) \/ SurvivorsExit(d)
  \/ \E i \in Ids : Meddle(i)

Spec == Init /\ [][Next]_vars

(* The engine keeps executing: its waits are bounded by timeouts, or are   *)
(* assumed to end (git calls, the reads of a drain, communicate() after a  *)
(* timed-out test); a trusted command's survivors end.  Nobody is obliged  *)
(* to signal, kill or meddle.                                              *)
FairSpec == Spec /\ \A d \in Deliveries : WF_vars(Step(d)) /\ WF_vars(SurvivorsExit(d))

(***************************************************************************)
(* Properties.                                                             *)
(***************************************************************************)
(* A candidate ref made by a delivery is never visible before that         *)
(* delivery removed its worktree and its temporary directory, and, when    *)
(* the engine had to stop the command, before the command's group is gone: *)
(* _attempt publishes last, and only past a successful _cleanup_attempt.   *)
PublishedOnlyAfterCleanup ==
  \A d \in published :
    /\ ~wt[d] /\ ~parent[d]
    /\ trip[d] # "none" => cmd[d] = "gone"

(* The receipt on stdout and the repository agree: a receipt with outcome  *)
(* candidate-created was preceded by this delivery's own update-ref, and   *)
(* any other receipt was not, whoever raced for the same id.               *)
AnnouncedIffPublished ==
  \A d \in Deliveries :
    pc[d] = "done" => (pending[d].code \in CreatedCodes <=> d \in published)

(* Whatever a finished delivery leaves on disk is named on its receipt: a  *)
(* registered worktree as such, a bare temporary directory at least as the *)
(* path to inspect.  An interrupted one names a worktree on stderr, unless *)
(* the exception fell after the receipt that names it was built.           *)
LeftoverReported ==
  \A d \in Deliveries :
    /\ pc[d] = "done" =>
         /\ wt[d] => pending[d].path = "worktree"
         /\ parent[d] => pending[d].path # "none"
    /\ pc[d] = "terminated" /\ wt[d] =>
         diag[d] \/ (pending[d].code = "CLEANUP_FAILED" /\ pending[d].path = "worktree")

(* A receipt is sound when what it says of the self-test is what the runs  *)
(* did.                                                                    *)
Sound(d) ==
  LET r == pending[d] IN
    /\ failedRun[d] => r.validation \in {"FAILED", "UNAVAILABLE"}
    /\ r.validation = "FAILED" => failedRun[d]
    /\ r.code = "TESTS_FAILED" => r.validation = "FAILED" /\ trip[d] # "exhausted"
    /\ r.code = "OK" => r.validation # "FAILED" /\ trip[d] = "none"
    /\ r.commit => (r.budget = "exhausted" <=> trip[d] = "exhausted")

(* Every written receipt is sound: a run that failed is never reported as  *)
(* passed or as a mere timeout (a later run that cannot be started does    *)
(* hide it: the receipt then says UNAVAILABLE), TESTS_FAILED is said only  *)
(* of a failed run, OK never, and an exhausted budget is not overwritten   *)
(* by either (_validate_candidate, _validated).                            *)
VerdictSound == \A d \in Deliveries : pc[d] = "done" => Sound(d)

(* No step removes the worktree of a delivery whose direct command still   *)
(* runs, nor, once the engine had to stop the command, while anything of   *)
(* its group may be alive (_AttemptState.cleanup_gate, _cleanup_attempt).  *)
NoRemovalUnderCommand ==
  [][\A d \in Deliveries : wt[d] /\ ~wt'[d] =>
       /\ cmd[d] # "live"
       /\ trip[d] # "none" => cmd[d] = "gone"]_<<wt, cmd, trip>>

(* Once a candidate commit exists, validation, a failed cleanup and a lost *)
(* race to publish rebuild the receipt without losing the commit, whether  *)
(* HEAD moved, the budget verdict, or a validation result.                 *)
EvidenceKept ==
  [][\A d \in Deliveries : pending[d].commit =>
       /\ pending'[d].commit
       /\ pending'[d].moved = pending[d].moved
       /\ pending'[d].budget = pending[d].budget
       /\ pending'[d].lost = pending[d].lost
       /\ pending[d].validation # "NOT_APPLICABLE"
            => pending'[d].validation = pending[d].validation]_pending

(* Every delivery ends, whatever fails and whenever it is interrupted. *)
EveryDeliveryEnds == \A d \in Deliveries : <>(pc[d] \in Ended)

(* The pipeline implements the create-once store: only update-ref creates, *)
(* only a written receipt announces.                                       *)
StoreStatus ==
  [d \in Deliveries |->
     IF pc[d] = "done"
     THEN IF pending[d].code \in CreatedCodes THEN "announced" ELSE "refused"
     ELSE IF pc[d] \in Ended THEN "silent"
     ELSE IF d \in published THEN "created" ELSE "working"]

Store == INSTANCE CandidateStore
           WITH claim <- [d \in Deliveries |-> contract[d].id], status <- StoreStatus

ImplementsStore == Store!Spec

(***************************************************************************)
(* The invariant that makes the safety properties above inductive.         *)
(***************************************************************************)
(* A validation run is only started while one is left to do. *)
RunsLeft == \A d \in Deliveries : pc[d] \in {"test", "testing"} => runs[d] > 0

Preparing == {"check", "inspect", "inspect_ref", "allocate", "allocated"}

(* An open gate vouches for the command: it does not run, and if the       *)
(* engine had to stop it nothing of its group is left.                     *)
GateVouches ==
  \A d \in Deliveries :
    /\ pc[d] \in Preparing \cup {"adding", "spool", "starting"} =>
         cmd[d] = "none" /\ trip[d] = "none"
    /\ pc[d] = "running" => trip[d] = "none"
    /\ pc[d] \in {"starting", "running", "teardown"} => gate[d] = "CLOSED"
    /\ gate[d] = "OPEN" => /\ cmd[d] # "live"
                           /\ trip[d] # "none" => cmd[d] = "gone"

(* The engine never believes a worktree absent that is there. *)
RegistrationSound ==
  \A d \in Deliveries :
    /\ reg[d] = "ABSENT" => ~wt[d]
    /\ pc[d] \in Preparing => reg[d] = "ABSENT"
    /\ pc[d] = "adding" => reg[d] = "MAY_EXIST" /\ ~wt[d]

(* The temporary directory goes last, and publication comes after it. *)
CleanedBeforePublished ==
  \A d \in Deliveries :
    /\ pc[d] = "rmtree" => reg[d] = "ABSENT" /\ gate[d] = "OPEN"
    /\ pc[d] \in {"publish", "explain"} \/ d \in published =>
         reg[d] = "ABSENT" /\ gate[d] = "OPEN" /\ ~parent[d]

(* A receipt ready to be written claims a candidate iff it was published,  *)
(* and nothing is published earlier.                                       *)
ClaimsMatch ==
  \A d \in Deliveries :
    /\ d \in published => pc[d] \in {"return"} \cup Ended
                          /\ pending[d].code \in CreatedCodes
    /\ pc[d] = "publish" => pending[d].code \in CreatedCodes
    /\ pc[d] \in {"return", "done", "unread"} =>
         (pending[d].code \in CreatedCodes <=> d \in published)

IInv ==
  /\ TypeOK
  /\ RunsLeft
  /\ GateVouches
  /\ RegistrationSound
  /\ CleanedBeforePublished
  /\ ClaimsMatch

(***************************************************************************)
(* A second invariant, on top of IInv, for what a delivery leaves behind   *)
(* and what its receipt says.                                              *)
(***************************************************************************)
Early == Preparing \cup {"adding", "spool", "starting", "running", "teardown",
                         "head", "commit"}
Validating == {"validate", "test", "testing", "drain"}
Late == {"cleanup", "rmtree", "publish", "explain", "return", "done", "unread"}

(* A termination leaves no way to a receipt, and a limit that ended the    *)
(* command is the budget's when the engine goes on from there.             *)
TerminationFits(d) ==
  /\ sigterm[d] => pc[d] \in {"teardown", "cleanup", "rmtree", "terminated", "killed"}
  /\ pc[d] = "teardown" => trip[d] # "none" /\ (trip[d] = "sigterm" => sigterm[d])
  /\ pc[d] = "teardown" /\ sigterm[d] => trip[d] = "sigterm"
  /\ pc[d] \in {"head", "commit"} \cup Validating => trip[d] \in {"none", "exhausted"}

(* What is on disk when no cleanup comes any more is named. *)
LeftoverFits(d) ==
  /\ pc[d] \in Preparing \ {"allocated"} => ~parent[d]
  /\ pc[d] \in {"return", "done", "unread"} =>
       /\ wt[d] => pending[d].code = "CLEANUP_FAILED" /\ pending[d].path = "worktree"
       /\ parent[d] => pending[d].path # "none"
  /\ pc[d] = "terminated" /\ wt[d] =>
       diag[d] \/ (pending[d].code = "CLEANUP_FAILED" /\ pending[d].path = "worktree")

(* There is no commit before CommitTree and no failed run before a test;   *)
(* validation starts from a receipt that says what the budget decided; and *)
(* what leaves it, towards a receipt, is sound.                            *)
EvidenceFits(d) ==
  /\ pc[d] \in Early => ~pending[d].commit
  /\ pc[d] \in Early \cup {"validate"} => ~failedRun[d]
  /\ pc[d] = "commit" => pending[d].budget = BudgetState(d)
  /\ pc[d] \in {"commit"} \cup Validating => pending[d].validation = "NOT_APPLICABLE"
  /\ pc[d] \in Validating =>
       /\ pending[d].code = IF trip[d] = "exhausted" THEN "BUDGET_EXHAUSTED" ELSE "OK"
       /\ pending[d].budget = "exhausted" <=> trip[d] = "exhausted"
  /\ pc[d] \in Late /\ ~sigterm[d] => Sound(d)

EInv == \A d \in Deliveries : TerminationFits(d) /\ LeftoverFits(d) /\ EvidenceFits(d)

(* usage.md: "Git cleanup is deliberately withheld when timeout teardown   *)
(* cannot confirm both that the process group is gone and that the direct  *)
(* child was reaped."  For the self-test command it is not withheld.       *)
NoRemovalUnderTimedOutTest ==
  [][\A d \in Deliveries :
       wt[d] /\ ~wt'[d] /\ pending[d].validation = "TIMED_OUT" => test[d] = "gone"
    ]_<<wt, pending, test>>
=============================================================================
