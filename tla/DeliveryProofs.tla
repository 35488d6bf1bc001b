--------------------------- MODULE DeliveryProofs ---------------------------
(***************************************************************************)
(* Proofs about Delivery, for any set of deliveries, ids and contracts.    *)
(***************************************************************************)
EXTENDS Delivery, TLAPS

(* A receipt with default arguments (_context_receipt) is a receipt.       *)
LEMMA ReceiptTypes ==
  ASSUME NEW code \in Codes
  PROVE  Receipt(code) \in Receipts
BY DEF Receipt, Receipts, Codes, Validations

(* So is one rebuilt from another (the cleanup-failed and unpublished paths). *)
LEMMA RebuiltTypes ==
  ASSUME NEW code \in Codes, NEW p \in Receipts
  PROVE  Rebuilt(code, p) \in Receipts
BY DEF Receipt, Rebuilt, Receipts, Codes, Validations

(* A delivery starts well typed.                                           *)
LEMMA InitTypes == Init => TypeOK
<1> SUFFICES ASSUME Init PROVE TypeOK
  OBVIOUS
<1>1. Receipt("NONE") \in Receipts
  BY ReceiptTypes DEF Codes
<1> QED
  BY <1>1 DEF Init, TypeOK, Running

(* What a step of each kind leaves well typed. *)
LEMMA PreparationTypes ==
  ASSUME TypeOK, NEW d \in Deliveries,
         \/ Check(d) \/ InspectRepository(d) \/ InspectRef(d) \/ AllocateParent(d)
         \/ EnterAttempt(d) \/ AddWorktree(d) \/ OpenSpool(d) \/ StartCommand(d)
  PROVE  TypeOK'
<1> USE DEF shared, procs, belief, valid, Goto, Build
<1>1. ASSUME NEW code \in Codes, Refuse(d, code) PROVE TypeOK'
  <2>1. Receipt(code) \in Receipts
    BY ReceiptTypes
  <2> QED
    BY <1>1, <2>1 DEF Refuse, TypeOK, Running
<1>2. ASSUME NEW label \in Running, Proceed(d, label) PROVE TypeOK'
  BY <1>2 DEF Proceed, TypeOK, Running
<1>3. CASE Check(d)
  BY <1>1, <1>2, <1>3 DEF Check, Codes, Running
<1>4. CASE InspectRepository(d)
  BY <1>1, <1>2, <1>4 DEF InspectRepository, Codes, Running
<1>5. CASE InspectRef(d)
  BY <1>1, <1>2, <1>5 DEF InspectRef, Codes, Running
<1>6. CASE AllocateParent(d)
  <2>1. CASE Refuse(d, "GIT_FAILED")
    BY <1>1, <2>1 DEF Codes
  <2>2. CASE /\ Goto(d, "allocated")
             /\ parent' = [parent EXCEPT ![d] = TRUE]
             /\ UNCHANGED <<shared, wt, procs, contract, belief, valid, pending,
                            sigterm, diag>>
    <3>1. parent' \in [Deliveries -> BOOLEAN]
      BY <2>2 DEF TypeOK
    <3> QED
      BY <2>2, <3>1 DEF TypeOK, Running
  <2> QED
    BY <1>6, <2>1, <2>2 DEF AllocateParent
<1>7. CASE EnterAttempt(d)
  BY <1>7 DEF EnterAttempt, TypeOK, Running
<1>8. CASE AddWorktree(d)
  <2>1. Receipt("GIT_FAILED") \in Receipts
    BY ReceiptTypes DEF Codes
  <2> QED
    BY <1>8, <2>1 DEF AddWorktree, TypeOK, Running
<1>9. Receipt("COMMAND_UNAVAILABLE") \in Receipts
  BY ReceiptTypes DEF Codes
<1>10. CASE OpenSpool(d)
  BY <1>9, <1>10 DEF OpenSpool, TypeOK, Running
<1>11. CASE StartCommand(d)
  BY <1>9, <1>11 DEF StartCommand, TypeOK, Running
<1> QED
  BY <1>3, <1>4, <1>5, <1>6, <1>7, <1>8, <1>10, <1>11

(* The receipts of _run_and_commit are receipts. *)
LEMMA SpentTypes ==
  ASSUME TypeOK, NEW d \in Deliveries, NEW code \in Codes
  PROVE  /\ Spent(d, code) \in Receipts
         /\ [Spent(d, code) EXCEPT !.exit = "nonzero"] \in Receipts
         /\ \A moved, made \in BOOLEAN :
              /\ AfterCommand(d, code, moved) \in Receipts
              /\ [AfterCommand(d, code, moved) EXCEPT !.commit = made] \in Receipts
<1>1. Receipt(code) \in Receipts
  BY ReceiptTypes
<1>2. BudgetState(d) \in {"not_declared", "within", "exhausted"}
  BY DEF BudgetState
<1>3. (status[d] = "lost") \in BOOLEAN
  OBVIOUS
<1> QED
  BY <1>1, <1>2, <1>3 DEF Spent, AfterCommand, Receipts

(* The same for the command, its teardown and the commit.                  *)
LEMMA CommandTypes ==
  ASSUME TypeOK, NEW d \in Deliveries,
         \/ CommandFinished(d) \/ TripLimit(d) \/ TearDownCommand(d)
         \/ InspectHead(d) \/ CommitTree(d)
  PROVE  TypeOK'
<1> USE DEF shared, procs, belief, valid, Goto, Build
<1>1. pending[d] \in Receipts
  BY DEF TypeOK
<1>2. CASE CommandFinished(d)
  <2>1. [Spent(d, "COMMAND_FAILED") EXCEPT !.exit = "nonzero"] \in Receipts
    BY SpentTypes DEF Codes
  <2> QED
    BY <1>2, <2>1 DEF CommandFinished, TypeOK, Running
<1>3. CASE TripLimit(d)
  BY <1>3 DEF TripLimit, TypeOK, Running
<1>4. CASE TearDownCommand(d)
  <2>1. Spent(d, "COMMAND_TIMEOUT") \in Receipts
    BY SpentTypes DEF Codes
  <2> QED
    BY <1>4, <2>1 DEF TearDownCommand, TypeOK, Running
<1>5. CASE InspectHead(d)
  <2>1. \A code \in Codes, moved \in BOOLEAN : AfterCommand(d, code, moved) \in Receipts
    BY SpentTypes
  <2>2. PICK r \in Receipts, label \in Running : pc' = [pc EXCEPT ![d] = label]
                                                /\ pending' = [pending EXCEPT ![d] = r]
    BY <1>5, <2>1 DEF InspectHead, Running, Codes
  <2> QED
    BY <1>5, <2>2 DEF InspectHead, TypeOK
<1>6. CASE CommitTree(d)
  <2>1. \A code \in Codes, made \in BOOLEAN :
          [AfterCommand(d, code, pending[d].moved) EXCEPT !.commit = made] \in Receipts
    <3>1. pending[d].moved \in BOOLEAN
      BY <1>1 DEF Receipts
    <3> QED
      BY <3>1, SpentTypes
  <2>2. /\ [pending[d] EXCEPT !.code = "BUDGET_EXHAUSTED", !.commit = TRUE,
                              !.exit = "null"] \in Receipts
        /\ [pending[d] EXCEPT !.code = "OK", !.commit = TRUE] \in Receipts
    BY <1>1 DEF Receipts, Codes
  <2>3. PICK r \in Receipts, label \in Running : pc' = [pc EXCEPT ![d] = label]
                                                /\ pending' = [pending EXCEPT ![d] = r]
    BY <1>6, <2>1, <2>2 DEF CommitTree, Running, Codes
  <2> QED
    BY <1>6, <2>3 DEF CommitTree, TypeOK
<1> QED
  BY <1>2, <1>3, <1>4, <1>5, <1>6

(* The same for the self-test; the run counter needs RunsLeft.             *)
LEMMA ValidationTypes ==
  ASSUME TypeOK, RunsLeft, NEW d \in Deliveries,
         \/ BeginValidation(d) \/ StartTest(d) \/ TestFinished(d)
         \/ TestTimedOut(d) \/ TimedOutVerdict(d)
  PROVE  TypeOK'
<1> USE DEF shared, procs, belief, valid, Goto, Build
<1>1. /\ pending[d] \in Receipts
      /\ contract[d].runs \in 0..3
  BY ContractsAssumption DEF TypeOK
<1>2. ASSUME NEW outcome \in Validations, Validated(d, outcome)
      PROVE  /\ pending' \in [Deliveries -> Receipts]
             /\ pc' \in [Deliveries -> Running \cup Ended]
  <2>1. [pending[d] EXCEPT !.validation = outcome] \in Receipts
    BY <1>1 DEF Receipts
  <2> QED
    BY <1>2, <2>1 DEF Validated, TypeOK, Running
<1>3. ASSUME ValidationFailed(d)
      PROVE  /\ pending' \in [Deliveries -> Receipts]
             /\ pc' \in [Deliveries -> Running \cup Ended]
  <2>1. [pending[d] EXCEPT !.validation = "FAILED",
                           !.code = IF @ = "BUDGET_EXHAUSTED" THEN @
                                    ELSE "TESTS_FAILED"] \in Receipts
    BY <1>1 DEF Receipts, Codes, Validations
  <2> QED
    BY <1>3, <2>1 DEF ValidationFailed, TypeOK, Running
<1>4. CASE BeginValidation(d)
  <2>1. /\ pending' \in [Deliveries -> Receipts]
        /\ pc' \in [Deliveries -> Running \cup Ended]
    BY <1>2, <1>4 DEF BeginValidation, Validations, TypeOK, Running
  <2>2. runs' \in [Deliveries -> 0..3]
    BY <1>1, <1>4 DEF BeginValidation, TypeOK
  <2> QED
    BY <1>4, <2>1, <2>2 DEF BeginValidation, TypeOK
<1>5. CASE StartTest(d)
  <2>1. /\ pending' \in [Deliveries -> Receipts]
        /\ pc' \in [Deliveries -> Running \cup Ended]
    BY <1>2, <1>5 DEF StartTest, Validations, TypeOK, Running
  <2> QED
    BY <1>5, <2>1 DEF StartTest, TypeOK
<1>6. CASE TestFinished(d)
  <2>1. PICK failed \in BOOLEAN :
          /\ failedRun' = [failedRun EXCEPT ![d] = @ \/ failed]
          /\ runs' = [runs EXCEPT ![d] = @ - 1]
          /\ IF runs[d] > 1 THEN pc' = [pc EXCEPT ![d] = "test"] /\ UNCHANGED pending
             ELSE IF failedRun'[d] THEN ValidationFailed(d) ELSE Validated(d, "PASSED")
    BY <1>6 DEF TestFinished
  <2>2. /\ pending' \in [Deliveries -> Receipts]
        /\ pc' \in [Deliveries -> Running \cup Ended]
    <3>1. CASE runs[d] > 1
      BY <2>1, <3>1 DEF TypeOK, Running
    <3>2. CASE ~(runs[d] > 1) /\ failedRun'[d]
      BY <2>1, <3>2, <1>3
    <3>3. CASE ~(runs[d] > 1) /\ ~failedRun'[d]
      BY <2>1, <3>3, <1>2 DEF Validations
    <3> QED
      BY <3>1, <3>2, <3>3
  <2>3. failedRun' \in [Deliveries -> BOOLEAN]
    BY <2>1 DEF TypeOK
  <2>4. runs' \in [Deliveries -> 0..3]
    <3>1. runs[d] \in 1..3
      BY <1>6 DEF TestFinished, TypeOK, RunsLeft
    <3> QED
      BY <2>1, <3>1 DEF TypeOK
  <2> QED
    BY <1>6, <2>2, <2>3, <2>4 DEF TestFinished, TypeOK
<1>7. CASE TestTimedOut(d)
  BY <1>7 DEF TestTimedOut, TypeOK, Running
<1>8. CASE TimedOutVerdict(d)
  <2>1. /\ pending' \in [Deliveries -> Receipts]
        /\ pc' \in [Deliveries -> Running \cup Ended]
    BY <1>2, <1>3, <1>8 DEF TimedOutVerdict, Validations
  <2> QED
    BY <1>8, <2>1 DEF TimedOutVerdict, TypeOK
<1> QED
  BY <1>4, <1>5, <1>6, <1>7, <1>8

(* The same for cleanup, publication and the receipt.                      *)
LEMMA CleanupTypes ==
  ASSUME TypeOK, NEW d \in Deliveries,
         \/ RemoveWorktree(d) \/ RemoveParent(d) \/ Publish(d)
         \/ ExplainUnpublished(d) \/ WriteReceipt(d)
  PROVE  TypeOK'
<1> USE DEF shared, procs, belief, valid, Goto, Build
<1>1. pending[d] \in Receipts
  BY DEF TypeOK
<1>2. ASSUME NEW path \in {"worktree", "parent"}, CleanupFails(d, path)
      PROVE  /\ pending' \in [Deliveries -> Receipts]
             /\ pc' \in [Deliveries -> Running \cup Ended]
             /\ diag' \in [Deliveries -> BOOLEAN]
  <2>1. [Rebuilt("CLEANUP_FAILED", pending[d]) EXCEPT !.path = path] \in Receipts
    BY <1>1, RebuiltTypes DEF Codes, Receipts
  <2>2. CASE sigterm[d]
    <3>1. diag' = [diag EXCEPT ![d] = TRUE] /\ diag' \in [Deliveries -> BOOLEAN]
      BY <1>2, <2>2 DEF CleanupFails, TypeOK
    <3> QED
      BY <1>2, <2>2, <3>1 DEF CleanupFails, TypeOK, Ended
  <2>3. CASE ~sigterm[d]
    BY <1>2, <2>1, <2>3 DEF CleanupFails, TypeOK, Running
  <2> QED
    BY <2>2, <2>3
<1>3. CASE RemoveWorktree(d)
  <2>1. /\ pending' \in [Deliveries -> Receipts]
        /\ pc' \in [Deliveries -> Running \cup Ended]
        /\ diag' \in [Deliveries -> BOOLEAN]
    BY <1>2, <1>3 DEF RemoveWorktree, TypeOK, Running
  <2>2. wt' \in [Deliveries -> BOOLEAN]
    BY <1>3 DEF RemoveWorktree, TypeOK
  <2>3. reg' \in [Deliveries -> {"ABSENT", "MAY_EXIST", "PRESENT"}]
    BY <1>3 DEF RemoveWorktree, TypeOK
  <2> QED
    BY <1>3, <2>1, <2>2, <2>3 DEF RemoveWorktree, TypeOK
<1>4. CASE RemoveParent(d)
  <2>1. /\ pending' \in [Deliveries -> Receipts]
        /\ pc' \in [Deliveries -> Running \cup Ended]
        /\ diag' \in [Deliveries -> BOOLEAN]
    BY <1>2, <1>4 DEF RemoveParent, TypeOK, Running, Ended
  <2>2. parent' \in [Deliveries -> BOOLEAN]
    BY <1>4 DEF RemoveParent, TypeOK
  <2> QED
    BY <1>4, <2>1, <2>2 DEF RemoveParent, TypeOK
<1>5. CASE Publish(d)
  <2>1. refs' \in [Ids -> Deliveries \cup {NoCommit, Foreign}]
    BY <1>5 DEF Publish, TypeOK
  <2>2. published' \subseteq Deliveries
    BY <1>5 DEF Publish, TypeOK
  <2> QED
    BY <1>5, <2>1, <2>2 DEF Publish, TypeOK, Running
<1>6. CASE ExplainUnpublished(d)
  <2>1. /\ Rebuilt("CANDIDATE_EXISTS", pending[d]) \in Receipts
        /\ Rebuilt("GIT_FAILED", pending[d]) \in Receipts
    BY <1>1, RebuiltTypes DEF Codes
  <2> QED
    BY <1>6, <2>1 DEF ExplainUnpublished, TypeOK, Running
<1>7. CASE WriteReceipt(d)
  BY <1>7 DEF WriteReceipt, TypeOK, Running, Ended
<1> QED
  BY <1>3, <1>4, <1>5, <1>6, <1>7

(* The same for signals and for the processes of a delivery.               *)
LEMMA InterruptTypes ==
  ASSUME TypeOK, NEW d \in Deliveries,
         Sigterm(d) \/ Kill(d) \/ CommandExits(d) \/ SurvivorsExit(d)
  PROVE  TypeOK'
<1> USE DEF shared, procs, belief, valid, Goto, Build
<1>1. CASE Sigterm(d)
  <2>1. sigterm' \in [Deliveries -> BOOLEAN]
    BY <1>1 DEF Sigterm, TypeOK
  <2>2. CASE LeaveAtOnce(d)
    BY <1>1, <2>1, <2>2 DEF Sigterm, LeaveAtOnce, TypeOK, Ended
  <2>3. CASE Unwind(d)
    <3>1. wt' \in [Deliveries -> BOOLEAN]
      BY <2>3 DEF Unwind, TypeOK
    <3>2. parent' \in [Deliveries -> BOOLEAN]
      BY <2>3 DEF Unwind, TypeOK
    <3>3. cmd' \in [Deliveries -> {"none", "live", "orphans", "gone"}]
      BY <2>3 DEF Unwind, TypeOK
    <3>4. test' \in [Deliveries -> {"none", "live", "orphans", "gone"}]
      BY <2>3 DEF Unwind, TypeOK
    <3>5. pc' \in [Deliveries -> Running \cup Ended]
      BY <2>3 DEF Unwind, TypeOK, Running
    <3>6. UNCHANGED trip
      BY <2>3 DEF Unwind
    <3> QED
      BY <1>1, <2>1, <3>1, <3>2, <3>3, <3>4, <3>5, <3>6 DEF Sigterm, TypeOK
  <2>4. CASE StopCommand(d)
    BY <1>1, <2>1, <2>4 DEF Sigterm, StopCommand, TypeOK, Running
  <2> QED
    BY <1>1, <2>2, <2>3, <2>4 DEF Sigterm
<1>2. CASE Kill(d)
  BY <1>2 DEF Kill, TypeOK, Ended
<1>3. CASE CommandExits(d)
  BY <1>3 DEF CommandExits, TypeOK
<1>4. CASE SurvivorsExit(d)
  BY <1>4 DEF SurvivorsExit, TypeOK
<1> QED
  BY <1>1, <1>2, <1>3, <1>4

(* Hence for every step.                                                   *)
LEMMA NextTypes ==
  ASSUME TypeOK, RunsLeft, [Next]_vars
  PROVE  TypeOK'
<1>1. CASE UNCHANGED vars
  BY <1>1 DEF vars, TypeOK
<1>2. ASSUME NEW i \in Ids, Meddle(i) PROVE TypeOK'
  BY <1>2 DEF Meddle, TypeOK, procs, belief, valid
<1>3. ASSUME NEW d \in Deliveries,
             Step(d) \/ Sigterm(d) \/ Kill(d) \/ CommandExits(d) \/ SurvivorsExit(d)
      PROVE  TypeOK'
  BY <1>3, PreparationTypes, CommandTypes, ValidationTypes, CleanupTypes,
     InterruptTypes DEF Step
<1> QED
  BY <1>1, <1>2, <1>3 DEF Next

(***************************************************************************)
(* The other parts of the invariant, one lemma per part and one step per   *)
(* action.                                                                 *)
(***************************************************************************)
Action(d) == Step(d) \/ Sigterm(d) \/ Kill(d) \/ CommandExits(d) \/ SurvivorsExit(d)

(* A rebuilt receipt has the code it is given.                             *)
LEMMA RebuiltCode ==
  ASSUME NEW code, NEW p, NEW path
  PROVE  /\ Rebuilt(code, p).code = code
         /\ [Rebuilt(code, p) EXCEPT !.path = path].code = code
BY DEF Rebuilt, Receipt

(* Looking at HEAD, and building the commit, only move the engine on. *)
LEMMA HeadEffect ==
  ASSUME NEW d \in Deliveries, InspectHead(d) \/ CommitTree(d)
  PROVE  /\ pc[d] \in {"head", "commit"}
         /\ \E label \in {"cleanup", "commit", "validate"} : pc' = [pc EXCEPT ![d] = label]
         /\ \E r : pending' = [pending EXCEPT ![d] = r]
         /\ UNCHANGED <<published, wt, parent, cmd, reg, gate, trip, runs>>
<1> USE DEF shared, procs, belief, valid, Goto, Build
<1>1. CASE InspectHead(d)
  BY <1>1 DEF InspectHead
<1>2. CASE CommitTree(d)
  BY <1>2 DEF CommitTree
<1> QED
  BY <1>1, <1>2

(* A failed cleanup ends in a receipt of its own, or in no receipt at all. *)
LEMMA CleanupFailsEffect ==
  ASSUME TypeOK, NEW d \in Deliveries, NEW path, CleanupFails(d, path)
  PROVE  \/ pc' = [pc EXCEPT ![d] = "terminated"] /\ UNCHANGED pending
         \/ /\ pc' = [pc EXCEPT ![d] = "return"]
            /\ pending'[d].code = "CLEANUP_FAILED"
            /\ \A e \in Deliveries \ {d} : pending'[e] = pending[e]
<1>1. CASE sigterm[d]
  BY <1>1 DEF CleanupFails, Goto
<1>2. CASE ~sigterm[d]
  <2>1. pending' = [pending EXCEPT ![d] =
                      [Rebuilt("CLEANUP_FAILED", pending[d]) EXCEPT !.path = path]]
    BY <1>2 DEF CleanupFails, Build
  <2>2. pending'[d].code = "CLEANUP_FAILED"
    BY <2>1, RebuiltCode DEF TypeOK
  <2> QED
    BY <1>2, <2>1, <2>2 DEF CleanupFails, Goto, TypeOK
<1> QED
  BY <1>1, <1>2

(* Only BeginValidation and TestFinished set up a validation run. *)
LEMMA RunsLeftKept ==
  ASSUME IInv, NEW d \in Deliveries, Action(d)
  PROVE  RunsLeft'
<1> USE DEF IInv, TypeOK, RunsLeft, shared, procs, belief, valid, Goto, Build,
            Running, Ended, Preparing
<1>1. CASE Check(d)
  BY <1>1 DEF Check, Refuse, Proceed
<1>2. CASE InspectRepository(d)
  BY <1>2 DEF InspectRepository, Refuse, Proceed
<1>3. CASE InspectRef(d)
  BY <1>3 DEF InspectRef, Refuse, Proceed
<1>4. CASE AllocateParent(d)
  BY <1>4 DEF AllocateParent, Refuse
<1>5. CASE EnterAttempt(d)
  BY <1>5 DEF EnterAttempt
<1>6. CASE AddWorktree(d)
  BY <1>6 DEF AddWorktree
<1>7. CASE OpenSpool(d)
  BY <1>7 DEF OpenSpool
<1>8. CASE StartCommand(d)
  BY <1>8 DEF StartCommand
<1>9. CASE CommandFinished(d)
  BY <1>9 DEF CommandFinished
<1>10. CASE TripLimit(d)
  BY <1>10 DEF TripLimit
<1>11. CASE TearDownCommand(d)
  BY <1>11 DEF TearDownCommand
<1>12. CASE InspectHead(d) \/ CommitTree(d)
  BY <1>12, HeadEffect
<1>13. CASE BeginValidation(d)
  <2>1. contract[d].runs \in 0..3
    BY ContractsAssumption
  <2>2. CASE pc'[d] = "test"
    BY <1>13, <2>1, <2>2 DEF BeginValidation, Validated
  <2>3. CASE pc'[d] # "test"
    BY <1>13, <2>3 DEF BeginValidation, Validated
  <2> QED
    BY <2>2, <2>3
<1>14. CASE StartTest(d)
  BY <1>14 DEF StartTest, Validated
<1>15. CASE TestFinished(d)
  BY <1>15 DEF TestFinished, Validated, ValidationFailed
<1>16. CASE TestTimedOut(d)
  BY <1>16 DEF TestTimedOut
<1>17. CASE TimedOutVerdict(d)
  BY <1>17 DEF TimedOutVerdict, Validated, ValidationFailed
<1>18. CASE RemoveWorktree(d)
  BY <1>18 DEF RemoveWorktree, CleanupFails
<1>19. CASE RemoveParent(d)
  BY <1>19 DEF RemoveParent, CleanupFails
<1>20. CASE Publish(d)
  BY <1>20 DEF Publish
<1>21. CASE ExplainUnpublished(d)
  BY <1>21 DEF ExplainUnpublished
<1>22. CASE WriteReceipt(d)
  BY <1>22 DEF WriteReceipt
<1>23. CASE Sigterm(d)
  BY <1>23 DEF Sigterm, LeaveAtOnce, Unwind, StopCommand
<1>24. CASE Kill(d)
  BY <1>24 DEF Kill
<1>25. CASE CommandExits(d)
  BY <1>25 DEF CommandExits
<1>26. CASE SurvivorsExit(d)
  BY <1>26 DEF SurvivorsExit
<1> QED
  BY <1>1, <1>2, <1>3, <1>4, <1>5, <1>6, <1>7, <1>8, <1>9, <1>10, <1>11,
     <1>12, <1>13, <1>14, <1>15, <1>16, <1>17, <1>18, <1>19, <1>20, <1>21,
     <1>22, <1>23, <1>24, <1>25, <1>26 DEF Action, Step

(* The gate closes before the command starts, and opens on its own exit or *)
(* on a confirmed teardown.                                                *)
LEMMA GateVouchesKept ==
  ASSUME IInv, NEW d \in Deliveries, Action(d)
  PROVE  GateVouches'
<1> USE DEF IInv, TypeOK, GateVouches, shared, procs, belief, valid, Goto, Build,
            Running, Ended, Preparing
<1>1. CASE Check(d)
  BY <1>1 DEF Check, Refuse, Proceed
<1>2. CASE InspectRepository(d)
  BY <1>2 DEF InspectRepository, Refuse, Proceed
<1>3. CASE InspectRef(d)
  BY <1>3 DEF InspectRef, Refuse, Proceed
<1>4. CASE AllocateParent(d)
  BY <1>4 DEF AllocateParent, Refuse
<1>5. CASE EnterAttempt(d)
  BY <1>5 DEF EnterAttempt
<1>6. CASE AddWorktree(d)
  BY <1>6 DEF AddWorktree
<1>7. CASE OpenSpool(d)
  BY <1>7 DEF OpenSpool
<1>8. CASE StartCommand(d)
  BY <1>8 DEF StartCommand
<1>9. CASE CommandFinished(d)
  BY <1>9 DEF CommandFinished
<1>10. CASE TripLimit(d)
  BY <1>10 DEF TripLimit
<1>11. CASE TearDownCommand(d)
  BY <1>11 DEF TearDownCommand
<1>12. CASE InspectHead(d) \/ CommitTree(d)
  BY <1>12, HeadEffect
<1>13. CASE BeginValidation(d)
  BY <1>13 DEF BeginValidation, Validated
<1>14. CASE StartTest(d)
  BY <1>14 DEF StartTest, Validated
<1>15. CASE TestFinished(d)
  BY <1>15 DEF TestFinished, Validated, ValidationFailed
<1>16. CASE TestTimedOut(d)
  BY <1>16 DEF TestTimedOut
<1>17. CASE TimedOutVerdict(d)
  BY <1>17 DEF TimedOutVerdict, Validated, ValidationFailed
<1>18. CASE RemoveWorktree(d)
  BY <1>18 DEF RemoveWorktree, CleanupFails
<1>19. CASE RemoveParent(d)
  BY <1>19 DEF RemoveParent, CleanupFails
<1>20. CASE Publish(d)
  BY <1>20 DEF Publish
<1>21. CASE ExplainUnpublished(d)
  BY <1>21 DEF ExplainUnpublished
<1>22. CASE WriteReceipt(d)
  BY <1>22 DEF WriteReceipt
<1>23. CASE Sigterm(d)
  BY <1>23 DEF Sigterm, LeaveAtOnce, Unwind, StopCommand
<1>24. CASE Kill(d)
  BY <1>24 DEF Kill
<1>25. CASE CommandExits(d)
  BY <1>25 DEF CommandExits
<1>26. CASE SurvivorsExit(d)
  BY <1>26 DEF SurvivorsExit
<1> QED
  BY <1>1, <1>2, <1>3, <1>4, <1>5, <1>6, <1>7, <1>8, <1>9, <1>10, <1>11,
     <1>12, <1>13, <1>14, <1>15, <1>16, <1>17, <1>18, <1>19, <1>20, <1>21,
     <1>22, <1>23, <1>24, <1>25, <1>26 DEF Action, Step

(* The registration is MAY_EXIST before `git worktree add` runs, and ABSENT *)
(* again only when `git worktree list` does not show the worktree.         *)
LEMMA RegistrationSoundKept ==
  ASSUME IInv, NEW d \in Deliveries, Action(d)
  PROVE  RegistrationSound'
<1> USE DEF IInv, TypeOK, RegistrationSound, shared, procs, belief, valid, Goto, Build,
            Running, Ended, Preparing
<1>1. CASE Check(d)
  BY <1>1 DEF Check, Refuse, Proceed
<1>2. CASE InspectRepository(d)
  BY <1>2 DEF InspectRepository, Refuse, Proceed
<1>3. CASE InspectRef(d)
  BY <1>3 DEF InspectRef, Refuse, Proceed
<1>4. CASE AllocateParent(d)
  BY <1>4 DEF AllocateParent, Refuse
<1>5. CASE EnterAttempt(d)
  BY <1>5 DEF EnterAttempt
<1>6. CASE AddWorktree(d)
  BY <1>6 DEF AddWorktree
<1>7. CASE OpenSpool(d)
  BY <1>7 DEF OpenSpool
<1>8. CASE StartCommand(d)
  BY <1>8 DEF StartCommand
<1>9. CASE CommandFinished(d)
  BY <1>9 DEF CommandFinished
<1>10. CASE TripLimit(d)
  BY <1>10 DEF TripLimit
<1>11. CASE TearDownCommand(d)
  BY <1>11 DEF TearDownCommand
<1>12. CASE InspectHead(d) \/ CommitTree(d)
  BY <1>12, HeadEffect
<1>13. CASE BeginValidation(d)
  BY <1>13 DEF BeginValidation, Validated
<1>14. CASE StartTest(d)
  BY <1>14 DEF StartTest, Validated
<1>15. CASE TestFinished(d)
  BY <1>15 DEF TestFinished, Validated, ValidationFailed
<1>16. CASE TestTimedOut(d)
  BY <1>16 DEF TestTimedOut
<1>17. CASE TimedOutVerdict(d)
  BY <1>17 DEF TimedOutVerdict, Validated, ValidationFailed
<1>18. CASE RemoveWorktree(d)
  BY <1>18 DEF RemoveWorktree, CleanupFails
<1>19. CASE RemoveParent(d)
  BY <1>19 DEF RemoveParent, CleanupFails
<1>20. CASE Publish(d)
  BY <1>20 DEF Publish
<1>21. CASE ExplainUnpublished(d)
  BY <1>21 DEF ExplainUnpublished
<1>22. CASE WriteReceipt(d)
  BY <1>22 DEF WriteReceipt
<1>23. CASE Sigterm(d)
  BY <1>23 DEF Sigterm, LeaveAtOnce, Unwind, StopCommand
<1>24. CASE Kill(d)
  BY <1>24 DEF Kill
<1>25. CASE CommandExits(d)
  BY <1>25 DEF CommandExits
<1>26. CASE SurvivorsExit(d)
  BY <1>26 DEF SurvivorsExit
<1> QED
  BY <1>1, <1>2, <1>3, <1>4, <1>5, <1>6, <1>7, <1>8, <1>9, <1>10, <1>11,
     <1>12, <1>13, <1>14, <1>15, <1>16, <1>17, <1>18, <1>19, <1>20, <1>21,
     <1>22, <1>23, <1>24, <1>25, <1>26 DEF Action, Step

(* The only way to "publish" is past both removals. *)
LEMMA CleanedBeforePublishedKept ==
  ASSUME IInv, NEW d \in Deliveries, Action(d)
  PROVE  CleanedBeforePublished'
<1> USE DEF IInv, TypeOK, CleanedBeforePublished, shared, procs, belief, valid, Goto, Build,
            RegistrationSound, ClaimsMatch, Running, Ended, Preparing
<1>1. CASE Check(d)
  BY <1>1 DEF Check, Refuse, Proceed
<1>2. CASE InspectRepository(d)
  BY <1>2 DEF InspectRepository, Refuse, Proceed
<1>3. CASE InspectRef(d)
  BY <1>3 DEF InspectRef, Refuse, Proceed
<1>4. CASE AllocateParent(d)
  BY <1>4 DEF AllocateParent, Refuse
<1>5. CASE EnterAttempt(d)
  BY <1>5 DEF EnterAttempt
<1>6. CASE AddWorktree(d)
  BY <1>6 DEF AddWorktree
<1>7. CASE OpenSpool(d)
  BY <1>7 DEF OpenSpool
<1>8. CASE StartCommand(d)
  BY <1>8 DEF StartCommand
<1>9. CASE CommandFinished(d)
  BY <1>9 DEF CommandFinished
<1>10. CASE TripLimit(d)
  BY <1>10 DEF TripLimit
<1>11. CASE TearDownCommand(d)
  BY <1>11 DEF TearDownCommand
<1>12. CASE InspectHead(d) \/ CommitTree(d)
  BY <1>12, HeadEffect
<1>13. CASE BeginValidation(d)
  BY <1>13 DEF BeginValidation, Validated
<1>14. CASE StartTest(d)
  BY <1>14 DEF StartTest, Validated
<1>15. CASE TestFinished(d)
  BY <1>15 DEF TestFinished, Validated, ValidationFailed
<1>16. CASE TestTimedOut(d)
  BY <1>16 DEF TestTimedOut
<1>17. CASE TimedOutVerdict(d)
  BY <1>17 DEF TimedOutVerdict, Validated, ValidationFailed
<1>18. CASE RemoveWorktree(d)
  BY <1>18 DEF RemoveWorktree, CleanupFails
<1>19. CASE RemoveParent(d)
  BY <1>19 DEF RemoveParent, CleanupFails
<1>20. CASE Publish(d)
  BY <1>20 DEF Publish
<1>21. CASE ExplainUnpublished(d)
  BY <1>21 DEF ExplainUnpublished
<1>22. CASE WriteReceipt(d)
  BY <1>22 DEF WriteReceipt
<1>23. CASE Sigterm(d)
  BY <1>23 DEF Sigterm, LeaveAtOnce, Unwind, StopCommand
<1>24. CASE Kill(d)
  BY <1>24 DEF Kill
<1>25. CASE CommandExits(d)
  BY <1>25 DEF CommandExits
<1>26. CASE SurvivorsExit(d)
  BY <1>26 DEF SurvivorsExit
<1> QED
  BY <1>1, <1>2, <1>3, <1>4, <1>5, <1>6, <1>7, <1>8, <1>9, <1>10, <1>11,
     <1>12, <1>13, <1>14, <1>15, <1>16, <1>17, <1>18, <1>19, <1>20, <1>21,
     <1>22, <1>23, <1>24, <1>25, <1>26 DEF Action, Step

(* A successful update-ref is the only way to a receipt that claims one. *)
LEMMA ClaimsMatchKept ==
  ASSUME IInv, NEW d \in Deliveries, Action(d)
  PROVE  ClaimsMatch'
<1> USE DEF IInv, TypeOK, ClaimsMatch, shared, procs, belief, valid, Goto, Build,
            CreatedCodes, Receipt, Rebuilt, Spent, AfterCommand, Running, Ended, Preparing
<1>1. CASE Check(d)
  BY <1>1 DEF Check, Refuse, Proceed
<1>2. CASE InspectRepository(d)
  BY <1>2 DEF InspectRepository, Refuse, Proceed
<1>3. CASE InspectRef(d)
  BY <1>3 DEF InspectRef, Refuse, Proceed
<1>4. CASE AllocateParent(d)
  BY <1>4 DEF AllocateParent, Refuse
<1>5. CASE EnterAttempt(d)
  BY <1>5 DEF EnterAttempt
<1>6. CASE AddWorktree(d)
  BY <1>6 DEF AddWorktree
<1>7. CASE OpenSpool(d)
  BY <1>7 DEF OpenSpool
<1>8. CASE StartCommand(d)
  BY <1>8 DEF StartCommand
<1>9. CASE CommandFinished(d)
  BY <1>9 DEF CommandFinished
<1>10. CASE TripLimit(d)
  BY <1>10 DEF TripLimit
<1>11. CASE TearDownCommand(d)
  BY <1>11 DEF TearDownCommand
<1>12. CASE InspectHead(d) \/ CommitTree(d)
  BY <1>12, HeadEffect
<1>13. CASE BeginValidation(d)
  BY <1>13 DEF BeginValidation, Validated
<1>14. CASE StartTest(d)
  BY <1>14 DEF StartTest, Validated
<1>15. CASE TestFinished(d)
  BY <1>15 DEF TestFinished, Validated, ValidationFailed
<1>16. CASE TestTimedOut(d)
  BY <1>16 DEF TestTimedOut
<1>17. CASE TimedOutVerdict(d)
  BY <1>17 DEF TimedOutVerdict, Validated, ValidationFailed
<1>18. CASE RemoveWorktree(d)
  <2>1. UNCHANGED published
    BY <1>18 DEF RemoveWorktree
  <2>2. CASE CleanupFails(d, "worktree")
    <3> HIDE DEF Build, Receipt, Rebuilt
    <3> QED
      BY <1>18, <2>1, <2>2, CleanupFailsEffect DEF RemoveWorktree
  <2>3. CASE ~CleanupFails(d, "worktree")
    BY <1>18, <2>1, <2>3 DEF RemoveWorktree
  <2> QED
    BY <2>2, <2>3
<1>19. CASE RemoveParent(d)
  <2>1. UNCHANGED published
    BY <1>19 DEF RemoveParent
  <2>2. CASE CleanupFails(d, "parent")
    BY <1>19, <2>1, <2>2, CleanupFailsEffect DEF RemoveParent
  <2>3. CASE ~CleanupFails(d, "parent")
    BY <1>19, <2>1, <2>3 DEF RemoveParent
  <2> QED
    BY <2>2, <2>3
<1>20. CASE Publish(d)
  BY <1>20 DEF Publish
<1>21. CASE ExplainUnpublished(d)
  <2>1. PICK code \in {"CANDIDATE_EXISTS", "GIT_FAILED"} :
          pending' = [pending EXCEPT ![d] = Rebuilt(code, pending[d])]
    BY <1>21 DEF ExplainUnpublished
  <2>2. pending'[d].code \notin CreatedCodes
    BY <2>1, RebuiltCode
  <2> QED
    BY <1>21, <2>1, <2>2 DEF ExplainUnpublished
<1>22. CASE WriteReceipt(d)
  BY <1>22 DEF WriteReceipt
<1>23. CASE Sigterm(d)
  BY <1>23 DEF Sigterm, LeaveAtOnce, Unwind, StopCommand
<1>24. CASE Kill(d)
  BY <1>24 DEF Kill
<1>25. CASE CommandExits(d)
  BY <1>25 DEF CommandExits
<1>26. CASE SurvivorsExit(d)
  BY <1>26 DEF SurvivorsExit
<1> QED
  BY <1>1, <1>2, <1>3, <1>4, <1>5, <1>6, <1>7, <1>8, <1>9, <1>10, <1>11,
     <1>12, <1>13, <1>14, <1>15, <1>16, <1>17, <1>18, <1>19, <1>20, <1>21,
     <1>22, <1>23, <1>24, <1>25, <1>26 DEF Action, Step

(* The invariant does not depend on what others do to the refs.            *)
LEMMA MeddleKeeps ==
  ASSUME IInv, NEW i \in Ids, Meddle(i)
  PROVE  RunsLeft' /\ GateVouches' /\ RegistrationSound' /\ CleanedBeforePublished'
         /\ ClaimsMatch'
BY DEF Meddle, IInv, RunsLeft, GateVouches, RegistrationSound,
       CleanedBeforePublished, ClaimsMatch, procs, belief, valid

(* A stuttering step keeps the invariant.                                  *)
LEMMA StutterKeeps ==
  ASSUME IInv, UNCHANGED vars
  PROVE  RunsLeft' /\ GateVouches' /\ RegistrationSound' /\ CleanedBeforePublished'
         /\ ClaimsMatch'
BY DEF vars, IInv, RunsLeft, GateVouches, RegistrationSound,
       CleanedBeforePublished, ClaimsMatch

(* The invariant holds before the first statement.                         *)
LEMMA InvariantInit == Init => IInv
<1> SUFFICES ASSUME Init PROVE IInv
  OBVIOUS
<1>1. TypeOK
  BY InitTypes
<1>2. RunsLeft /\ GateVouches /\ RegistrationSound /\ CleanedBeforePublished
      /\ ClaimsMatch
  BY DEF Init, RunsLeft, GateVouches, RegistrationSound, CleanedBeforePublished,
         ClaimsMatch, Preparing, Ended
<1> QED
  BY <1>1, <1>2 DEF IInv

(* Every step keeps the invariant.                                         *)
LEMMA InvariantStep == IInv /\ [Next]_vars => IInv'
<1> SUFFICES ASSUME IInv, [Next]_vars PROVE IInv'
  OBVIOUS
<1>1. TypeOK'
  BY NextTypes DEF IInv
<1>2. CASE UNCHANGED vars
  BY <1>1, <1>2, StutterKeeps DEF IInv
<1>3. ASSUME NEW d \in Deliveries, Action(d) PROVE IInv'
  BY <1>1, <1>3, RunsLeftKept, GateVouchesKept, RegistrationSoundKept,
     CleanedBeforePublishedKept, ClaimsMatchKept DEF IInv
<1>4. ASSUME NEW i \in Ids, Meddle(i) PROVE IInv'
  BY <1>1, <1>4, MeddleKeeps DEF IInv
<1> QED
  BY <1>2, <1>3, <1>4 DEF Next, Action

(***************************************************************************)
(* The theorems.                                                           *)
(***************************************************************************)
(* The lifecycle invariant holds in every reachable state. *)
THEOREM Invariance == Spec => []IInv
BY InvariantInit, InvariantStep, PTL DEF Spec

(* Every variable of every delivery keeps the range the code gives it. *)
THEOREM TypeCorrect == Spec => []TypeOK
<1>1. IInv => TypeOK
  BY DEF IInv
<1> QED
  BY <1>1, Invariance, PTL

(* No candidate ref made by a delivery is visible before that delivery     *)
(* removed what it had on disk and its stopped command is gone             *)
(* (_attempt: _cleanup_attempt, then _publish).                            *)
THEOREM CleanupPrecedesPublication == Spec => []PublishedOnlyAfterCleanup
<1>1. IInv => PublishedOnlyAfterCleanup
  BY DEF IInv, PublishedOnlyAfterCleanup, TypeOK, CleanedBeforePublished,
         RegistrationSound, GateVouches
<1> QED
  BY <1>1, Invariance, PTL

(* A written receipt claims a candidate exactly when its own update-ref    *)
(* created the ref, for any number of racing deliveries.                   *)
THEOREM ReceiptsTellTheTruth == Spec => []AnnouncedIffPublished
<1>1. IInv => AnnouncedIffPublished
  BY DEF IInv, AnnouncedIffPublished, ClaimsMatch
<1> QED
  BY <1>1, Invariance, PTL

(***************************************************************************)
(* What is left behind, and what the receipt says: the second invariant.   *)
(***************************************************************************)
(* A step of one delivery leaves the engine, the disk and the receipt of   *)
(* every other one alone.                                                  *)
LEMMA OthersUntouched ==
  ASSUME IInv, NEW d \in Deliveries, Action(d), NEW e \in Deliveries \ {d}
  PROVE  /\ pc'[e] = pc[e] /\ wt'[e] = wt[e] /\ parent'[e] = parent[e]
         /\ trip'[e] = trip[e] /\ failedRun'[e] = failedRun[e]
         /\ pending'[e] = pending[e] /\ sigterm'[e] = sigterm[e] /\ diag'[e] = diag[e]
         /\ reg'[e] = reg[e] /\ gate'[e] = gate[e] /\ runs'[e] = runs[e]
<1> USE DEF IInv, TypeOK, shared, procs, belief, valid, Goto, Build
<1>1. CASE Check(d) \/ InspectRepository(d) \/ InspectRef(d) \/ AllocateParent(d)
           \/ EnterAttempt(d) \/ AddWorktree(d) \/ OpenSpool(d)
  BY <1>1 DEF Check, InspectRepository, InspectRef, AllocateParent, Refuse, Proceed,
     EnterAttempt, AddWorktree, OpenSpool
<1>2. CASE StartCommand(d) \/ CommandFinished(d) \/ TripLimit(d) \/ TearDownCommand(d)
  BY <1>2 DEF StartCommand, CommandFinished, TripLimit, TearDownCommand
<1>3. CASE InspectHead(d) \/ CommitTree(d)
  <2>1. UNCHANGED <<failedRun, sigterm, diag>>
    BY <1>3 DEF InspectHead, CommitTree
  <2> QED
    BY <1>3, <2>1, HeadEffect
<1>4. CASE BeginValidation(d) \/ StartTest(d) \/ TestFinished(d) \/ TestTimedOut(d)
           \/ TimedOutVerdict(d)
  BY <1>4 DEF BeginValidation, StartTest, TestFinished, TestTimedOut,
     TimedOutVerdict, Validated, ValidationFailed
<1>6. CASE RemoveWorktree(d) \/ RemoveParent(d)
  BY <1>6 DEF RemoveWorktree, RemoveParent, CleanupFails
<1>7. CASE Publish(d) \/ ExplainUnpublished(d) \/ WriteReceipt(d) \/ Kill(d)
           \/ CommandExits(d) \/ SurvivorsExit(d)
  BY <1>7 DEF Publish, ExplainUnpublished, WriteReceipt, Kill, CommandExits,
     SurvivorsExit
<1>8. CASE Sigterm(d)
  BY <1>8 DEF Sigterm, LeaveAtOnce, Unwind, StopCommand
<1> QED
  BY <1>1, <1>2, <1>3, <1>4, <1>6, <1>7, <1>8 DEF Action, Step

(* Once the exception is raised only cleanup is left to do.                *)
LEMMA TerminationFitsKept ==
  ASSUME IInv, EInv, NEW d \in Deliveries, Action(d)
  PROVE  TerminationFits(d)'
<1> USE DEF IInv, TypeOK, EInv, TerminationFits, Validating, GateVouches, Preparing,
            Running, Ended, shared, procs, belief, valid, Goto, Build
<1>1. CASE Check(d) \/ InspectRepository(d) \/ InspectRef(d) \/ AllocateParent(d)
           \/ EnterAttempt(d) \/ AddWorktree(d) \/ OpenSpool(d) \/ StartCommand(d)
  BY <1>1 DEF Check, InspectRepository, InspectRef, AllocateParent, Refuse, Proceed,
     EnterAttempt, AddWorktree, OpenSpool, StartCommand
<1>2. CASE CommandFinished(d) \/ TripLimit(d) \/ TearDownCommand(d)
  BY <1>2 DEF CommandFinished, TripLimit, TearDownCommand
<1>3. CASE InspectHead(d)
  BY <1>3 DEF InspectHead
<1>4. CASE CommitTree(d)
  BY <1>4 DEF CommitTree
<1>5. CASE BeginValidation(d) \/ StartTest(d) \/ TestFinished(d) \/ TestTimedOut(d)
           \/ TimedOutVerdict(d)
  BY <1>5 DEF BeginValidation, StartTest, TestFinished, TestTimedOut,
     TimedOutVerdict, Validated, ValidationFailed
<1>6. CASE RemoveWorktree(d) \/ RemoveParent(d)
  BY <1>6 DEF RemoveWorktree, RemoveParent, CleanupFails
<1>7. CASE Publish(d) \/ ExplainUnpublished(d) \/ WriteReceipt(d) \/ Kill(d)
           \/ CommandExits(d) \/ SurvivorsExit(d)
  BY <1>7 DEF Publish, ExplainUnpublished, WriteReceipt, Kill, CommandExits,
     SurvivorsExit
<1>8. CASE Sigterm(d)
  BY <1>8 DEF Sigterm, LeaveAtOnce, Unwind, StopCommand
<1> QED
  BY <1>1, <1>2, <1>3, <1>4, <1>5, <1>6, <1>7, <1>8 DEF Action, Step

(* A receipt of a failed cleanup names what is left.                       *)
LEMMA CleanupFailsNames ==
  ASSUME TypeOK, NEW d \in Deliveries, NEW path \in {"worktree", "parent"},
         CleanupFails(d, path)
  PROVE  \/ /\ sigterm[d] /\ pc'[d] = "terminated" /\ diag'[d]
            /\ UNCHANGED pending
         \/ /\ ~sigterm[d] /\ pc'[d] = "return" /\ UNCHANGED diag
            /\ pending'[d] = [Rebuilt("CLEANUP_FAILED", pending[d]) EXCEPT !.path = path]
            /\ pending'[d].code = "CLEANUP_FAILED" /\ pending'[d].path = path
<1>1. CASE sigterm[d]
  BY <1>1 DEF CleanupFails, Goto, TypeOK
<1>2. CASE ~sigterm[d]
  <2>1. /\ pending'[d] = [Rebuilt("CLEANUP_FAILED", pending[d]) EXCEPT !.path = path]
        /\ pc'[d] = "return" /\ UNCHANGED diag
    BY <1>2 DEF CleanupFails, Goto, Build, TypeOK
  <2>2. pending'[d].code = "CLEANUP_FAILED" /\ pending'[d].path = path
    BY <2>1 DEF Rebuilt, Receipt
  <2> QED
    BY <1>2, <2>1, <2>2
<1> QED
  BY <1>1, <1>2

(* Cleanup is the last to look at the disk, and says what it left there.   *)
LEMMA LeftoverFitsKept ==
  ASSUME IInv, EInv, NEW d \in Deliveries, Action(d)
  PROVE  LeftoverFits(d)'
<1> USE DEF IInv, TypeOK, EInv, LeftoverFits, RegistrationSound, CleanedBeforePublished,
            Preparing, Running, Ended, shared, procs, belief, valid, Goto, Build
<1>1. CASE Check(d) \/ InspectRepository(d) \/ InspectRef(d) \/ AllocateParent(d)
           \/ EnterAttempt(d) \/ AddWorktree(d) \/ OpenSpool(d) \/ StartCommand(d)
  BY <1>1 DEF Check, InspectRepository, InspectRef, AllocateParent, Refuse, Proceed,
     EnterAttempt, AddWorktree, OpenSpool, StartCommand
<1>2. CASE CommandFinished(d) \/ TripLimit(d) \/ TearDownCommand(d)
  BY <1>2 DEF CommandFinished, TripLimit, TearDownCommand
<1>3. CASE InspectHead(d) \/ CommitTree(d)
  BY <1>3, HeadEffect
<1>5. CASE BeginValidation(d) \/ StartTest(d) \/ TestFinished(d) \/ TestTimedOut(d)
           \/ TimedOutVerdict(d)
  BY <1>5 DEF BeginValidation, StartTest, TestFinished, TestTimedOut,
     TimedOutVerdict, Validated, ValidationFailed
<1>6. CASE RemoveWorktree(d)
  <2>1. UNCHANGED parent
    BY <1>6 DEF RemoveWorktree
  <2>2. CASE CleanupFails(d, "worktree")
    BY <2>1, <2>2, CleanupFailsNames
  <2>3. CASE ~CleanupFails(d, "worktree")
    BY <1>6, <2>3 DEF RemoveWorktree
  <2> QED
    BY <2>2, <2>3
<1>7. CASE RemoveParent(d)
  <2>1. UNCHANGED wt /\ ~wt[d]
    BY <1>7 DEF RemoveParent
  <2>2. CASE CleanupFails(d, "parent")
    BY <2>1, <2>2, CleanupFailsNames
  <2>3. CASE ~CleanupFails(d, "parent")
    BY <1>7, <2>1, <2>3 DEF RemoveParent
  <2> QED
    BY <2>2, <2>3
<1>8. CASE Publish(d) \/ ExplainUnpublished(d) \/ WriteReceipt(d) \/ Kill(d)
           \/ CommandExits(d) \/ SurvivorsExit(d)
  BY <1>8 DEF Publish, ExplainUnpublished, WriteReceipt, Kill, CommandExits,
     SurvivorsExit
<1>9. CASE Sigterm(d)
  BY <1>9 DEF Sigterm, LeaveAtOnce, Unwind, StopCommand
<1> QED
  BY <1>1, <1>2, <1>3, <1>5, <1>6, <1>7, <1>8, <1>9 DEF Action, Step

(* A receipt of another code with the same evidence is as sound.           *)
LEMMA SoundRebuilt ==
  ASSUME NEW d \in Deliveries, Sound(d), UNCHANGED <<trip, failedRun>>,
         pending'[d].code \notin {"OK", "TESTS_FAILED"},
         pending'[d].commit = pending[d].commit,
         pending'[d].budget = pending[d].budget,
         pending'[d].validation = pending[d].validation
  PROVE  Sound(d)'
BY DEF Sound

(* A receipt without a commit, whose runs have not begun, is sound.        *)
LEMMA SoundEarly ==
  ASSUME NEW d \in Deliveries, ~failedRun'[d],
         pending'[d].code \notin {"OK", "TESTS_FAILED"}, ~pending'[d].commit,
         pending'[d].validation = "NOT_APPLICABLE"
  PROVE  Sound(d)'
BY DEF Sound

(* What validation concludes is sound.                                     *)
LEMMA SoundVerdict ==
  ASSUME TypeOK, NEW d \in Deliveries, EvidenceFits(d), TerminationFits(d),
         pc[d] \in Validating, trip'[d] = trip[d],
         \/ ValidationFailed(d) /\ failedRun'[d]
         \/ \E outcome \in Validations \ {"FAILED"} :
              /\ Validated(d, outcome)
              /\ failedRun'[d] => outcome = "UNAVAILABLE"
  PROVE  Sound(d)' /\ pc'[d] = "cleanup"
<1>1. /\ pending[d] \in Receipts
      /\ pending[d].code = IF trip[d] = "exhausted" THEN "BUDGET_EXHAUSTED" ELSE "OK"
      /\ pending[d].budget = "exhausted" <=> trip[d] = "exhausted"
      /\ trip[d] \in {"none", "exhausted"}
  BY DEF TypeOK, EvidenceFits, TerminationFits
<1>2. CASE ValidationFailed(d) /\ failedRun'[d]
  <2>1. /\ pending'[d] = [pending[d] EXCEPT !.validation = "FAILED",
                             !.code = IF @ = "BUDGET_EXHAUSTED" THEN @ ELSE "TESTS_FAILED"]
        /\ pc'[d] = "cleanup"
    BY <1>2 DEF ValidationFailed, Goto, Build, TypeOK
  <2>2. /\ pending'[d].validation = "FAILED"
        /\ pending'[d].code = IF trip[d] = "exhausted" THEN "BUDGET_EXHAUSTED"
                                                       ELSE "TESTS_FAILED"
        /\ pending'[d].budget = pending[d].budget
    BY <1>1, <2>1 DEF Receipts
  <2> QED
    BY <1>1, <1>2, <2>1, <2>2 DEF Sound
<1>3. ASSUME NEW outcome \in Validations \ {"FAILED"}, Validated(d, outcome),
             failedRun'[d] => outcome = "UNAVAILABLE"
      PROVE  Sound(d)' /\ pc'[d] = "cleanup"
  <2>1. /\ pending'[d] = [pending[d] EXCEPT !.validation = outcome]
        /\ pc'[d] = "cleanup"
    BY <1>3 DEF Validated, Goto, Build, TypeOK
  <2>2. /\ pending'[d].validation = outcome
        /\ pending'[d].code = pending[d].code
        /\ pending'[d].budget = pending[d].budget
    BY <1>1, <2>1 DEF Receipts
  <2> QED
    BY <1>1, <1>3, <2>1, <2>2 DEF Sound
<1> QED
  BY <1>2, <1>3

(* The contract is parsed once.                                            *)
LEMMA ContractKept ==
  ASSUME NEW d \in Deliveries, Action(d)
  PROVE  UNCHANGED contract
BY DEF Action, Step, Check, InspectRepository, InspectRef, AllocateParent, Refuse,
   Proceed, EnterAttempt, AddWorktree, OpenSpool, StartCommand, CommandFinished,
   TripLimit, TearDownCommand, InspectHead, CommitTree, BeginValidation, StartTest,
   TestFinished, TestTimedOut, TimedOutVerdict, RemoveWorktree, RemoveParent, Publish,
   ExplainUnpublished, WriteReceipt, Kill, CommandExits, SurvivorsExit, Sigterm

(* On the way out only soundness is left to show.                          *)
LEMMA LateFits ==
  ASSUME NEW d \in Deliveries, pc'[d] \in Late, sigterm'[d] \/ Sound(d)'
  PROVE  EvidenceFits(d)'
BY DEF EvidenceFits, Early, Validating, Late, Preparing

(* The evidence grows statement by statement, and none of it is lost.      *)
LEMMA EvidenceFitsKept ==
  ASSUME IInv, EInv, NEW d \in Deliveries, Action(d)
  PROVE  EvidenceFits(d)'
<1>1. /\ TypeOK /\ EvidenceFits(d) /\ TerminationFits(d)
      /\ pending[d] \in Receipts /\ contract'[d] = contract[d]
  BY ContractKept DEF IInv, EInv, TypeOK
<1> USE DEF shared, procs, belief, valid, Goto, Build
<1>2. CASE Check(d) \/ InspectRepository(d) \/ InspectRef(d) \/ AllocateParent(d)
           \/ EnterAttempt(d) \/ AddWorktree(d) \/ OpenSpool(d) \/ StartCommand(d)
  BY <1>1, <1>2, SoundEarly DEF Check, InspectRepository, InspectRef, AllocateParent,
     Refuse, Proceed, EnterAttempt, AddWorktree, OpenSpool, StartCommand, Receipt,
     TypeOK, EvidenceFits, Early, Validating, Late, Preparing, Running, Ended
<1>3. CASE CommandFinished(d)
  <2>1. /\ pc[d] \in Early /\ ~failedRun'[d] /\ UNCHANGED failedRun
        /\ pc' = [pc EXCEPT ![d] = IF status[d] \in {"zero", "lost"}
                                   THEN "head" ELSE "cleanup"]
    BY <1>1, <1>3 DEF CommandFinished, EvidenceFits, Early
  <2>2. CASE status[d] \in {"zero", "lost"}
    BY <1>1, <1>3, <2>1, <2>2 DEF CommandFinished, TypeOK, EvidenceFits, Early,
       Validating, Late, Preparing
  <2>3. CASE status[d] \notin {"zero", "lost"}
    <3>1. pending'[d] = [Spent(d, "COMMAND_FAILED") EXCEPT !.exit = "nonzero"]
      BY <1>1, <1>3, <2>3 DEF CommandFinished, TypeOK
    <3>2. /\ pending'[d].code = "COMMAND_FAILED" /\ ~pending'[d].commit
          /\ pending'[d].validation = "NOT_APPLICABLE"
      BY <3>1 DEF Spent, Receipt
    <3>3. pc'[d] \in Late
      BY <1>1, <2>1, <2>3 DEF TypeOK, Late
    <3> QED
      BY <2>1, <3>2, <3>3, SoundEarly, LateFits
  <2> QED
    BY <2>2, <2>3
<1>4. CASE TripLimit(d)
  BY <1>1, <1>4 DEF TripLimit, TypeOK, EvidenceFits, Early, Validating, Late, Preparing
<1>5. CASE TearDownCommand(d)
  <2>1. /\ pc[d] = "teardown" /\ ~failedRun'[d] /\ ~pending[d].commit
        /\ UNCHANGED <<failedRun, trip, sigterm>>
    BY <1>1, <1>5 DEF TearDownCommand, EvidenceFits, Early
  <2>2. CASE trip[d] = "exhausted"
    <3>1. pc'[d] = "head" /\ UNCHANGED pending
      BY <1>1, <1>5, <2>2 DEF TearDownCommand, TypeOK
    <3> QED
      BY <2>1, <3>1 DEF EvidenceFits, Early, Validating, Late, Preparing
  <2>3. CASE trip[d] = "timeout"
    <3>1. pc'[d] = "cleanup" /\ pending'[d] = Spent(d, "COMMAND_TIMEOUT")
      BY <1>1, <1>5, <2>3 DEF TearDownCommand, TypeOK
    <3>2. /\ pending'[d].code = "COMMAND_TIMEOUT" /\ ~pending'[d].commit
          /\ pending'[d].validation = "NOT_APPLICABLE"
      BY <3>1 DEF Spent, Receipt
    <3> QED
      BY <2>1, <3>1, <3>2, SoundEarly, LateFits DEF Late
  <2>4. CASE trip[d] = "sigterm"
    <3>1. pc'[d] = "cleanup" /\ sigterm'[d]
      BY <1>1, <1>5, <2>1, <2>4 DEF TearDownCommand, TypeOK, TerminationFits
    <3> QED
      BY <3>1, LateFits DEF Late
  <2> QED
    BY <1>1, <2>1, <2>2, <2>3, <2>4 DEF TerminationFits, TypeOK
<1>6. CASE InspectHead(d)
  <2>1. /\ pc[d] = "head" /\ ~failedRun'[d] /\ UNCHANGED <<failedRun, trip>>
    BY <1>1, <1>6 DEF InspectHead, EvidenceFits, Early
  <2>2. ASSUME NEW code \in Codes, NEW moved \in BOOLEAN,
               pending'[d] = AfterCommand(d, code, moved)
        PROVE  /\ pending'[d].code = code /\ ~pending'[d].commit
               /\ pending'[d].budget = BudgetState(d)
               /\ pending'[d].validation = "NOT_APPLICABLE"
    BY <2>2 DEF AfterCommand, Spent, Receipt
  <2>3. CASE \E code \in {"GIT_FAILED", "COMMAND_CHANGED_HEAD"} :
               Goto(d, "cleanup") /\ Build(d, AfterCommand(d, code, FALSE))
    <3>1. PICK code \in {"GIT_FAILED", "COMMAND_CHANGED_HEAD"} :
            pc'[d] = "cleanup" /\ pending'[d] = AfterCommand(d, code, FALSE)
      BY <1>1, <2>3 DEF TypeOK
    <3> QED
      BY <2>1, <2>2, <3>1, SoundEarly, LateFits DEF Codes, Late
  <2>4. CASE \E moved \in BOOLEAN :
               Goto(d, "commit") /\ Build(d, AfterCommand(d, "NONE", moved))
    <3>1. PICK moved \in BOOLEAN :
            pc'[d] = "commit" /\ pending'[d] = AfterCommand(d, "NONE", moved)
      BY <1>1, <2>4 DEF TypeOK
    <3>2. BudgetState(d)' = BudgetState(d)
      BY <1>1, <2>1 DEF BudgetState
    <3> QED
      BY <2>1, <2>2, <3>1, <3>2 DEF Codes, EvidenceFits, Early, Validating, Late, Preparing
  <2> QED
    BY <1>6, <2>3, <2>4 DEF InspectHead
<1>7. CASE CommitTree(d)
  <2>1. /\ pc[d] = "commit" /\ ~failedRun'[d] /\ UNCHANGED <<failedRun, trip>>
        /\ pending[d].budget = BudgetState(d) /\ pending[d].validation = "NOT_APPLICABLE"
        /\ trip[d] \in {"none", "exhausted"}
        /\ BudgetState(d) = "exhausted" <=> trip[d] = "exhausted"
    BY <1>1, <1>7 DEF CommitTree, EvidenceFits, TerminationFits, Early, BudgetState
  <2>2. CASE Goto(d, "cleanup")
    <3>1. PICK code \in {"GIT_FAILED", "NO_CHANGES"}, made \in BOOLEAN :
            pending' = [pending EXCEPT ![d] =
                          [AfterCommand(d, code, pending[d].moved) EXCEPT !.commit = made]]
      BY <1>1, <1>7, <2>2 DEF CommitTree, TypeOK
    <3>2. /\ pending'[d].code = code /\ pending'[d].budget = BudgetState(d)
          /\ pending'[d].validation = "NOT_APPLICABLE"
      BY <1>1, <3>1 DEF TypeOK, AfterCommand, Spent, Receipt
    <3>3. Sound(d)'
      BY <2>1, <3>2 DEF Sound
    <3> QED
      BY <1>1, <2>2, <3>3, LateFits DEF Late, TypeOK
  <2>3. CASE ~Goto(d, "cleanup")
    <3>1. /\ pc'[d] = "validate"
          /\ pending'[d] = IF trip[d] = "exhausted"
                           THEN [pending[d] EXCEPT !.code = "BUDGET_EXHAUSTED",
                                                   !.commit = TRUE, !.exit = "null"]
                           ELSE [pending[d] EXCEPT !.code = "OK", !.commit = TRUE]
      BY <1>1, <1>7, <2>3 DEF CommitTree, TypeOK
    <3>2. /\ pending'[d].code = IF trip[d] = "exhausted" THEN "BUDGET_EXHAUSTED" ELSE "OK"
          /\ pending'[d].budget = pending[d].budget
          /\ pending'[d].validation = pending[d].validation
      BY <1>1, <3>1 DEF Receipts
    <3> QED
      BY <2>1, <3>1, <3>2 DEF EvidenceFits, Early, Validating, Late, Preparing
  <2> QED
    BY <2>2, <2>3
<1>8. CASE BeginValidation(d)
  <2>1. pc[d] \in Validating /\ ~failedRun'[d] /\ UNCHANGED <<trip, failedRun>>
    BY <1>1, <1>8 DEF BeginValidation, Validating, EvidenceFits
  <2>2. CASE Validated(d, "NOT_REQUESTED") \/ Validated(d, "UNAVAILABLE")
    BY <1>1, <2>1, <2>2, SoundVerdict, LateFits DEF Validations, Late
  <2>3. CASE Goto(d, "test") /\ UNCHANGED pending
    BY <1>1, <2>1, <2>3 DEF TypeOK, EvidenceFits, Early, Validating, Late, Preparing
  <2> QED
    BY <1>8, <2>2, <2>3 DEF BeginValidation
<1>9. CASE StartTest(d)
  <2>1. pc[d] \in Validating /\ UNCHANGED <<trip, failedRun>>
    BY <1>9 DEF StartTest, Validating
  <2>2. CASE Validated(d, "UNAVAILABLE")
    BY <1>1, <2>1, <2>2, SoundVerdict, LateFits DEF Validations, Late
  <2>3. CASE Goto(d, "testing") /\ UNCHANGED pending
    BY <1>1, <2>1, <2>3 DEF TypeOK, EvidenceFits, Early, Validating, Late, Preparing
  <2> QED
    BY <1>9, <2>2, <2>3 DEF StartTest
<1>10. CASE TestFinished(d)
  <2>1. pc[d] \in Validating /\ UNCHANGED trip /\ failedRun'[d] \in BOOLEAN
    BY <1>1, <1>10 DEF TestFinished, Validating, TypeOK
  <2>2. CASE Goto(d, "test") /\ UNCHANGED pending
    BY <1>1, <2>1, <2>2 DEF TypeOK, EvidenceFits, Early, Validating, Late, Preparing
  <2>3. CASE failedRun'[d] /\ ValidationFailed(d)
    BY <1>1, <2>1, <2>3, SoundVerdict, LateFits DEF Late
  <2>4. CASE ~failedRun'[d] /\ Validated(d, "PASSED")
    BY <1>1, <2>1, <2>4, SoundVerdict, LateFits DEF Validations, Late
  <2> QED
    BY <1>10, <2>2, <2>3, <2>4 DEF TestFinished
<1>11. CASE TestTimedOut(d)
  BY <1>1, <1>11 DEF TestTimedOut, TypeOK, EvidenceFits, Early, Validating, Late, Preparing
<1>12. CASE TimedOutVerdict(d)
  <2>1. pc[d] \in Validating /\ UNCHANGED <<trip, failedRun>>
    BY <1>12 DEF TimedOutVerdict, Validating
  <2>2. CASE failedRun[d] /\ ValidationFailed(d)
    BY <1>1, <2>1, <2>2, SoundVerdict, LateFits DEF Late
  <2>3. CASE ~failedRun[d] /\ Validated(d, "TIMED_OUT")
    BY <1>1, <2>1, <2>3, SoundVerdict, LateFits DEF Validations, Late
  <2> QED
    BY <1>12, <2>2, <2>3 DEF TimedOutVerdict
<1>13. ASSUME pc[d] \in Late, UNCHANGED <<trip, failedRun, sigterm>>,
              NEW path \in {"worktree", "parent"}, CleanupFails(d, path)
       PROVE  EvidenceFits(d)'
  <2>1. CASE sigterm[d]
    BY <1>1, <1>13, <2>1, CleanupFailsNames DEF EvidenceFits, Early, Validating, Late,
       Preparing
  <2>2. CASE ~sigterm[d]
    <3>1. /\ pc'[d] = "return" /\ pending'[d].code = "CLEANUP_FAILED"
          /\ pending'[d] = [Rebuilt("CLEANUP_FAILED", pending[d]) EXCEPT !.path = path]
      BY <1>1, <1>13, <2>2, CleanupFailsNames
    <3>2. /\ pending'[d].commit = pending[d].commit
          /\ pending'[d].budget = pending[d].budget
          /\ pending'[d].validation = pending[d].validation
      BY <3>1 DEF Rebuilt, Receipt
    <3>3. Sound(d)
      BY <1>1, <1>13, <2>2 DEF EvidenceFits
    <3>4. Sound(d)'
      BY <1>13, <3>1, <3>2, <3>3, SoundRebuilt
    <3> QED
      BY <3>1, <3>4, LateFits DEF Late
  <2> QED
    BY <2>1, <2>2
<1>14. ASSUME pc[d] \in Late,
              UNCHANGED <<trip, failedRun, sigterm, pending>>,
              pc'[d] \in Late \cup {"terminated", "killed"}
       PROVE  EvidenceFits(d)'
  BY <1>1, <1>14 DEF EvidenceFits, Early, Validating, Late, Preparing, Sound
<1>15. CASE RemoveWorktree(d)
  <2>1. pc[d] \in Late /\ UNCHANGED <<trip, failedRun, sigterm>>
    BY <1>15 DEF RemoveWorktree, Late
  <2>2. CASE CleanupFails(d, "worktree")
    BY <1>13, <2>1, <2>2
  <2>3. CASE ~CleanupFails(d, "worktree")
    <3>1. pc'[d] = "rmtree" /\ UNCHANGED pending
      BY <1>1, <1>15, <2>3 DEF RemoveWorktree, TypeOK
    <3> QED
      BY <1>14, <2>1, <3>1 DEF Late
  <2> QED
    BY <2>2, <2>3
<1>16. CASE RemoveParent(d)
  <2>1. pc[d] \in Late /\ UNCHANGED <<trip, failedRun, sigterm>>
    BY <1>16 DEF RemoveParent, Late
  <2>2. CASE CleanupFails(d, "parent")
    BY <1>13, <2>1, <2>2
  <2>3. CASE ~CleanupFails(d, "parent")
    <3>1. pc'[d] \in {"terminated", "publish", "return"} /\ UNCHANGED pending
      BY <1>1, <1>16, <2>3 DEF RemoveParent, TypeOK
    <3> QED
      BY <1>14, <2>1, <3>1 DEF Late
  <2> QED
    BY <2>2, <2>3
<1>17. CASE Publish(d) \/ WriteReceipt(d)
  <2>1. /\ pc[d] \in Late /\ UNCHANGED <<trip, failedRun, sigterm, pending>>
        /\ pc'[d] \in Late
    BY <1>1, <1>17 DEF Publish, WriteReceipt, Late, TypeOK
  <2> QED
    BY <1>14, <2>1
<1>18. CASE ExplainUnpublished(d)
  <2>1. /\ pc[d] = "explain" /\ pc'[d] = "return"
        /\ UNCHANGED <<trip, failedRun, sigterm>> /\ ~sigterm[d]
    BY <1>1, <1>18 DEF ExplainUnpublished, TypeOK, TerminationFits
  <2>2. PICK code \in {"CANDIDATE_EXISTS", "GIT_FAILED"} :
          pending'[d] = Rebuilt(code, pending[d])
    BY <1>1, <1>18 DEF ExplainUnpublished, TypeOK
  <2>3. /\ pending'[d].code = code /\ pending'[d].commit = pending[d].commit
        /\ pending'[d].budget = pending[d].budget
        /\ pending'[d].validation = pending[d].validation
    BY <2>2 DEF Rebuilt, Receipt
  <2>4. Sound(d)
    BY <1>1, <2>1 DEF EvidenceFits, Late
  <2>5. Sound(d)'
    BY <2>1, <2>3, <2>4, SoundRebuilt
  <2> QED
    BY <2>1, <2>5, LateFits DEF Late
<1>19. CASE Kill(d) \/ CommandExits(d) \/ SurvivorsExit(d)
  <2>1. /\ UNCHANGED <<trip, failedRun, sigterm, pending>>
        /\ pc'[d] \in {pc[d], "killed"}
    BY <1>1, <1>19 DEF Kill, CommandExits, SurvivorsExit, TypeOK
  <2>2. BudgetState(d)' = BudgetState(d) /\ (Sound(d)' <=> Sound(d))
    BY <1>1, <2>1 DEF BudgetState, Sound
  <2> QED
    BY <1>1, <2>1, <2>2 DEF EvidenceFits, Early, Validating, Late, Preparing
<1>20. CASE Sigterm(d)
  <2>1. sigterm'[d] /\ UNCHANGED <<failedRun, pending>>
    BY <1>1, <1>20 DEF Sigterm, TypeOK
  <2>2. \/ pc'[d] \in {"terminated", "cleanup"}
        \/ pc[d] = "running" /\ pc'[d] = "teardown"
    BY <1>1, <1>20 DEF Sigterm, LeaveAtOnce, Unwind, StopCommand, TypeOK
  <2> QED
    BY <1>1, <2>1, <2>2 DEF EvidenceFits, Early, Validating, Late, Preparing
<1> QED
  BY <1>2, <1>3, <1>4, <1>5, <1>6, <1>7, <1>8, <1>9, <1>10, <1>11, <1>12, <1>15,
     <1>16, <1>17, <1>18, <1>19, <1>20 DEF Action, Step

(* The second invariant starts true, and every step keeps it.              *)
LEMMA EvidenceInit == Init => EInv
<1> SUFFICES ASSUME Init, NEW d \in Deliveries
             PROVE  TerminationFits(d) /\ LeftoverFits(d) /\ EvidenceFits(d)
  BY DEF EInv
<1>1. /\ pc[d] = "check" /\ ~sigterm[d] /\ ~parent[d] /\ ~failedRun[d]
      /\ pending[d] = Receipt("NONE")
  BY DEF Init
<1>2. ~pending[d].commit
  BY <1>1 DEF Receipt
<1> QED
  BY <1>1, <1>2 DEF TerminationFits, LeftoverFits, EvidenceFits, Validating, Late

LEMMA EvidenceStep ==
  ASSUME IInv, EInv, [Next]_vars
  PROVE  EInv'
<1>1. CASE UNCHANGED vars
  BY <1>1 DEF vars, EInv, TerminationFits, LeftoverFits, EvidenceFits, Sound, BudgetState
<1>2. ASSUME NEW i \in Ids, Meddle(i) PROVE EInv'
  BY <1>2 DEF Meddle, procs, belief, valid, EInv, TerminationFits, LeftoverFits,
     EvidenceFits, Sound, BudgetState
<1>3. ASSUME NEW d \in Deliveries, Action(d) PROVE EInv'
  <2>1. TerminationFits(d)' /\ LeftoverFits(d)' /\ EvidenceFits(d)'
    BY <1>3, TerminationFitsKept, LeftoverFitsKept, EvidenceFitsKept
  <2>2. ASSUME NEW e \in Deliveries \ {d}
        PROVE  TerminationFits(e)' /\ LeftoverFits(e)' /\ EvidenceFits(e)'
    BY <1>3, <2>2, OthersUntouched, ContractKept DEF EInv, TerminationFits, LeftoverFits,
       EvidenceFits, Sound, BudgetState
  <2> QED
    BY <2>1, <2>2 DEF EInv
<1> QED
  BY <1>1, <1>2, <1>3 DEF Next, Action

(* The second invariant holds in every reachable state.                    *)
THEOREM EvidenceInvariance == Spec => []EInv
BY EvidenceInit, EvidenceStep, Invariance, PTL DEF Spec

(* What a finished or terminated delivery leaves on disk is named on its   *)
(* receipt, or on stderr (_cleanup_attempt, _retained_path).               *)
THEOREM LeftoversAreReported == Spec => []LeftoverReported
<1>1. EInv => LeftoverReported
  BY DEF EInv, LeftoverFits, LeftoverReported
<1> QED
  BY <1>1, EvidenceInvariance, PTL

(* What a written receipt says of the self-test is what the runs did, for  *)
(* any number of runs the contract asks for (_validate_candidate); only a  *)
(* later run that cannot be started hides one that failed.                 *)
THEOREM VerdictsAreSound == Spec => []VerdictSound
<1>1. EInv => VerdictSound
  BY DEF EInv, TerminationFits, EvidenceFits, Late, VerdictSound
<1> QED
  BY <1>1, EvidenceInvariance, PTL

(***************************************************************************)
(* The two action properties: removal of the worktree, and refinement.     *)
(***************************************************************************)
(* A delivery's worktree disappears only in RemoveWorktree or in a cleanup *)
(* cut short by SIGTERM, both past an open gate.                           *)
LEMMA RemovalNeedsOpenGate ==
  ASSUME IInv, NEW d \in Deliveries, Action(d)
  PROVE  /\ wt[d] /\ ~wt'[d] => gate[d] = "OPEN"
         /\ \A e \in Deliveries \ {d} : wt'[e] = wt[e]
<1> USE DEF IInv, TypeOK, RegistrationSound, Preparing
<1>1. CASE AddWorktree(d)
  BY <1>1 DEF AddWorktree
<1>2. CASE RemoveWorktree(d)
  BY <1>2 DEF RemoveWorktree
<1>3. CASE Sigterm(d)
  BY <1>3 DEF Sigterm, LeaveAtOnce, Unwind, StopCommand
<1>4. CASE InspectHead(d) \/ CommitTree(d)
  BY <1>4, HeadEffect
<1>5. CASE UNCHANGED wt
  BY <1>5
<1>6. CASE Check(d) \/ InspectRepository(d) \/ InspectRef(d) \/ AllocateParent(d)
           \/ EnterAttempt(d) \/ OpenSpool(d) \/ StartCommand(d) \/ CommandFinished(d)
           \/ TripLimit(d) \/ TearDownCommand(d)
  BY <1>5, <1>6 DEF Check, InspectRepository, InspectRef, AllocateParent, Refuse,
     Proceed, EnterAttempt, OpenSpool, StartCommand, CommandFinished, TripLimit,
     TearDownCommand
<1>7. CASE BeginValidation(d) \/ StartTest(d) \/ TestFinished(d) \/ TestTimedOut(d)
           \/ TimedOutVerdict(d) \/ RemoveParent(d) \/ Publish(d)
           \/ ExplainUnpublished(d) \/ WriteReceipt(d) \/ Kill(d)
           \/ CommandExits(d) \/ SurvivorsExit(d)
  BY <1>5, <1>7 DEF BeginValidation, StartTest, TestFinished, TestTimedOut,
     TimedOutVerdict, RemoveParent, Publish, ExplainUnpublished, WriteReceipt, Kill,
     CommandExits, SurvivorsExit
<1> QED
  BY <1>1, <1>2, <1>3, <1>4, <1>6, <1>7 DEF Action, Step

(* The worktree is never removed under a command that runs or under what   *)
(* is left of one the engine had to stop: _cleanup_attempt withholds the   *)
(* removal until _AttemptState.cleanup_gate says so.                       *)
THEOREM WorktreeOutlivesCommand == Spec => NoRemovalUnderCommand
<1>1. ASSUME IInv, [Next]_vars
      PROVE  [\A d \in Deliveries : wt[d] /\ ~wt'[d] =>
                /\ cmd[d] # "live"
                /\ trip[d] # "none" => cmd[d] = "gone"]_<<wt, cmd, trip>>
  <2>1. CASE UNCHANGED vars
    BY <2>1 DEF vars
  <2>2. ASSUME NEW i \in Ids, Meddle(i) PROVE UNCHANGED wt
    BY <2>2 DEF Meddle
  <2>3. ASSUME NEW e \in Deliveries, Action(e), NEW d \in Deliveries, wt[d], ~wt'[d]
        PROVE  cmd[d] # "live" /\ (trip[d] # "none" => cmd[d] = "gone")
    <3>1. gate[d] = "OPEN"
      BY <1>1, <2>3, RemovalNeedsOpenGate
    <3> QED
      BY <1>1, <3>1 DEF IInv, GateVouches
  <2> QED
    BY <1>1, <2>1, <2>2, <2>3 DEF Next, Action
<1> QED
  BY <1>1, Invariance, PTL DEF Spec, NoRemovalUnderCommand

(* Once there is a commit, the receipt is only rebuilt with what it says   *)
(* of the run, whatever fails later.                                       *)
LEMMA EvidenceOnlyGrows ==
  ASSUME IInv, EInv, NEW d \in Deliveries, Action(d), pending[d].commit
  PROVE  /\ pending'[d].commit
         /\ pending'[d].moved = pending[d].moved
         /\ pending'[d].budget = pending[d].budget
         /\ pending'[d].lost = pending[d].lost
         /\ pending[d].validation # "NOT_APPLICABLE"
              => pending'[d].validation = pending[d].validation
<1> DEFINE Kept == /\ pending'[d].commit
                   /\ pending'[d].moved = pending[d].moved
                   /\ pending'[d].budget = pending[d].budget
                   /\ pending'[d].lost = pending[d].lost
                   /\ pending[d].validation # "NOT_APPLICABLE"
                        => pending'[d].validation = pending[d].validation
<1>1. /\ TypeOK /\ EvidenceFits(d) /\ pending[d] \in Receipts /\ pc[d] \notin Early
  BY DEF IInv, EInv, EvidenceFits, TypeOK
<1> USE DEF shared, procs, belief, valid, Goto, Build
<1>2. CASE UNCHANGED pending
  BY <1>2
<1>3. ASSUME pc[d] \in Validating,
             (\E outcome \in Validations : Validated(d, outcome)) \/ ValidationFailed(d)
      PROVE  Kept
  <2>1. pending[d].validation = "NOT_APPLICABLE"
    BY <1>1, <1>3 DEF EvidenceFits
  <2>2. PICK code \in Codes, outcome \in Validations :
          pending'[d] = [pending[d] EXCEPT !.validation = outcome, !.code = code]
    <3>1. CASE \E outcome \in Validations : Validated(d, outcome)
      <4>1. PICK outcome \in Validations :
              pending'[d] = [pending[d] EXCEPT !.validation = outcome]
        BY <1>1, <3>1 DEF Validated, TypeOK
      <4>2. pending'[d] = [pending[d] EXCEPT !.validation = outcome,
                                             !.code = pending[d].code]
        BY <1>1, <4>1 DEF Receipts
      <4> QED
        BY <1>1, <4>2 DEF Receipts
    <3>2. CASE ValidationFailed(d)
      <4>1. pending'[d] = [pending[d] EXCEPT !.validation = "FAILED",
                             !.code = IF @ = "BUDGET_EXHAUSTED" THEN @ ELSE "TESTS_FAILED"]
        BY <1>1, <3>2 DEF ValidationFailed, TypeOK
      <4> QED
        BY <1>1, <4>1 DEF Receipts, Codes, Validations
    <3> QED
      BY <1>3, <3>1, <3>2
  <2> QED
    BY <1>1, <2>1, <2>2 DEF Receipts
<1>4. ASSUME NEW code, pending'[d] = Rebuilt(code, pending[d])
      PROVE  Kept
  BY <1>4 DEF Rebuilt, Receipt
<1>5. ASSUME NEW path \in {"worktree", "parent"}, CleanupFails(d, path)
      PROVE  Kept
  <2>1. CASE pending'[d] = [Rebuilt("CLEANUP_FAILED", pending[d]) EXCEPT !.path = path]
    BY <2>1 DEF Rebuilt, Receipt
  <2> QED
    BY <1>1, <1>2, <1>5, <2>1, CleanupFailsNames
<1>6. CASE Check(d) \/ InspectRepository(d) \/ InspectRef(d) \/ AllocateParent(d)
           \/ EnterAttempt(d) \/ AddWorktree(d) \/ OpenSpool(d) \/ StartCommand(d)
  BY <1>1, <1>6 DEF Check, InspectRepository, InspectRef, AllocateParent, EnterAttempt,
     AddWorktree, OpenSpool, StartCommand, Early, Preparing
<1>7. CASE CommandFinished(d) \/ TripLimit(d) \/ TearDownCommand(d) \/ InspectHead(d)
           \/ CommitTree(d)
  BY <1>1, <1>7 DEF CommandFinished, TripLimit, TearDownCommand, InspectHead,
     CommitTree, Early
<1>8. CASE BeginValidation(d) \/ StartTest(d) \/ TimedOutVerdict(d)
  BY <1>2, <1>3, <1>8 DEF BeginValidation, StartTest, TimedOutVerdict, Validating,
     Validations
<1>9. CASE TestFinished(d)
  BY <1>2, <1>3, <1>9 DEF TestFinished, Validating, Validations
<1>10. CASE RemoveWorktree(d)
  <2>1. CASE CleanupFails(d, "worktree")
    BY <1>5, <2>1
  <2>2. CASE ~CleanupFails(d, "worktree")
    BY <1>2, <1>10, <2>2 DEF RemoveWorktree
  <2> QED
    BY <2>1, <2>2
<1>11. CASE RemoveParent(d)
  <2>1. CASE CleanupFails(d, "parent")
    BY <1>5, <2>1
  <2>2. CASE ~CleanupFails(d, "parent")
    BY <1>2, <1>11, <2>2 DEF RemoveParent
  <2> QED
    BY <2>1, <2>2
<1>12. CASE ExplainUnpublished(d)
  <2>1. PICK code : pending'[d] = Rebuilt(code, pending[d])
    BY <1>1, <1>12 DEF ExplainUnpublished, TypeOK
  <2> QED
    BY <1>4, <2>1
<1>13. CASE TestTimedOut(d) \/ Publish(d) \/ WriteReceipt(d) \/ Sigterm(d) \/ Kill(d)
            \/ CommandExits(d) \/ SurvivorsExit(d)
  BY <1>2, <1>13 DEF TestTimedOut, Publish, WriteReceipt, Sigterm, Kill, CommandExits,
     SurvivorsExit
<1> QED
  BY <1>6, <1>7, <1>8, <1>9, <1>10, <1>11, <1>12, <1>13 DEF Action, Step

(* Validation, a failed cleanup and a lost race for the ref rebuild the    *)
(* receipt and keep its evidence (_validated, _attempt, _publish).         *)
THEOREM EvidenceSurvives == Spec => EvidenceKept
<1>1. ASSUME IInv, EInv, [Next]_vars
      PROVE  [\A d \in Deliveries : pending[d].commit =>
                /\ pending'[d].commit
                /\ pending'[d].moved = pending[d].moved
                /\ pending'[d].budget = pending[d].budget
                /\ pending'[d].lost = pending[d].lost
                /\ pending[d].validation # "NOT_APPLICABLE"
                     => pending'[d].validation = pending[d].validation]_pending
  <2>1. CASE UNCHANGED vars
    BY <2>1 DEF vars
  <2>2. ASSUME NEW i \in Ids, Meddle(i) PROVE UNCHANGED pending
    BY <2>2 DEF Meddle
  <2>3. ASSUME NEW e \in Deliveries, Action(e), NEW d \in Deliveries, pending[d].commit
        PROVE  /\ pending'[d].commit
               /\ pending'[d].moved = pending[d].moved
               /\ pending'[d].budget = pending[d].budget
               /\ pending'[d].lost = pending[d].lost
               /\ pending[d].validation # "NOT_APPLICABLE"
                    => pending'[d].validation = pending[d].validation
    <3>1. CASE d = e
      BY <1>1, <2>3, <3>1, EvidenceOnlyGrows
    <3>2. CASE d # e
      BY <1>1, <2>3, <3>2, OthersUntouched
    <3> QED
      BY <3>1, <3>2
  <2> QED
    BY <1>1, <2>1, <2>2, <2>3 DEF Next, Action
<1> QED
  BY <1>1, Invariance, EvidenceInvariance, PTL DEF Spec, EvidenceKept

(* A delivery that goes from one running statement to another, without     *)
(* touching a ref, is invisible to the store.                              *)
LEMMA QuietSteps ==
  ASSUME NEW d \in Deliveries, UNCHANGED <<refs, published, contract>>,
         pc[d] \notin Ended, pc'[d] \notin Ended,
         \A e \in Deliveries \ {d} : pc'[e] = pc[e] /\ pending'[e] = pending[e]
  PROVE  UNCHANGED Store!vars
BY DEF Store!vars, StoreStatus, Ended

(* A delivery that ends without a written receipt dies in the store.       *)
LEMMA SilentSteps ==
  ASSUME NEW d \in Deliveries, UNCHANGED <<refs, published, contract, pending>>,
         pc[d] \notin Ended, pc'[d] \in {"unread", "terminated", "killed"},
         \A e \in Deliveries \ {d} : pc'[e] = pc[e]
  PROVE  Store!Die(d)
BY DEF Store!Die, StoreStatus, Ended

(* A step of one delivery changes at most its own status in the store.     *)
LEMMA OneStatusChanges ==
  ASSUME NEW d \in Deliveries,
         \A e \in Deliveries \ {d} :
           pc'[e] = pc[e] /\ pending'[e] = pending[e] /\ (e \in published' <=> e \in published)
  PROVE  StoreStatus' = [StoreStatus EXCEPT ![d] = StoreStatus'[d]]
BY DEF StoreStatus

(* Every step of a delivery is a step of the store, or none.               *)
LEMMA ActionsRefine ==
  ASSUME IInv, NEW d \in Deliveries, Action(d)
  PROVE  [Store!Next]_Store!vars
<1> USE DEF IInv, TypeOK, shared, procs, belief, valid, Goto, Build
<1>1. ASSUME UNCHANGED <<refs, published, contract>>, pc[d] \notin Ended,
             \A e \in Deliveries \ {d} : pc'[e] = pc[e] /\ pending'[e] = pending[e],
             \/ pc'[d] \notin Ended
             \/ UNCHANGED pending /\ pc'[d] \in {"unread", "terminated", "killed"}
      PROVE  [Store!Next]_Store!vars
  BY <1>1, QuietSteps, SilentSteps DEF Store!Next
<1>2. CASE Check(d) \/ InspectRepository(d) \/ InspectRef(d) \/ AllocateParent(d)
  BY <1>1, <1>2 DEF Check, InspectRepository, InspectRef, AllocateParent, Refuse,
     Proceed, Ended
<1>3. CASE EnterAttempt(d) \/ AddWorktree(d) \/ OpenSpool(d) \/ StartCommand(d)
  BY <1>1, <1>3 DEF EnterAttempt, AddWorktree, OpenSpool, StartCommand, Ended
<1>4. CASE CommandFinished(d) \/ TripLimit(d) \/ TearDownCommand(d)
  BY <1>1, <1>4 DEF CommandFinished, TripLimit, TearDownCommand, Ended
<1>5. CASE InspectHead(d) \/ CommitTree(d)
  <2>1. UNCHANGED <<refs, contract>>
    BY <1>5 DEF InspectHead, CommitTree
  <2> QED
    BY <1>1, <1>5, <2>1, HeadEffect DEF Ended
<1>6. CASE BeginValidation(d) \/ StartTest(d) \/ TestTimedOut(d) \/ TimedOutVerdict(d)
  BY <1>1, <1>6 DEF BeginValidation, StartTest, TestTimedOut, TimedOutVerdict,
     Validated, ValidationFailed, Ended
<1>7. CASE TestFinished(d)
  BY <1>1, <1>7 DEF TestFinished, Validated, ValidationFailed, Ended
<1>8. CASE RemoveWorktree(d)
  <2>1. UNCHANGED <<refs, published, contract>> /\ pc[d] \notin Ended
    BY <1>8 DEF RemoveWorktree, Ended
  <2>2. CASE CleanupFails(d, "worktree")
    BY <1>1, <2>1, <2>2, CleanupFailsEffect DEF Ended
  <2>3. CASE ~CleanupFails(d, "worktree")
    BY <1>1, <1>8, <2>1, <2>3 DEF RemoveWorktree, Ended
  <2> QED
    BY <2>2, <2>3
<1>9. CASE RemoveParent(d)
  <2>1. UNCHANGED <<refs, published, contract>> /\ pc[d] \notin Ended
    BY <1>9 DEF RemoveParent, Ended
  <2>2. CASE CleanupFails(d, "parent")
    BY <1>1, <2>1, <2>2, CleanupFailsEffect DEF Ended
  <2>3. CASE ~CleanupFails(d, "parent")
    BY <1>1, <1>9, <2>1, <2>3 DEF RemoveParent, Ended
  <2> QED
    BY <2>2, <2>3
<1>10. CASE Publish(d)
  <2>1. CASE /\ Ref(d) = NoCommit
             /\ refs' = [refs EXCEPT ![contract[d].id] = d]
             /\ published' = published \cup {d}
             /\ Goto(d, "return")
    <3>1. pc[d] = "publish" /\ d \notin published /\ UNCHANGED <<pending, contract>>
      BY <1>10 DEF Publish, ClaimsMatch, Ended
    <3>2. StoreStatus[d] = "working" /\ StoreStatus'[d] = "created"
      BY <2>1, <3>1 DEF StoreStatus, Ended
    <3>3. StoreStatus' = [StoreStatus EXCEPT ![d] = "created"]
      BY <2>1, <3>1, <3>2, OneStatusChanges
    <3>4. Store!Create(d)
      BY <2>1, <3>1, <3>2, <3>3 DEF Store!Create, Ref
    <3> QED
      BY <3>4 DEF Store!Next
  <2>2. CASE Goto(d, "explain") /\ UNCHANGED shared
    BY <1>1, <1>10, <2>2 DEF Publish, Ended
  <2> QED
    BY <1>10, <2>1, <2>2 DEF Publish
<1>11. CASE ExplainUnpublished(d)
  BY <1>1, <1>11 DEF ExplainUnpublished, Ended
<1>12. CASE WriteReceipt(d)
  <2>1. CASE Goto(d, "unread")
    BY <1>1, <1>12, <2>1 DEF WriteReceipt, Ended
  <2>2. CASE Goto(d, "done") /\ d \in published
    <3>1. pc[d] = "return" /\ UNCHANGED <<pending, contract, refs, published>>
      BY <1>12 DEF WriteReceipt
    <3>2. pending[d].code \in CreatedCodes <=> d \in published
      BY <3>1 DEF ClaimsMatch
    <3>3. StoreStatus[d] = "created" /\ StoreStatus'[d] = "announced"
      BY <2>2, <3>1, <3>2 DEF StoreStatus, Ended
    <3>4. StoreStatus' = [StoreStatus EXCEPT ![d] = "announced"]
      BY <2>2, <3>1, <3>3, OneStatusChanges
    <3>5. Store!Announce(d)
      BY <3>1, <3>3, <3>4 DEF Store!Announce
    <3> QED
      BY <3>5 DEF Store!Next
  <2>3. CASE Goto(d, "done") /\ d \notin published
    <3>1. pc[d] = "return" /\ UNCHANGED <<pending, contract, refs, published>>
      BY <1>12 DEF WriteReceipt
    <3>2. pending[d].code \in CreatedCodes <=> d \in published
      BY <3>1 DEF ClaimsMatch
    <3>3. StoreStatus[d] = "working" /\ StoreStatus'[d] = "refused"
      BY <2>3, <3>1, <3>2 DEF StoreStatus, Ended
    <3>4. StoreStatus' = [StoreStatus EXCEPT ![d] = "refused"]
      BY <2>3, <3>1, <3>3, OneStatusChanges
    <3>5. Store!Refuse(d)
      BY <3>1, <3>3, <3>4 DEF Store!Refuse
    <3> QED
      BY <3>5 DEF Store!Next
  <2> QED
    BY <1>12, <2>1, <2>2, <2>3 DEF WriteReceipt
<1>13. CASE Sigterm(d)
  BY <1>1, <1>13 DEF Sigterm, LeaveAtOnce, Unwind, StopCommand, Ended
<1>14. CASE Kill(d)
  BY <1>1, <1>14 DEF Kill, Running, Ended
<1>15. CASE CommandExits(d) \/ SurvivorsExit(d)
  <2>1. UNCHANGED Store!vars
    BY <1>15 DEF CommandExits, SurvivorsExit, Store!vars, StoreStatus
  <2> QED
    BY <2>1
<1> QED
  BY <1>2, <1>3, <1>4, <1>5, <1>6, <1>7, <1>8, <1>9, <1>10, <1>11, <1>12, <1>13,
     <1>14, <1>15 DEF Action, Step

(* The pipeline implements the create-once store, whoever else creates or  *)
(* removes candidate refs and however many deliveries race: a ref is made  *)
(* only where none is, and only a delivery that made one announces it.     *)
THEOREM PipelineImplementsStore == Spec => ImplementsStore
<1>1. Init => Store!Init
  BY ContractsAssumption DEF Init, Store!Init, StoreStatus, Ended
<1>2. ASSUME IInv, [Next]_vars PROVE [Store!Next]_Store!vars
  <2>1. CASE UNCHANGED vars
    BY <2>1 DEF vars, Store!vars, StoreStatus
  <2>2. ASSUME NEW i \in Ids, Meddle(i) PROVE Store!Next
    BY <2>2 DEF Meddle, Store!Next, Store!Meddle, StoreStatus
  <2> QED
    BY <1>2, <2>1, <2>2, ActionsRefine DEF Next, Action
<1> QED
  BY <1>1, <1>2, Invariance, PTL DEF Spec, ImplementsStore, Store!Spec

(***************************************************************************)
(* What EveryDeliveryEnds rests on.  That the engine keeps executing is    *)
(* fairness, which is left to TLC; that it never goes in circles is proved *)
(* here: a number that every step of a delivery lowers.                    *)
(***************************************************************************)
(* The steps a delivery at statement l has left at most, with n validation *)
(* runs to do; before the validation they may be three.                    *)
StepsFrom(l, n) ==
  CASE l = "check"       -> 25
    [] l = "inspect"     -> 24
    [] l = "inspect_ref" -> 23
    [] l = "allocate"    -> 22
    [] l = "allocated"   -> 21
    [] l = "adding"      -> 20
    [] l = "spool"       -> 19
    [] l = "starting"    -> 18
    [] l = "running"     -> 17
    [] l = "teardown"    -> 16
    [] l = "head"        -> 15
    [] l = "commit"      -> 14
    [] l = "validate"    -> 13
    [] l = "test"        -> 6 + 2 * n
    [] l = "testing"     -> 5 + 2 * n
    [] l = "drain"       -> 6
    [] l = "cleanup"     -> 5
    [] l = "rmtree"      -> 4
    [] l = "publish"     -> 3
    [] l = "explain"     -> 2
    [] l = "return"      -> 1
    [] OTHER             -> 0

(* The one termination sends it back as far as the cleanup.                *)
StepsLeft(d) == StepsFrom(pc[d], runs[d]) + (IF sigterm[d] THEN 0 ELSE 5)

(* The engine's own state in delivery d.                                   *)
OwnState(d) == <<pc[d], reg[d], gate[d], trip[d], runs[d], failedRun[d], pending[d],
                 sigterm[d], diag[d]>>

(* A delivery takes at most thirty steps: each of its own, an interruption *)
(* included, leaves it fewer, and nobody else's adds one or touches what   *)
(* the engine holds.                                                       *)
DeliveriesAdvance ==
  [][\A d \in Deliveries :
       /\ StepsLeft(d) \in 0..30
       /\ StepsLeft(d)' < StepsLeft(d) \/ UNCHANGED OwnState(d)]_vars

LEMMA StepsAreFew ==
  ASSUME NEW l \in Running \cup Ended, NEW n \in 0..3
  PROVE  StepsFrom(l, n) \in 0..25 /\ (l \in Running => StepsFrom(l, n) > 0)
<1>1. CASE l = "test"
  BY <1>1 DEF StepsFrom
<1>2. CASE l = "testing"
  BY <1>2 DEF StepsFrom
<1>3. CASE l \in {"check", "inspect", "inspect_ref", "allocate", "allocated", "adding",
                  "spool", "starting", "running", "teardown"}
  <2>1. StepsFrom(l, n) \in {25, 24, 23, 22, 21, 20, 19, 18, 17, 16}
    BY <1>3 DEF StepsFrom
  <2> QED BY <2>1
<1>4. CASE l \in {"head", "commit", "validate", "drain", "cleanup", "rmtree", "publish",
                  "explain", "return"}
  <2>1. StepsFrom(l, n) \in {15, 14, 13, 6, 5, 4, 3, 2, 1}
    BY <1>4 DEF StepsFrom
  <2> QED BY <2>1
<1>5. CASE l \in Ended
  <2>1. l \notin Running
    BY <1>5 DEF Ended, Running
  <2>2. StepsFrom(l, n) = 0
    BY <1>5 DEF StepsFrom, Ended
  <2> QED BY <2>1, <2>2
<1> QED BY <1>1, <1>2, <1>3, <1>4, <1>5 DEF Running

(* One statement leads to a later one, or to one validation run less.      *)
LEMMA StepLowers ==
  ASSUME IInv, NEW d \in Deliveries, Step(d)
  PROVE  /\ sigterm'[d] = sigterm[d]
         /\ StepsFrom(pc'[d], runs'[d]) < StepsFrom(pc[d], runs[d])
<1> USE DEF IInv, TypeOK, shared, procs, belief, valid, Goto, Build
<1>0. d \in DOMAIN pc /\ d \in DOMAIN runs /\ runs[d] \in 0..3
  OBVIOUS
<1>1. CASE Check(d) \/ InspectRepository(d) \/ InspectRef(d) \/ AllocateParent(d)
  <2>1. /\ UNCHANGED sigterm
        /\ \/ pc[d] = "check" /\ pc'[d] \in {"inspect", "return"}
           \/ pc[d] = "inspect" /\ pc'[d] \in {"inspect_ref", "return"}
           \/ pc[d] = "inspect_ref" /\ pc'[d] \in {"allocate", "return"}
           \/ pc[d] = "allocate" /\ pc'[d] \in {"allocated", "return"}
    BY <1>0, <1>1 DEF Check, InspectRepository, InspectRef, AllocateParent, Refuse, Proceed
  <2> QED BY <2>1 DEF StepsFrom
<1>2. CASE EnterAttempt(d) \/ AddWorktree(d) \/ OpenSpool(d) \/ StartCommand(d)
  <2>1. /\ UNCHANGED sigterm
        /\ \/ pc[d] = "allocated" /\ pc'[d] = "adding"
           \/ pc[d] = "adding" /\ pc'[d] \in {"spool", "cleanup"}
           \/ pc[d] = "spool" /\ pc'[d] \in {"starting", "cleanup"}
           \/ pc[d] = "starting" /\ pc'[d] \in {"running", "cleanup"}
    BY <1>0, <1>2 DEF EnterAttempt, AddWorktree, OpenSpool, StartCommand
  <2> QED BY <2>1 DEF StepsFrom
<1>3. CASE CommandFinished(d) \/ TripLimit(d) \/ TearDownCommand(d)
  <2>1. /\ UNCHANGED sigterm
        /\ \/ pc[d] = "running" /\ pc'[d] \in {"teardown", "head", "cleanup"}
           \/ pc[d] = "teardown" /\ pc'[d] \in {"head", "cleanup"}
    BY <1>0, <1>3 DEF CommandFinished, TripLimit, TearDownCommand
  <2> QED BY <2>1 DEF StepsFrom
<1>4. CASE InspectHead(d) \/ CommitTree(d)
  <2>1. /\ UNCHANGED sigterm
        /\ \/ pc[d] = "head" /\ pc'[d] \in {"commit", "cleanup"}
           \/ pc[d] = "commit" /\ pc'[d] \in {"validate", "cleanup"}
    BY <1>0, <1>4 DEF InspectHead, CommitTree
  <2> QED BY <2>1 DEF StepsFrom
<1>5. CASE BeginValidation(d)
  <2>1. contract[d].runs \in 0..3
    BY ContractsAssumption
  <2>2. /\ UNCHANGED sigterm
        /\ pc[d] = "validate"
        /\ pc'[d] = "cleanup" \/ (pc'[d] = "test" /\ runs'[d] \in 0..3)
    BY <1>0, <1>5, <2>1 DEF BeginValidation, Validated
  <2> QED BY <2>2 DEF StepsFrom
<1>6. CASE StartTest(d) \/ TestFinished(d) \/ TestTimedOut(d) \/ TimedOutVerdict(d)
  <2>1. pc[d] = "testing" => runs[d] > 0
    BY DEF RunsLeft
  <2>2. /\ UNCHANGED sigterm
        /\ \/ pc[d] = "test" /\ runs'[d] = runs[d] /\ pc'[d] \in {"testing", "cleanup"}
           \/ pc[d] = "testing" /\ runs'[d] = runs[d] - 1 /\ pc'[d] \in {"test", "cleanup"}
           \/ pc[d] = "testing" /\ pc'[d] = "drain"
           \/ pc[d] = "drain" /\ pc'[d] = "cleanup"
    BY <1>0, <1>6 DEF StartTest, TestFinished, TestTimedOut, TimedOutVerdict, Validated,
                      ValidationFailed
  <2> QED BY <1>0, <2>1, <2>2 DEF StepsFrom
<1>7. CASE RemoveWorktree(d) \/ RemoveParent(d)
  <2>1. /\ UNCHANGED sigterm
        /\ \/ pc[d] = "cleanup" /\ pc'[d] \in {"rmtree", "return", "terminated"}
           \/ pc[d] = "rmtree" /\ pc'[d] \in {"publish", "return", "terminated"}
    BY <1>0, <1>7 DEF RemoveWorktree, RemoveParent, CleanupFails
  <2> QED BY <2>1 DEF StepsFrom
<1>8. CASE Publish(d) \/ ExplainUnpublished(d) \/ WriteReceipt(d)
  <2>1. /\ UNCHANGED sigterm
        /\ \/ pc[d] = "publish" /\ pc'[d] \in {"return", "explain"}
           \/ pc[d] = "explain" /\ pc'[d] = "return"
           \/ pc[d] = "return" /\ pc'[d] \in {"done", "unread"}
    BY <1>0, <1>8 DEF Publish, ExplainUnpublished, WriteReceipt
  <2> QED BY <2>1 DEF StepsFrom
<1> QED BY <1>1, <1>2, <1>3, <1>4, <1>5, <1>6, <1>7, <1>8 DEF Step

(* A termination may send a delivery back to its cleanup, but only once.   *)
LEMMA SigtermLowers ==
  ASSUME IInv, NEW d \in Deliveries, Sigterm(d)
  PROVE  StepsLeft(d)' < StepsLeft(d)
<1> USE DEF IInv, TypeOK
<1>1. /\ ~sigterm[d] /\ sigterm'[d] = TRUE /\ runs' = runs /\ runs[d] \in 0..3
      /\ \/ pc'[d] \in {"terminated", "cleanup"}
         \/ pc[d] = "running" /\ pc'[d] = "teardown"
      /\ pc[d] \in Running
  BY DEF Sigterm, LeaveAtOnce, Unwind, StopCommand, valid, Goto, Running
<1>2. /\ StepsFrom(pc[d], runs[d]) \in 0..25 /\ StepsFrom(pc[d], runs[d]) > 0
      /\ StepsFrom("cleanup", runs[d]) = 5 /\ StepsFrom("terminated", runs[d]) = 0
      /\ StepsFrom("teardown", runs[d]) = 16 /\ StepsFrom("running", runs[d]) = 17
  BY <1>1, StepsAreFew DEF StepsFrom
<1> QED BY <1>1, <1>2 DEF StepsLeft

LEMMA KillLowers ==
  ASSUME IInv, NEW d \in Deliveries, Kill(d)
  PROVE  StepsLeft(d)' < StepsLeft(d)
<1>1. /\ pc[d] \in Running /\ pc'[d] = "killed" /\ UNCHANGED <<runs, sigterm>>
      /\ runs[d] \in 0..3
  BY DEF Kill, Goto, valid, IInv, TypeOK
<1>2. /\ StepsFrom(pc[d], runs[d]) \in 0..25 /\ StepsFrom(pc[d], runs[d]) > 0
      /\ StepsFrom("killed", runs[d]) = 0
  BY <1>1, StepsAreFew DEF StepsFrom
<1> QED BY <1>1, <1>2 DEF StepsLeft

LEMMA DeliveryLowers ==
  ASSUME IInv, [Next]_vars, NEW d \in Deliveries
  PROVE  /\ StepsLeft(d) \in 0..30
         /\ StepsLeft(d)' < StepsLeft(d) \/ UNCHANGED OwnState(d)
<1>1. pc[d] \in Running \cup Ended /\ runs[d] \in 0..3 /\ sigterm[d] \in BOOLEAN
  BY DEF IInv, TypeOK
<1>2. StepsFrom(pc[d], runs[d]) \in 0..25
  BY <1>1, StepsAreFew
<1>3. StepsLeft(d) \in 0..30
  BY <1>1, <1>2 DEF StepsLeft
<1>4. CASE Step(d)
  <2>1. pc'[d] \in Running \cup Ended /\ runs'[d] \in 0..3
    BY <1>4, NextTypes DEF IInv, TypeOK, Next
  <2>2. StepsFrom(pc'[d], runs'[d]) \in 0..25
    BY <2>1, StepsAreFew
  <2> QED BY <1>1, <1>2, <1>3, <1>4, <2>2, StepLowers DEF StepsLeft
<1>5. CASE Sigterm(d) \/ Kill(d)
  BY <1>3, <1>5, SigtermLowers, KillLowers
<1>6. CASE CommandExits(d) \/ SurvivorsExit(d)
  BY <1>3, <1>6 DEF CommandExits, SurvivorsExit, OwnState, procs, belief, valid
<1>7. ASSUME NEW e \in Deliveries, e # d, Action(e) PROVE UNCHANGED OwnState(d)
  BY <1>7, OthersUntouched DEF OwnState
<1>8. CASE UNCHANGED vars
  <2>1. UNCHANGED <<pc, reg, gate, trip, runs, failedRun, pending, sigterm, diag>>
    BY <1>8 DEF vars
  <2> QED BY <1>3, <2>1 DEF OwnState
<1>9. ASSUME NEW i \in Ids, Meddle(i) PROVE UNCHANGED OwnState(d)
  BY <1>9 DEF Meddle, OwnState, procs, belief, valid
<1> QED BY <1>3, <1>4, <1>5, <1>6, <1>7, <1>8, <1>9 DEF Next, Action

(* No delivery goes in circles: whatever fails, whatever races and however *)
(* often it is interrupted, it is over within thirty steps of its own.     *)
THEOREM DeliveriesEndInThirtySteps == Spec => DeliveriesAdvance
<1>1. ASSUME IInv, [Next]_vars
      PROVE  \A d \in Deliveries :
               /\ StepsLeft(d) \in 0..30
               /\ StepsLeft(d)' < StepsLeft(d) \/ UNCHANGED OwnState(d)
  BY <1>1, DeliveryLowers
<1> QED BY <1>1, Invariance, PTL DEF Spec, DeliveriesAdvance
=============================================================================
