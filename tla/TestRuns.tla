------------------------------ MODULE TestRuns ------------------------------
(***************************************************************************)
(* One self-test exchange: the adapter starts a Python process for it      *)
(* (exchange and collect in orchestrator.ts) and gives it Deadline; the    *)
(* process restores the carried files from the base commit and runs the    *)
(* declared test command, up to two more times for the preserved tests     *)
(* and the checks the base has (run_tests in runner.py), and gives all     *)
(* these runs together Timeout.                                            *)
(*                                                                         *)
(* What a test run leaves running is taken to leave the carried files      *)
(* alone; the tests themselves may rewrite them.                           *)
(***************************************************************************)
EXTENDS Integers

CONSTANTS Timeout,  \* DEFAULT_TEST_TIMEOUT_SECONDS
          Floor,    \* the least any run is given, 0.1 seconds
          Deadline  \* SELF_TEST_DEADLINE_MS

ASSUME TestRunsAssumption ==
  /\ Timeout \in Nat /\ Floor \in Nat /\ Deadline \in Nat
  /\ Floor <= Timeout
  /\ Deadline >= Timeout + 2 * Floor

VARIABLES
  base,     \* whether the context names a base commit: "given", "none"
  more,     \* how many further runs the carried files of the base make
  carried,  \* what the carried files are: "base" (of HEAD, if none is named), "changed"
  stage,    \* "idle", "starting", "next", "running", "answered"
  todo,     \* runs to start
  failed,   \* exit_code_set
  clock,    \* since the exchange was begun
  started,  \* when the first run was about to start
  until,    \* when the run is over at the latest
  late,     \* whether the adapter gave the exchange up
  outcome,  \* "none", "pass", "fail", "refused"
  (* history *)
  began,    \* what the carried files were when the first run started
  passed    \* whether every run so far has passed

runs == <<base, more, carried, stage, todo, failed, clock, started, until, late, outcome, began, passed>>

Unstarted == -1
Sources   == {"base", "changed"}
Latest    == Deadline + Timeout + Floor   \* no run is granted more

RunsTypeOK ==
  /\ base \in {"given", "none"} /\ more \in 0..2 /\ carried \in Sources
  /\ stage \in {"idle", "starting", "next", "running", "answered"}
  /\ todo \in 0..3
  /\ failed \in BOOLEAN /\ late \in BOOLEAN /\ passed \in BOOLEAN
  /\ clock \in 0..Deadline /\ until \in 0..Latest
  /\ started \in 0..Deadline \cup {Unstarted}
  /\ outcome \in {"none", "pass", "fail", "refused"}
  /\ began \in Sources \cup {"none"}

RunsInit ==
  /\ base \in {"given", "none"} /\ more \in 0..2 /\ carried = "base"
  /\ stage = "idle" /\ todo = 0 /\ failed = FALSE
  /\ clock = 0 /\ started = Unstarted /\ until = 0 /\ late = FALSE
  /\ outcome = "none" /\ began = "none" /\ passed = TRUE

(* A response nobody waits for any more is a refusal. *)
Answers(verdict) ==
  /\ stage' = "answered"
  /\ outcome' = IF late THEN "refused" ELSE verdict
  /\ clock' = 0 /\ started' = Unstarted /\ until' = 0 /\ late' = FALSE

(***************************************************************************)
(* The Python process.                                                     *)
(***************************************************************************)
(* check() fails, the carried files cannot be read or not be restored. *)
RefuseToRun ==
  /\ stage = "starting"
  /\ Answers("refused")
  /\ UNCHANGED <<base, more, carried, todo, failed, began, passed>>

(* Mutant: that git cannot list a base is passed over, whoever named it. *)
RestoreLeniently ==
  /\ stage = "starting" /\ stage' = "next"
  /\ started' = clock
  /\ \/ carried' = "base" /\ todo' = 1 + more
     \/ UNCHANGED carried /\ todo' = 1
  /\ UNCHANGED <<base, more, failed, clock, until, late, outcome, began, passed>>

(* Only when no base is named and git cannot list HEAD nothing is restored. *)
Restore ==
  /\ stage = "starting" /\ stage' = "next"
  /\ started' = clock
  /\ \/ carried' = "base" /\ todo' = 1 + more
     \/ base = "none" /\ UNCHANGED carried /\ todo' = 1
  /\ UNCHANGED <<base, more, failed, clock, until, late, outcome, began, passed>>

(* Mutant: the timeout is each run's own. *)
GrantedAnew == Timeout

(* What is left of the timeout, and never nothing. *)
Granted ==
  LET remaining == Timeout - (clock - started) IN
  IF remaining >= Floor THEN remaining ELSE Floor

StartRun ==
  /\ stage = "next" /\ stage' = "running"
  /\ until' = clock + Granted
  /\ todo' = todo - 1
  /\ began' = IF began = "none" THEN carried ELSE began
  /\ UNCHANGED <<base, more, carried, failed, clock, started, late, outcome, passed>>

(* The command is not there, or not executable: whatever ran before. *)
CannotStart ==
  /\ stage = "next"
  /\ Answers("refused")
  /\ UNCHANGED <<base, more, carried, todo, failed, began, passed>>

(* A failing run does not stop the next; the first exit code counts. *)
RunEnds(passes) ==
  /\ stage = "running"
  /\ carried' \in {carried, "changed"}
  /\ failed' = (failed \/ ~passes)
  /\ passed' = (passed /\ passes)
  /\ IF todo > 0
     THEN stage' = "next" /\ UNCHANGED <<outcome, clock, started, until, late>>
     ELSE Answers(IF failed' THEN "fail" ELSE "pass")
  /\ UNCHANGED <<base, more, todo, began>>

(* A run that does not end, or whose output somebody holds open. *)
RunTimesOut ==
  /\ stage = "running" /\ (clock >= until \/ late)
  /\ failed' = TRUE /\ passed' = FALSE
  /\ Answers("fail")
  /\ UNCHANGED <<base, more, carried, todo, began>>

(* uv or Python ends without an answer. *)
EngineDies ==
  /\ stage \in {"starting", "next", "running"}
  /\ Answers("refused")
  /\ UNCHANGED <<base, more, carried, todo, failed, began, passed>>

(***************************************************************************)
(* The adapter.                                                            *)
(***************************************************************************)
Ask ==
  /\ stage = "idle" /\ stage' = "starting"
  /\ UNCHANGED <<base, more, carried, todo, failed, clock, started, until, late, outcome, began, passed>>

(* The answer is taken; the next exchange has a process of its own. *)
Take ==
  /\ stage = "answered" /\ stage' = "idle"
  /\ todo' = 0 /\ failed' = FALSE /\ outcome' = "none" /\ began' = "none" /\ passed' = TRUE
  /\ UNCHANGED <<base, more, carried, clock, started, until, late>>

(* Mutant: the timer is set when the process has begun to run tests. *)
DeadlinePassesLate ==
  /\ stage = "running" /\ ~late /\ clock >= Deadline
  /\ late' = TRUE
  /\ UNCHANGED <<base, more, carried, stage, todo, failed, clock, started, until, outcome, began, passed>>

(* The process is told to end; its close is waited for. *)
DeadlinePasses ==
  /\ stage \in {"starting", "next", "running"} /\ ~late /\ clock >= Deadline
  /\ late' = TRUE
  /\ UNCHANGED <<base, more, carried, stage, todo, failed, clock, started, until, outcome, began, passed>>

(* Time passes while something is waited for, and not past a timer; once   *)
(* the exchange is given up it is not counted any more.                    *)
Tick ==
  /\ stage = "starting" \/ (stage = "running" /\ clock < until)
  /\ clock < Deadline
  /\ clock' = clock + 1
  /\ UNCHANGED <<base, more, carried, stage, todo, failed, started, until, late, outcome, began, passed>>

RunsNext ==
  \/ RefuseToRun \/ Restore \/ StartRun \/ CannotStart
  \/ RunEnds(TRUE) \/ RunEnds(FALSE) \/ RunTimesOut
  \/ EngineDies \/ DeadlinePasses \/ Tick
=============================================================================
