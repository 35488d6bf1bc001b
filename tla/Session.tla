------------------------------ MODULE Session -------------------------------
(***************************************************************************)
(* The gates of a steered session (module Gate) over the exchanges they    *)
(* ask for (module TestRuns).  Gate takes an exchange as one step with a   *)
(* free outcome; here it takes the time and has the outcome that the test  *)
(* runs give it, and the model's own changes reach the carried files.      *)
(***************************************************************************)
EXTENDS Gate, TestRuns

VARIABLE asked   \* for whom an exchange is under way

sessionVars == <<vars, runs, asked>>

Askers == {"bash", "tool", "stop", "cut"}

SessionTypeOK == TypeOK /\ RunsTypeOK /\ asked \in Askers \cup {"nobody"}

SessionInit == Init /\ RunsInit /\ asked = "nobody"

Touches(files) ==
  /\ carried' \in files
  /\ UNCHANGED <<base, more, stage, todo, failed, clock, started, until, late, outcome, began, passed>>

(* What the model does between two exchanges.  Any edit may reach a        *)
(* carried file: one of source too, since an infrastructure file is        *)
(* carried, and so is a test that isTestPath does not know.                *)
Act ==
  /\ asked = "nobody" /\ UNCHANGED asked
  /\ \/ (Mutate \/ Bash) /\ Touches({carried, "changed"})
     \/ BrokenTurn /\ UNCHANGED runs

(* The model stops, and no gate asks for a run. *)
StopUnasked(cut) ==
  /\ asked = "nobody" /\ ~NeedsCheck /\ ~RedStops
  /\ FinalTurn(cut)
  /\ UNCHANGED <<runs, asked>>

(* Who may ask: a shell command whose output shows a test run, the tool,   *)
(* or a gate when the model stops, by itself or cut.                       *)
MayAsk(who) ==
  /\ who = "bash" => generation # 0 /\ checked # generation
  /\ who \in {"stop", "cut"} => NeedsCheck \/ RedStops

AskFor(who) ==
  /\ session = "acting" /\ asked = "nobody" /\ MayAsk(who)
  /\ asked' = who /\ Ask
  /\ UNCHANGED vars

(* The suite of a red tree does not pass, unless the tests were changed.   *)
MayPass == tree = "green" \/ (base = "given" /\ carried # "base")

Exchange ==
  /\ asked # "nobody"
  /\ \/ RefuseToRun \/ Restore \/ StartRun \/ CannotStart
     \/ MayPass /\ RunEnds(TRUE)
     \/ RunEnds(FALSE) \/ RunTimesOut
     \/ EngineDies \/ DeadlinePasses \/ Tick
  /\ UNCHANGED <<vars, asked>>

(* The answer reaches the gate that asked. *)
Conclude ==
  /\ Take /\ UNCHANGED tree
  /\ \/ asked = "bash" /\ BashTested
     \/ asked = "tool" /\ SelfTest
     \/ asked = "stop" /\ FinalTurn(FALSE)
     \/ asked = "cut" /\ FinalTurn(TRUE)
  /\ last'.outcome = outcome
  /\ asked' = "nobody"

SessionNext ==
  \/ Act \/ StopUnasked(TRUE) \/ StopUnasked(FALSE)
  \/ \E who \in Askers : AskFor(who)
  \/ Exchange \/ Conclude

(* Time passes, timers fire, a process that was killed ends. *)
Fairness ==
  /\ WF_sessionVars(Tick /\ Exchange)
  /\ WF_sessionVars((StartRun \/ CannotStart) /\ Exchange)
  /\ WF_sessionVars(RunTimesOut /\ Exchange)
  /\ WF_sessionVars(DeadlinePasses /\ Exchange)
  /\ WF_sessionVars(late /\ EngineDies /\ Exchange)
  /\ WF_sessionVars(Conclude)

SessionSpec == SessionInit /\ [][SessionNext]_sessionVars /\ Fairness

(***************************************************************************)
(* Properties.                                                             *)
(***************************************************************************)
(* runner.ts: edits to the carried files "never count".  An exchange that  *)
(* passes had every run of the contract pass, and the first of them on a   *)
(* tree that passes with the carried files of the named base.              *)
PassIsEarned ==
  outcome = "pass" =>
    /\ tree = "green"
    /\ todo = 0 /\ passed
    /\ base = "given" => began = "base"

(* runner.ts: the adapter's deadline is the runner's bound "plus the       *)
(* child's own start-up": it is never the test runs that exhaust it.       *)
DeadlineIsForStartup ==
  late => started = Unstarted \/ started >= Deadline - Timeout - 2 * Floor

(* Whatever a test run or its leftovers do, a gate that asks is answered. *)
AskedIsAnswered == asked # "nobody" ~> asked = "nobody"
=============================================================================
