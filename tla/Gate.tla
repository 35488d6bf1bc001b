-------------------------------- MODULE Gate --------------------------------
(***************************************************************************)
(* The self-test gates of a steered Pi session (registerRunner in          *)
(* packages/engine/runner.ts).  The model edits, runs shell commands and   *)
(* the self_test tool, and stops; the Engine counts landed mutations,      *)
(* detects test runs, steers once on green, and when the model stops runs  *)
(* the self-test itself and sends follow-ups that keep the session going.  *)
(*                                                                         *)
(* Whether the suite passes on the working tree is a variable of its own,  *)
(* which shell commands change behind the Engine's back.  Pi is taken to   *)
(* run one tool call at a time, its listeners included.                    *)
(***************************************************************************)
EXTENDS Integers

CONSTANTS MaxGeneration,   \* bound: mutations of a session
          MaxResumes       \* MAX_RESUMES, 2 in the code

ASSUME GateAssumption == MaxGeneration \in Nat /\ MaxResumes \in Nat

VARIABLES
  (* the closure of registerRunner; Never stands for null *)
  generation, checked, lastPassed, lastAt, redStopped,
  sourceGeneration, nudged, resumes,
  (* the session *)
  tree,      \* whether the suite passes on the working tree
  session,   \* "acting", "stopped" by the model, "broken" by error or abort
  (* what happened, for the properties *)
  last,      \* the last exchange: its generation and outcome
  told,      \* the generations a red follow-up went out for
  redsTold,  \* how many red follow-ups went out
  steers     \* how many steers went out

gates   == <<generation, checked, lastPassed, lastAt, redStopped,
             sourceGeneration, nudged, resumes>>
history == <<last, told, redsTold, steers>>
vars    == <<gates, tree, session, history>>

Never == -1
Generations == 0..MaxGeneration
Exchanges == [at : Generations \cup {Never}, outcome : {"none", "pass", "fail", "refused"}]

TypeOK ==
  /\ generation \in Generations
  /\ checked \in Generations \cup {Never}
  /\ lastPassed \in {"null", "passed", "failed"}
  /\ lastAt \in Generations \cup {Never}
  /\ redStopped \in Generations \cup {Never}
  /\ sourceGeneration \in 0..generation
  /\ nudged \in (1..sourceGeneration) \cup {Never}
  /\ resumes \in 0..MaxResumes
  /\ tree \in {"green", "red"}
  /\ session \in {"acting", "stopped", "broken"}
  /\ last \in Exchanges
  /\ told \subseteq Generations
  /\ redsTold \in Nat
  /\ steers \in Nat

Init ==
  /\ generation = 0 /\ checked = Never
  /\ lastPassed = "null" /\ lastAt = Never /\ redStopped = Never
  /\ sourceGeneration = 0 /\ nudged = Never /\ resumes = 0
  /\ tree \in {"green", "red"} /\ session = "acting"
  /\ last = [at |-> Never, outcome |-> "none"]
  /\ told = {} /\ redsTold = 0 /\ steers = 0

(***************************************************************************)
(* Exchanges.  A red tree does not pass; a green one may, but a run can    *)
(* time out or be refused on any tree.                                     *)
(***************************************************************************)
Outcomes == {"fail", "refused"} \cup (IF tree' = "green" THEN {"pass"} ELSE {})

Ran(outcome) == last' = [at |-> generation, outcome |-> outcome]

Believe(outcome) ==
  /\ lastPassed' = IF outcome = "pass" THEN "passed" ELSE "failed"
  /\ lastAt' = generation

(* A run inside a turn; a refused one forgets the last verdict. *)
Run(outcome) ==
  /\ Ran(outcome)
  /\ IF outcome = "refused"
     THEN lastPassed' = "null" /\ UNCHANGED <<checked, lastAt>>
     ELSE checked' = generation /\ Believe(outcome)

(* Mutant: every mutation re-arms the steer. *)
MaybeSteerOften(outcome) ==
  IF outcome = "pass" /\ generation # 0
  THEN nudged' = (IF sourceGeneration = 0 THEN Never ELSE sourceGeneration) /\ steers' = steers + 1
  ELSE UNCHANGED <<nudged, steers>>

MaybeSteer(outcome) ==
  IF outcome = "pass" /\ sourceGeneration # 0 /\ nudged # sourceGeneration
  THEN nudged' = sourceGeneration /\ steers' = steers + 1
  ELSE UNCHANGED <<nudged, steers>>

(***************************************************************************)
(* Tool calls.                                                             *)
(***************************************************************************)
(* An edit or write that landed; the paths of tests are not source. *)
Mutate ==
  /\ session = "acting" /\ generation < MaxGeneration
  /\ generation' = generation + 1
  /\ sourceGeneration' \in {sourceGeneration, sourceGeneration + 1}
  /\ tree' \in {"green", "red"}
  /\ UNCHANGED <<checked, lastPassed, lastAt, redStopped, nudged, resumes, session, history>>

(* The Engine's run after a shell command, which may have changed the tree *)
(* itself, and whose output carried a test run.                            *)
BashTested ==
  /\ session = "acting" /\ generation # 0 /\ checked # generation
  /\ tree' \in {"green", "red"}
  /\ \E outcome \in Outcomes : Run(outcome) /\ MaybeSteer(outcome)
  /\ UNCHANGED <<generation, redStopped, sourceGeneration, resumes, session, told, redsTold>>

Bash ==
  /\ session = "acting"
  /\ tree' \in {"green", "red"}
  /\ UNCHANGED <<gates, session, history>>

SelfTest ==
  /\ session = "acting"
  /\ UNCHANGED tree
  /\ \E outcome \in Outcomes : Run(outcome) /\ MaybeSteer(outcome)
  /\ UNCHANGED <<generation, redStopped, sourceGeneration, resumes, session, told, redsTold>>

(***************************************************************************)
(* The end of a turn.                                                      *)
(***************************************************************************)
Tell ==
  /\ told' = told \cup {generation}
  /\ redsTold' = redsTold + 1

(* Mutant: one check is enough. *)
NeedsCheckOnce == checked = Never

(* The completion gate: nothing has run since the last mutation. *)
NeedsCheck == checked # generation

(* Mutant: that the model was told is not noted. *)
EnforceUnnoted(outcome) ==
  /\ checked' = generation
  /\ Ran(outcome)
  /\ IF outcome = "refused" THEN UNCHANGED <<lastPassed, lastAt>> ELSE Believe(outcome)
  /\ UNCHANGED redStopped
  /\ IF outcome = "fail" THEN Tell ELSE UNCHANGED <<told, redsTold>>

Enforce(outcome) ==
  /\ checked' = generation
  /\ Ran(outcome)
  /\ IF outcome = "refused" THEN UNCHANGED <<lastPassed, lastAt>> ELSE Believe(outcome)
  /\ IF outcome = "fail"
     THEN redStopped' = generation /\ Tell
     ELSE UNCHANGED <<redStopped, told, redsTold>>

(* The red-stop gate: the last run at this generation failed, and the      *)
(* model was not told of this generation.                                  *)
RedStops == lastPassed = "failed" /\ lastAt = generation /\ redStopped # generation

(* Mutant: the red stop does not note its generation. *)
RedStopUnnoted(outcome) ==
  /\ checked' = generation
  /\ Ran(outcome)
  /\ IF outcome = "refused"
     THEN lastPassed' = "null" /\ UNCHANGED lastAt
     ELSE Believe(outcome)
  /\ UNCHANGED redStopped
  /\ IF outcome = "fail" THEN Tell ELSE UNCHANGED <<told, redsTold>>

RedStop(outcome) ==
  /\ checked' = generation
  /\ Ran(outcome)
  /\ IF outcome = "refused"
     THEN lastPassed' = "null" /\ UNCHANGED lastAt
     ELSE Believe(outcome)
  /\ redStopped' = generation
  /\ IF outcome = "fail" THEN Tell ELSE UNCHANGED <<told, redsTold>>

(* A follow-up of a gate comes instead of a resume; no follow-up, no turn. *)
ResumeOrStop(gated, cut) ==
  IF ~gated /\ cut /\ resumes < MaxResumes
  THEN resumes' = resumes + 1 /\ UNCHANGED session
  ELSE /\ session' = IF gated THEN session ELSE "stopped"
       /\ UNCHANGED resumes

(* The model stops, or is cut, without a tool call. *)
FinalTurn(cut) ==
  /\ session = "acting"
  /\ UNCHANGED tree
  /\ \/ /\ NeedsCheck
        /\ \E outcome \in Outcomes :
             Enforce(outcome) /\ ResumeOrStop(outcome = "fail", cut)
     \/ /\ ~NeedsCheck /\ RedStops
        /\ \E outcome \in Outcomes :
             RedStop(outcome) /\ ResumeOrStop(outcome = "fail", cut)
     \/ /\ ~NeedsCheck /\ ~RedStops
        /\ ResumeOrStop(FALSE, cut)
        /\ UNCHANGED <<checked, lastPassed, lastAt, redStopped, last, told, redsTold>>
  /\ UNCHANGED <<generation, sourceGeneration, nudged, steers>>

(* A turn that ends in an error or an abort is no final turn. *)
BrokenTurn ==
  /\ session = "acting"
  /\ session' = "broken"
  /\ UNCHANGED <<gates, tree, history>>

Next ==
  \/ Mutate \/ BashTested \/ Bash \/ SelfTest
  \/ FinalTurn(TRUE) \/ FinalTurn(FALSE) \/ BrokenTurn

Spec == Init /\ [][Next]_vars

(***************************************************************************)
(* Properties.                                                             *)
(***************************************************************************)
(* A session the model ends was judged: an exchange was tried at its last  *)
(* generation, and when the last one failed the model was told of the red  *)
(* tree, or the gate had run again at this generation.                     *)
EndsJudged ==
  session = "stopped" =>
    /\ last.at = generation
    /\ last.outcome = "fail" => redStopped = generation

(* usage.md: the red stop "fires at most once per generation; an           *)
(* enforced-gate failure follow-up on the same generation also counts".    *)
ToldOncePerGeneration == [][redsTold' # redsTold => generation \notin told]_vars

(* The Engine cannot keep a session going by itself: its follow-ups are    *)
(* bounded by the mutations and the resumes, however often the model stops.*)
FollowUpsBounded == redsTold + resumes <= generation + 1 + MaxResumes

(* A steer says "self_test passes on the current tree": it goes out right  *)
(* after a pass at this generation, on a tree that passes, and only for    *)
(* source changes that no earlier steer was about.                         *)
SteerIsDeserved ==
  [][steers' # steers =>
       /\ last' = [at |-> generation, outcome |-> "pass"] /\ tree' = "green"
       /\ nudged' = sourceGeneration /\ nudged < sourceGeneration]_vars
=============================================================================
