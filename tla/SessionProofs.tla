--------------------------- MODULE SessionProofs ----------------------------
(***************************************************************************)
(* Proofs about the gates (module Gate), for every bound on mutations and  *)
(* resumes, and about Session: that it implements Gate, so that what is    *)
(* proved of the gates holds of gates whose exchanges take time; what a    *)
(* pass means; that the test runs never exhaust the adapter's deadline;    *)
(* and that an exchange comes to its end.                                  *)
(***************************************************************************)
EXTENDS Session, TLAPS

(***************************************************************************)
(* The gates.                                                              *)
(***************************************************************************)
(* What the beliefs of the gates have to do with what happened: the last   *)
(* exchange is never newer than the tree, `checked` is only ahead of a     *)
(* completed run after a refusal, and a red last run is believed.          *)
BeliefsFit ==
  /\ last.at <= generation /\ checked <= generation
  /\ checked = generation => last.at = generation
  /\ last.outcome = "fail" /\ last.at = generation =>
       lastPassed = "failed" /\ lastAt = generation

(* The model has been told of no later generation, of the current one only *)
(* if the gates noted it, and at most once of each.                        *)
TellingFits ==
  /\ \A g \in told : g <= generation
  /\ generation \in told => redStopped = generation
  /\ redStopped = generation => checked = generation
  /\ redStopped <= generation
  /\ redsTold <= generation + (IF redStopped = generation THEN 1 ELSE 0)

IInv == TypeOK /\ BeliefsFit /\ TellingFits /\ EndsJudged

(* Init establishes the invariant. *)
LEMMA InitIInv == Init => IInv
<1> SUFFICES ASSUME Init PROVE IInv
  OBVIOUS
<1>1. 0 \in Generations /\ Never = -1
  BY GateAssumption DEF Generations, Never
<1>2. TypeOK
  BY <1>1, GateAssumption DEF Init, TypeOK, Exchanges, Generations, Never
<1>3. BeliefsFit /\ TellingFits /\ EndsJudged
  BY <1>1 DEF Init, BeliefsFit, TellingFits, EndsJudged
<1> QED BY <1>2, <1>3 DEF IInv

(* An exchange leaves a well-typed record of itself at this generation.    *)
LEMMA RanRecords ==
  ASSUME TypeOK, NEW verdict \in Outcomes, Ran(verdict)
  PROVE  /\ verdict \in {"fail", "refused", "pass"}
         /\ last' \in Exchanges
         /\ last'.at = generation /\ last'.outcome = verdict
<1>1. verdict \in {"fail", "refused", "pass"}
  BY DEF Outcomes
<1>2. last' = [at |-> generation, outcome |-> verdict]
  BY DEF Ran
<1>3. last' \in Exchanges
  BY <1>1, <1>2 DEF TypeOK, Exchanges
<1> QED BY <1>1, <1>2, <1>3

(* A landed mutation opens a generation the model was not told about.      *)
LEMMA MutateStep == IInv /\ Mutate => IInv'
<1> SUFFICES ASSUME IInv, Mutate PROVE IInv'
  OBVIOUS
<1> USE GateAssumption DEF IInv, TypeOK, Generations, Never
<1>1. generation' = generation + 1 /\ generation \in Int
  BY DEF Mutate
<1>2. TypeOK'
  BY DEF Mutate, history
<1>3. BeliefsFit'
  <2>1. last.at \in Int
    BY DEF Exchanges
  <2> QED BY <1>1, <2>1 DEF Mutate, history, BeliefsFit
<1>4. TellingFits'
  <2>1. \A g \in told : g \in Int
    OBVIOUS
  <2>2. generation' \notin told
    BY <1>1, <2>1 DEF TellingFits
  <2>3. redStopped' # generation' /\ redStopped' <= generation'
    BY <1>1 DEF Mutate, TellingFits
  <2>4. redsTold' <= generation'
    BY <1>1 DEF Mutate, history, TellingFits
  <2> QED BY <1>1, <2>1, <2>2, <2>3, <2>4 DEF Mutate, history, TellingFits
<1>5. EndsJudged'
  BY DEF Mutate, EndsJudged
<1> QED BY <1>2, <1>3, <1>4, <1>5

(* A steer is noted under the source generation it was about.              *)
LEMMA SteerTypes ==
  ASSUME TypeOK, NEW verdict, MaybeSteer(verdict), UNCHANGED sourceGeneration
  PROVE  nudged' \in (1..sourceGeneration') \cup {Never} /\ steers' \in Nat
BY DEF TypeOK, MaybeSteer

(* A run inside a turn, the model's own or a detected one.                 *)
LEMMA RunStep == IInv /\ (BashTested \/ SelfTest) => IInv'
<1> SUFFICES ASSUME IInv, BashTested \/ SelfTest PROVE IInv'
  OBVIOUS
<1>1. PICK verdict \in Outcomes : Run(verdict) /\ MaybeSteer(verdict)
  BY DEF BashTested, SelfTest
<1>2. /\ session = "acting" /\ tree' \in {"green", "red"}
      /\ UNCHANGED <<generation, redStopped, sourceGeneration, resumes, session, told, redsTold>>
  BY DEF BashTested, SelfTest, IInv, TypeOK
<1>3. Ran(verdict)
  BY <1>1 DEF Run
<1>4. /\ verdict \in {"fail", "refused", "pass"}
      /\ last' \in Exchanges
      /\ last'.at = generation /\ last'.outcome = verdict
  BY <1>3, RanRecords DEF IInv
<1>5. nudged' \in (1..sourceGeneration') \cup {Never} /\ steers' \in Nat
  BY <1>1, <1>2, SteerTypes DEF IInv
<1>6. /\ checked' \in {checked, generation}
      /\ lastPassed' \in {"null", "passed", "failed"}
      /\ lastAt' \in {lastAt, generation}
      /\ verdict = "fail" => lastPassed' = "failed" /\ lastAt' = generation
  BY <1>1, <1>4 DEF Run, Believe
<1>7. TypeOK'
  BY <1>2, <1>4, <1>5, <1>6 DEF IInv, TypeOK
<1>8. BeliefsFit'
  BY <1>2, <1>4, <1>6 DEF IInv, TypeOK, Generations, BeliefsFit
<1>9. TellingFits'
  BY <1>2, <1>6 DEF IInv, TellingFits
<1>10. EndsJudged'
  BY <1>2 DEF EndsJudged
<1> QED BY <1>7, <1>8, <1>9, <1>10 DEF IInv

(* A shell command changes nothing but the tree.                           *)
LEMMA BashStep == IInv /\ Bash => IInv'
<1> SUFFICES ASSUME IInv, Bash PROVE IInv'
  OBVIOUS
<1>1. UNCHANGED <<gates, session, history>> /\ tree' \in {"green", "red"}
  BY DEF Bash
<1> QED BY <1>1 DEF IInv, TypeOK, BeliefsFit, TellingFits, EndsJudged, gates, history

(* What an exchange of a gate does: the verdict fits it, and the model is  *)
(* told exactly when it failed.                                            *)
LEMMA GateRuns ==
  ASSUME TypeOK, BeliefsFit, NEW verdict \in Outcomes,
         Enforce(verdict) \/ RedStop(verdict), UNCHANGED generation
  PROVE  /\ checked' = generation
         /\ last' \in Exchanges
         /\ last'.at = generation /\ last'.outcome = verdict
         /\ lastPassed' \in {"null", "passed", "failed"}
         /\ lastAt' \in {lastAt, generation}
         /\ verdict = "fail" => lastPassed' = "failed" /\ lastAt' = generation
         /\ redStopped' \in {redStopped, generation}
         /\ verdict = "fail" => redStopped' = generation /\ Tell
         /\ verdict # "fail" => UNCHANGED <<told, redsTold>>
<1>1. Ran(verdict)
  BY DEF Enforce, RedStop
<1>2. /\ verdict \in {"fail", "refused", "pass"}
      /\ last' \in Exchanges
      /\ last'.at = generation /\ last'.outcome = verdict
  BY <1>1, RanRecords
<1>3. CASE Enforce(verdict)
  BY <1>2, <1>3 DEF Enforce, Believe, TypeOK
<1>4. CASE RedStop(verdict)
  BY <1>2, <1>4 DEF RedStop, Believe, TypeOK
<1> QED BY <1>3, <1>4

(* ResumeOrStop ends the session only when no gate spoke, and never makes  *)
(* more resumes than it may.                                               *)
LEMMA ResumeFits ==
  ASSUME TypeOK, session = "acting", NEW gated \in BOOLEAN, NEW cut \in BOOLEAN,
         ResumeOrStop(gated, cut)
  PROVE  /\ resumes' \in 0..MaxResumes
         /\ session' \in {"acting", "stopped"}
         /\ gated => session' = "acting"
BY GateAssumption DEF TypeOK, ResumeOrStop

(* The model stops while a gate has to run the self-test: the model has    *)
(* not been told of this generation before.                                *)
LEMMA GatedTurnStep ==
  ASSUME IInv, NEW cut \in BOOLEAN, session = "acting",
         NEW verdict \in Outcomes,
         \/ NeedsCheck /\ Enforce(verdict)
         \/ RedStops /\ RedStop(verdict),
         ResumeOrStop(verdict = "fail", cut),
         UNCHANGED <<generation, sourceGeneration, nudged, steers, tree>>,
         redStopped # generation
  PROVE  IInv'
<1>1. /\ checked' = generation
      /\ last' \in Exchanges
      /\ last'.at = generation /\ last'.outcome = verdict
      /\ lastPassed' \in {"null", "passed", "failed"}
      /\ lastAt' \in {lastAt, generation}
      /\ verdict = "fail" => lastPassed' = "failed" /\ lastAt' = generation
      /\ redStopped' \in {redStopped, generation}
      /\ verdict = "fail" => redStopped' = generation /\ Tell
      /\ verdict # "fail" => UNCHANGED <<told, redsTold>>
  BY GateRuns DEF IInv
<1>2. /\ resumes' \in 0..MaxResumes
      /\ session' \in {"acting", "stopped"}
      /\ verdict = "fail" => session' = "acting"
  BY ResumeFits DEF IInv
<1>3. TypeOK'
  <2>1. told' \subseteq Generations /\ redsTold' \in Nat
    BY <1>1 DEF IInv, TypeOK, Tell
  <2> QED BY <1>1, <1>2, <2>1 DEF IInv, TypeOK
<1>4. BeliefsFit'
  BY <1>1 DEF IInv, TypeOK, Generations, BeliefsFit
<1>5. TellingFits'
  <2> USE DEF IInv, TypeOK, Generations, Never, TellingFits
  <2>1. CASE verdict = "fail"
    <3>1. /\ told' = told \cup {generation} /\ redsTold' = redsTold + 1
          /\ redStopped' = generation
      BY <1>1, <2>1 DEF Tell
    <3>2. redsTold' <= generation + 1
      BY <3>1, GateAssumption
    <3> QED BY <1>1, <3>1, <3>2, GateAssumption
  <2>2. CASE verdict # "fail"
    <3>1. told' = told /\ redsTold' = redsTold /\ redStopped' \in {redStopped, generation}
      BY <1>1, <2>2
    <3>2. redsTold <= generation /\ generation \notin told
      BY GateAssumption
    <3> QED BY <1>1, <3>1, <3>2, GateAssumption
  <2> QED BY <2>1, <2>2
<1>6. EndsJudged'
  BY <1>1, <1>2 DEF EndsJudged
<1> QED BY <1>3, <1>4, <1>5, <1>6 DEF IInv

(* The model stops: a gate that runs has not told of this generation, and  *)
(* when none runs, a red last run was already told of or run again.        *)
LEMMA FinalTurnStep ==
  ASSUME IInv, NEW cut \in BOOLEAN, FinalTurn(cut)
  PROVE  IInv'
<1>1. /\ session = "acting"
      /\ UNCHANGED <<generation, sourceGeneration, nudged, steers, tree>>
  BY DEF FinalTurn
<1>2. CASE NeedsCheck /\ \E verdict \in Outcomes :
             Enforce(verdict) /\ ResumeOrStop(verdict = "fail", cut)
  <2>1. redStopped # generation
    BY <1>2 DEF NeedsCheck, IInv, TellingFits
  <2>2. PICK verdict \in Outcomes :
          Enforce(verdict) /\ ResumeOrStop(verdict = "fail", cut)
    BY <1>2
  <2> QED BY <1>1, <1>2, <2>1, <2>2, GatedTurnStep
<1>3. CASE RedStops /\ \E verdict \in Outcomes :
             RedStop(verdict) /\ ResumeOrStop(verdict = "fail", cut)
  <2>1. redStopped # generation
    BY <1>3 DEF RedStops, IInv, TellingFits
  <2>2. PICK verdict \in Outcomes :
          RedStop(verdict) /\ ResumeOrStop(verdict = "fail", cut)
    BY <1>3
  <2> QED BY <1>1, <1>3, <2>1, <2>2, GatedTurnStep
<1>4. CASE /\ ~NeedsCheck /\ ~RedStops
           /\ ResumeOrStop(FALSE, cut)
           /\ UNCHANGED <<checked, lastPassed, lastAt, redStopped, last, told, redsTold>>
  <2>1. resumes' \in 0..MaxResumes /\ session' \in {"acting", "stopped"}
    BY <1>1, <1>4, ResumeFits DEF IInv
  <2>2. TypeOK'
    BY <1>1, <1>4, <2>1 DEF IInv, TypeOK
  <2>3. BeliefsFit' /\ TellingFits'
    BY <1>1, <1>4 DEF IInv, BeliefsFit, TellingFits
  <2>4. last.at = generation /\ (last.outcome = "fail" => redStopped = generation)
    BY <1>4 DEF IInv, BeliefsFit, NeedsCheck, RedStops
  <2>5. EndsJudged'
    BY <1>1, <1>4, <2>4 DEF EndsJudged
  <2> QED BY <2>2, <2>3, <2>5 DEF IInv
<1> QED BY <1>2, <1>3, <1>4 DEF FinalTurn

(* A broken turn ends the session without a judgement.                     *)
LEMMA BrokenTurnStep == IInv /\ BrokenTurn => IInv'
<1> SUFFICES ASSUME IInv, BrokenTurn PROVE IInv'
  OBVIOUS
<1>1. UNCHANGED <<gates, tree, history>> /\ session' = "broken"
  BY DEF BrokenTurn
<1> QED BY <1>1 DEF IInv, TypeOK, BeliefsFit, TellingFits, EndsJudged, gates, history

(* The inductive invariant holds in every reachable state.                 *)
THEOREM Invariance == Spec => []IInv
<1>1. IInv /\ [Next]_vars => IInv'
  <2> SUFFICES ASSUME IInv, [Next]_vars PROVE IInv'
    OBVIOUS
  <2>1. CASE Mutate
    BY <2>1, MutateStep
  <2>2. CASE BashTested \/ SelfTest
    BY <2>2, RunStep
  <2>3. CASE Bash
    BY <2>3, BashStep
  <2>4. CASE FinalTurn(TRUE) \/ FinalTurn(FALSE)
    BY <2>4, FinalTurnStep
  <2>5. CASE BrokenTurn
    BY <2>5, BrokenTurnStep
  <2>6. CASE UNCHANGED vars
    BY <2>6 DEF IInv, TypeOK, BeliefsFit, TellingFits, EndsJudged, vars, gates, history
  <2> QED BY <2>1, <2>2, <2>3, <2>4, <2>5, <2>6 DEF Next
<1> QED BY <1>1, InitIInv, PTL DEF Spec

(* Every variable keeps its type, whatever the bounds.                     *)
THEOREM TypeCorrect == Spec => []TypeOK
<1>1. IInv => TypeOK
  BY DEF IInv
<1> QED BY <1>1, Invariance, PTL

(* No session the model ends goes unjudged (the completion gate and the    *)
(* red-stop gate together).                                                *)
THEOREM StopsAreJudged == Spec => []EndsJudged
<1>1. IInv => EndsJudged
  BY DEF IInv
<1> QED BY <1>1, Invariance, PTL

(* The follow-ups of the gates and the resumes are bounded by the number   *)
(* of mutations and MAX_RESUMES.                                           *)
THEOREM FollowUpsAreBounded == Spec => []FollowUpsBounded
<1>1. IInv => FollowUpsBounded
  BY GateAssumption DEF IInv, TypeOK, Generations, TellingFits, FollowUpsBounded
<1> QED BY <1>1, Invariance, PTL

(* No generation is told of twice, by whichever gates.                     *)
THEOREM OneTellingPerGeneration == Spec => ToldOncePerGeneration
<1>1. IInv /\ [Next]_vars => [redsTold' # redsTold => generation \notin told]_vars
  <2> SUFFICES ASSUME IInv, [Next]_vars, redsTold' # redsTold
               PROVE  generation \notin told
    OBVIOUS
  <2>1. ~UNCHANGED vars /\ ~Mutate /\ ~BashTested /\ ~SelfTest /\ ~Bash /\ ~BrokenTurn
    BY DEF vars, history, Mutate, BashTested, SelfTest, Bash, BrokenTurn
  <2>2. PICK cut \in BOOLEAN : FinalTurn(cut)
    BY <2>1 DEF Next
  <2>3. NeedsCheck \/ RedStops
    BY <2>2 DEF FinalTurn
  <2> QED BY <2>3 DEF NeedsCheck, RedStops, IInv, TellingFits
<1> QED BY <1>1, Invariance, PTL DEF Spec, ToldOncePerGeneration

(* A steer follows a pass of this very tree and source generation. *)
THEOREM SteersAreDeserved == Spec => SteerIsDeserved
<1> DEFINE Deserved == steers' # steers =>
                         /\ last' = [at |-> generation, outcome |-> "pass"] /\ tree' = "green"
                         /\ nudged' = sourceGeneration /\ nudged < sourceGeneration
<1>1. IInv /\ [Next]_vars => [Deserved]_vars
  <2> SUFFICES ASSUME IInv, Next, steers' # steers PROVE Deserved
    BY DEF vars
  <2>1. BashTested \/ SelfTest
    BY DEF Next, Mutate, Bash, FinalTurn, BrokenTurn, history
  <2>2. PICK verdict \in Outcomes : Run(verdict) /\ MaybeSteer(verdict)
    BY <2>1 DEF BashTested, SelfTest
  <2>3. verdict = "pass" /\ sourceGeneration # 0 /\ nudged # sourceGeneration /\ nudged' = sourceGeneration
    BY <2>2 DEF MaybeSteer
  <2>4. tree' = "green"
    BY <2>2, <2>3 DEF Outcomes
  <2>5. last' = [at |-> generation, outcome |-> "pass"]
    BY <2>2, <2>3 DEF Run, Ran
  <2>6. nudged < sourceGeneration
    BY <2>3, GateAssumption DEF IInv, TypeOK, Generations, Never
  <2> QED BY <2>3, <2>4, <2>5, <2>6
<1> QED BY Invariance, <1>1, PTL DEF Spec, SteerIsDeserved

(***************************************************************************)
(* Session implements Gate.                                                *)
(***************************************************************************)
(* A step of a session is a step of the gates or none of their business.   *)
LEMMA StepRefines == [SessionNext]_sessionVars => [Next]_vars
<1> SUFFICES ASSUME [SessionNext]_sessionVars PROVE [Next]_vars
  OBVIOUS
<1>1. CASE Act
  <2>1. CASE Mutate
    BY <2>1 DEF Next
  <2>2. CASE Bash
    BY <2>2 DEF Next
  <2>3. CASE BrokenTurn
    BY <2>3 DEF Next
  <2> QED BY <1>1, <2>1, <2>2, <2>3 DEF Act
<1>2. CASE StopUnasked(TRUE) \/ StopUnasked(FALSE)
  BY <1>2 DEF StopUnasked, Next
<1>3. CASE \E who \in Askers : AskFor(who)
  BY <1>3 DEF AskFor
<1>4. CASE Exchange
  BY <1>4 DEF Exchange
<1>5. CASE Conclude
  <2>1. BashTested \/ SelfTest \/ FinalTurn(FALSE) \/ FinalTurn(TRUE)
    BY <1>5 DEF Conclude
  <2> QED BY <2>1 DEF Next
<1>6. CASE UNCHANGED sessionVars
  BY <1>6 DEF sessionVars
<1> QED BY <1>1, <1>2, <1>3, <1>4, <1>5, <1>6 DEF SessionNext

(* Gates whose exchanges take time are gates. *)
THEOREM SessionImplementsGate == SessionSpec => Spec
<1>1. SessionInit => Init
  BY DEF SessionInit
<1> QED BY <1>1, StepRefines, PTL DEF SessionSpec, Spec

(* A session the model ends was judged at its last generation. *)
THEOREM SessionsAreJudged == SessionSpec => []EndsJudged
BY SessionImplementsGate, StopsAreJudged

(* The follow-ups of a session are bounded. *)
THEOREM SessionsEnd == SessionSpec => []FollowUpsBounded
BY SessionImplementsGate, FollowUpsAreBounded

(* No generation of a session is told of twice. *)
THEOREM SessionsTellOnce == SessionSpec => ToldOncePerGeneration
BY SessionImplementsGate, OneTellingPerGeneration

(* A steer of a session follows a pass of the tree it speaks of. *)
THEOREM SessionsSteer == SessionSpec => SteerIsDeserved
BY SessionImplementsGate, SteersAreDeserved

(***************************************************************************)
(* The invariant of the exchanges.                                         *)
(***************************************************************************)
(* Who asks is answered before anybody acts. *)
AskingInv ==
  /\ asked = "nobody" <=> stage = "idle"
  /\ outcome # "none" <=> stage = "answered"
  /\ stage \in {"idle", "starting"} => todo = 0 /\ began = "none" /\ ~failed /\ passed
  /\ stage = "next" => todo > 0
  /\ stage = "running" => todo < 3 /\ began # "none"
  /\ failed <=> ~passed
  /\ stage = "answered" => ~late

(* The first run sees the carried files of the base, and when it passed    *)
(* the tree does.                                                          *)
CarriedInv ==
  /\ base = "given" =>
       /\ began # "changed"
       /\ stage = "next" /\ began = "none" => carried = "base"
       /\ stage = "running" /\ passed => tree = "green" \/ carried = "base"
  /\ stage = "next" /\ began # "none" /\ passed => tree = "green"

(* What the runs that are still to start have left of the time. *)
Slack == CASE todo = 0 -> 2 * Floor [] todo = 1 -> Floor [] todo = 2 -> 0 [] OTHER -> -Floor

ClockInv ==
  /\ stage \in {"idle", "starting", "answered"} => started = Unstarted
  /\ stage \in {"next", "running"} => started # Unstarted
  /\ stage = "next" => clock <= started + Timeout + Slack
  /\ stage = "running" => clock <= until /\ until <= started + Timeout + Slack
  /\ late => clock = Deadline

RunsInv == RunsTypeOK /\ asked \in Askers \cup {"nobody"} /\ AskingInv /\ CarriedInv /\ ClockInv /\ PassIsEarned

(* The bounds of the test runs are numbers. *)
LEMMA Times ==
  /\ Timeout \in Nat /\ Floor \in Nat /\ Deadline \in Nat
  /\ Floor <= Timeout /\ Deadline >= Timeout + 2 * Floor
BY TestRunsAssumption DEF TestRunsAssumption

(* The slack is a number for every count of runs. *)
LEMMA Slacks ==
  ASSUME RunsTypeOK
  PROVE  /\ Slack \in Int
         /\ todo = 0 => Slack = 2 * Floor
         /\ todo = 1 => Slack = Floor
         /\ todo = 2 => Slack = 0
         /\ todo = 3 => Slack = -Floor
         /\ Slack <= 2 * Floor
BY Times DEF RunsTypeOK, Slack

(* The timeout is never less than the floor of the first run. *)
LEMMA TimeoutCovers ==
  ASSUME NEW x \in Int, x + Floor >= 0, NEW c \in Int
  PROVE  c <= c + Timeout + x
BY Times

(* A session begins with nobody asking. *)
LEMMA RunsInitInv == SessionInit => RunsInv
<1> SUFFICES ASSUME SessionInit PROVE RunsInv
  OBVIOUS
<1>1. RunsTypeOK
  <2>1. 0 \in 0..3 /\ 0 \in 0..Deadline /\ 0 \in 0..Latest
    BY Times DEF Latest
  <2> QED BY <2>1 DEF SessionInit, RunsInit, RunsTypeOK, Sources
<1>2. AskingInv
  BY DEF SessionInit, RunsInit, AskingInv
<1>3. CarriedInv /\ ClockInv /\ PassIsEarned
  BY DEF SessionInit, RunsInit, CarriedInv, ClockInv, PassIsEarned
<1> QED BY <1>1, <1>2, <1>3 DEF RunsInv, SessionInit

(* Between two exchanges only the carried files and the tree change. *)
LEMMA IdleStep ==
  ASSUME RunsInv, asked = "nobody", asked' = asked, carried' \in Sources,
         UNCHANGED <<base, more, stage, todo, failed, clock, started, until, late, outcome, began, passed>>
  PROVE  RunsInv'
<1>1. stage = "idle" /\ outcome = "none"
  BY DEF RunsInv, AskingInv
<1>2. RunsTypeOK'
  BY DEF RunsInv, RunsTypeOK
<1>3. AskingInv'
  BY DEF RunsInv, AskingInv
<1>4. CarriedInv' /\ PassIsEarned'
  BY <1>1 DEF RunsInv, AskingInv, CarriedInv, PassIsEarned
<1>5. ClockInv'
  BY <1>1 DEF RunsInv, ClockInv
<1> QED BY <1>2, <1>3, <1>4, <1>5 DEF RunsInv

(* What an answer that is no pass leaves. *)
LEMMA AnswerStep ==
  ASSUME RunsInv, NEW verdict \in {"fail", "refused"}, Answers(verdict), asked # "nobody",
         stage \in {"starting", "next", "running"}, failed' <=> ~passed', failed' \in BOOLEAN, passed' \in BOOLEAN,
         UNCHANGED <<base, more, carried, todo, began, vars, asked>>
  PROVE  RunsInv'
<1> USE DEF RunsInv, Answers
<1>1. outcome' \in {"fail", "refused"}
  OBVIOUS
<1>2. 0 \in 0..Deadline /\ 0 \in 0..Latest
  BY Times DEF Latest
<1>3. RunsTypeOK'
  BY <1>1, <1>2 DEF RunsTypeOK
<1>4. AskingInv'
  BY <1>1 DEF AskingInv
<1>5. CarriedInv' /\ PassIsEarned'
  BY <1>1 DEF CarriedInv, PassIsEarned
<1>6. ClockInv'
  BY DEF ClockInv
<1> QED BY <1>3, <1>4, <1>5, <1>6

(***************************************************************************)
(* The steps of an exchange.                                               *)
(***************************************************************************)
(* A gate asks. *)
LEMMA AskStep == ASSUME NEW who \in Askers, RunsInv, AskFor(who) PROVE RunsInv'
<1> USE DEF RunsInv, AskFor, Ask
<1>1. who # "nobody"
  BY DEF Askers
<1>2. RunsTypeOK'
  BY DEF RunsTypeOK
<1>3. AskingInv'
  BY <1>1 DEF AskingInv
<1>4. CarriedInv' /\ PassIsEarned'
  BY DEF AskingInv, CarriedInv, PassIsEarned
<1>5. ClockInv'
  BY DEF ClockInv
<1> QED BY <1>2, <1>3, <1>4, <1>5

(* The carried files are those of the base, or none was named. *)
LEMMA RestoreStep == ASSUME RunsInv, asked # "nobody", Restore, UNCHANGED <<vars, asked>> PROVE RunsInv'
<1> USE DEF RunsInv, Restore
<1>1. more \in 0..2 /\ todo' \in 1..3 /\ carried' \in Sources /\ clock \in 0..Deadline /\ started' = clock
  BY DEF RunsTypeOK, Sources
<1>2. RunsTypeOK'
  BY <1>1 DEF RunsTypeOK
<1>3. AskingInv'
  BY <1>1 DEF AskingInv
<1>4. CarriedInv'
  BY DEF AskingInv, CarriedInv
<1>5. PassIsEarned'
  BY DEF AskingInv, PassIsEarned
<1>6. ClockInv'
  <2>1. Slack' \in Int /\ Slack' + Floor >= 0
    BY <1>1, Times DEF Slack
  <2>2. started' # Unstarted
    BY <1>1 DEF Unstarted
  <2>3. clock' = clock /\ started' = clock /\ clock \in Int
    BY <1>1
  <2>4. clock' <= started' + Timeout + Slack'
    BY <2>1, <2>3, TimeoutCovers
  <2> QED BY <2>2, <2>4 DEF ClockInv
<1> QED BY <1>2, <1>3, <1>4, <1>5, <1>6

(* A run is granted what is left of the timeout, or a piece of the slack. *)
LEMMA StartRunStep == ASSUME RunsInv, asked # "nobody", StartRun, UNCHANGED <<vars, asked>> PROVE RunsInv'
<1> USE DEF RunsInv, StartRun
<1>1. /\ todo \in 1..3 /\ todo' = todo - 1 /\ todo' \in 0..2
      /\ clock \in 0..Deadline /\ started \in 0..Deadline
      /\ clock <= started + Timeout + Slack
  BY DEF RunsTypeOK, AskingInv, ClockInv
<1>2. /\ Granted \in Int
      /\ \/ Granted = Timeout - (clock - started) /\ Granted >= Floor
         \/ Granted = Floor
  BY <1>1, Times DEF Granted
<1>3. Granted <= Timeout + Floor \/ Granted <= Timeout - (clock - started)
  BY <1>2, Times
<1>4. until' \in 0..Latest /\ until' = clock + Granted
  <2>1. CASE Granted = Floor
    BY <1>1, <2>1, Times DEF Latest
  <2>2. CASE Granted = Timeout - (clock - started) /\ Granted >= Floor
    BY <1>1, <2>2, Times DEF Latest
  <2> QED BY <1>2, <2>1, <2>2
<1>5. RunsTypeOK'
  BY <1>1, <1>4 DEF RunsTypeOK
<1>6. AskingInv'
  BY <1>1 DEF AskingInv, RunsTypeOK, Sources
<1>7. CarriedInv'
  BY DEF CarriedInv, vars
<1>8. PassIsEarned'
  BY DEF AskingInv, PassIsEarned
<1>9. ClockInv'
  <2>1. Slack' \in Int /\ Slack' >= 0 /\ Slack' = Slack + Floor
    BY <1>1, Times DEF Slack
  <2>2. clock <= until'
    BY <1>1, <1>2, <1>4, Times
  <2>3. until' <= started + Timeout + Slack'
    <3>1. Slack \in Int
      BY Slacks
    <3> QED BY <1>1, <1>2, <1>4, <2>1, <3>1, Times
  <2> QED BY <2>2, <2>3 DEF ClockInv
<1> QED BY <1>5, <1>6, <1>7, <1>8, <1>9

(* A run that passes when every run before it did says that the tree does. *)
LEMMA RunEndsStep ==
  ASSUME RunsInv, NEW passes \in BOOLEAN, RunEnds(passes), passes => MayPass,
         asked # "nobody", UNCHANGED <<vars, asked>>
  PROVE  RunsInv'
<1> USE DEF RunsInv, RunEnds
<1>1. /\ failed' = (failed \/ ~passes) /\ passed' = (passed /\ passes)
      /\ failed \in BOOLEAN /\ passed \in BOOLEAN
      /\ tree' = tree /\ todo' = todo /\ began' = began /\ base' = base
  BY DEF RunsTypeOK, vars
<1>2. failed' \in BOOLEAN /\ passed' \in BOOLEAN /\ (failed' <=> ~passed')
  BY <1>1 DEF AskingInv
<1>3. passed' => tree = "green"
  BY <1>1 DEF CarriedInv, MayPass
<1>4. carried' \in Sources
  BY DEF RunsTypeOK, Sources
<1>5. todo \in 0..2 /\ began # "none"
  BY DEF AskingInv, RunsTypeOK
<1>6. CASE todo > 0
  <2>1. stage' = "next" /\ UNCHANGED <<outcome, clock, started, until, late>>
    BY <1>6
  <2>2. RunsTypeOK'
    BY <1>1, <1>2, <1>4, <2>1 DEF RunsTypeOK
  <2>3. AskingInv'
    BY <1>1, <1>2, <1>5, <1>6, <2>1 DEF AskingInv
  <2>4. CarriedInv'
    BY <1>1, <1>3, <1>5, <2>1 DEF CarriedInv
  <2>5. PassIsEarned'
    BY <2>1 DEF AskingInv, PassIsEarned
  <2>6. ClockInv'
    <3>1. /\ clock <= until /\ until <= started + Timeout + Slack /\ started # Unstarted
          /\ clock \in Int /\ until \in Int /\ started \in Int
      BY Times DEF ClockInv, RunsTypeOK, Unstarted, Latest
    <3>2. Slack' = Slack /\ Slack \in Int
      BY <1>1, Slacks DEF Slack
    <3>3. clock <= started + Timeout + Slack
      BY <3>1, <3>2, Times
    <3> QED BY <2>1, <3>1, <3>2, <3>3 DEF ClockInv
  <2> QED BY <2>2, <2>3, <2>4, <2>5, <2>6
<1>7. CASE todo = 0
  <2>1. CASE failed'
    <3>1. Answers("fail")
      BY <1>7, <2>1
    <3>2. 0 \in 0..Deadline /\ 0 \in 0..Latest
      BY Times DEF Latest
    <3>3. RunsTypeOK'
      BY <1>1, <1>2, <1>4, <3>1, <3>2 DEF RunsTypeOK, Answers
    <3>4. AskingInv'
      BY <1>1, <1>2, <3>1 DEF AskingInv, Answers
    <3>5. CarriedInv' /\ PassIsEarned'
      BY <1>1, <3>1 DEF CarriedInv, PassIsEarned, Answers
    <3>6. ClockInv'
      BY <3>1 DEF ClockInv, Answers
    <3> QED BY <3>3, <3>4, <3>5, <3>6
  <2>2. CASE ~failed'
    <3>1. Answers("pass")
      BY <1>7, <2>2
    <3>2. 0 \in 0..Deadline /\ 0 \in 0..Latest
      BY Times DEF Latest
    <3>3. RunsTypeOK'
      BY <1>1, <1>2, <1>4, <3>1, <3>2 DEF RunsTypeOK, Answers
    <3>4. AskingInv'
      BY <1>1, <1>2, <3>1 DEF AskingInv, Answers
    <3>5. CarriedInv'
      BY <1>1, <3>1 DEF CarriedInv, Answers
    <3>6. began = "base" \/ base # "given"
      BY <1>5 DEF CarriedInv, RunsTypeOK, Sources
    <3>7. PassIsEarned'
      BY <1>1, <1>2, <1>3, <1>7, <2>2, <3>6 DEF PassIsEarned
    <3>8. ClockInv'
      BY <3>1 DEF ClockInv, Answers
    <3> QED BY <3>3, <3>4, <3>5, <3>7, <3>8
  <2> QED BY <2>1, <2>2
<1> QED BY <1>5, <1>6, <1>7

(* The adapter gives up at its deadline. *)
LEMMA GiveUpStep ==
  ASSUME RunsInv, asked # "nobody", DeadlinePasses, UNCHANGED <<vars, asked>>
  PROVE  RunsInv'
<1> USE DEF RunsInv, DeadlinePasses
<1>1. clock = Deadline /\ clock' = clock /\ Slack' = Slack
  BY Times DEF RunsTypeOK, Slack
<1>2. RunsTypeOK'
  BY DEF RunsTypeOK
<1>3. AskingInv'
  BY DEF AskingInv
<1>4. CarriedInv' /\ PassIsEarned'
  BY DEF CarriedInv, PassIsEarned, vars
<1>5. ClockInv'
  BY <1>1 DEF ClockInv
<1> QED BY <1>2, <1>3, <1>4, <1>5

(* Time does not pass a timer. *)
LEMMA TickStep ==
  ASSUME RunsInv, asked # "nobody", Tick, UNCHANGED <<vars, asked>>
  PROVE  RunsInv'
<1> USE DEF RunsInv, Tick
<1>1. clock \in Nat /\ clock < Deadline /\ clock' = clock + 1 /\ Slack' = Slack
  BY Times DEF RunsTypeOK, Slack
<1>2. clock' \in 0..Deadline
  BY <1>1, Times
<1>3. RunsTypeOK'
  BY <1>2 DEF RunsTypeOK
<1>4. AskingInv'
  BY DEF AskingInv
<1>5. CarriedInv' /\ PassIsEarned'
  BY DEF CarriedInv, PassIsEarned, vars
<1>6. ClockInv'
  <2>1. ~late
    BY <1>1, Times DEF ClockInv
  <2>2. stage = "running" => clock' <= until
    BY <1>1, Times DEF RunsTypeOK, Latest
  <2>3. stage # "next"
    OBVIOUS
  <2> QED BY <1>1, <2>1, <2>2, <2>3 DEF ClockInv
<1> QED BY <1>3, <1>4, <1>5, <1>6

(* Every step of an exchange. *)
LEMMA ExchangeStep == RunsInv /\ Exchange => RunsInv'
<1> SUFFICES ASSUME RunsInv, Exchange PROVE RunsInv'
  OBVIOUS
<1> USE DEF RunsInv
<1>1. asked # "nobody" /\ UNCHANGED <<vars, asked>>
  BY DEF Exchange
<1>2. failed \in BOOLEAN /\ passed \in BOOLEAN /\ (failed <=> ~passed)
  BY DEF AskingInv, RunsTypeOK
<1>3. CASE RefuseToRun
  BY <1>1, <1>2, <1>3, AnswerStep DEF RefuseToRun
<1>4. CASE Restore
  BY <1>1, <1>4, RestoreStep
<1>5. CASE StartRun
  BY <1>1, <1>5, StartRunStep
<1>6. CASE CannotStart
  BY <1>1, <1>2, <1>6, AnswerStep DEF CannotStart
<1>7. CASE MayPass /\ RunEnds(TRUE)
  BY <1>1, <1>7, RunEndsStep
<1>8. CASE RunEnds(FALSE)
  BY <1>1, <1>8, RunEndsStep
<1>9. CASE RunTimesOut
  BY <1>1, <1>9, AnswerStep DEF RunTimesOut
<1>10. CASE EngineDies
  BY <1>1, <1>2, <1>10, AnswerStep DEF EngineDies
<1>11. CASE DeadlinePasses
  BY <1>1, <1>11, GiveUpStep
<1>12. CASE Tick
  BY <1>1, <1>12, TickStep
<1> QED BY <1>3, <1>4, <1>5, <1>6, <1>7, <1>8, <1>9, <1>10, <1>11, <1>12 DEF Exchange

(* The answer is taken, and everything is as before. *)
LEMMA ConcludeStep == RunsInv /\ Conclude => RunsInv'
<1> SUFFICES ASSUME RunsInv, Conclude PROVE RunsInv'
  OBVIOUS
<1> USE DEF RunsInv
<1>1. Take /\ asked' = "nobody"
  BY DEF Conclude
<1> USE <1>1 DEF Take
<1>2. RunsTypeOK'
  <2>1. UNCHANGED <<base, more, carried, clock, started, until, late>>
    OBVIOUS
  <2>2. todo' = 0 /\ failed' = FALSE /\ outcome' = "none" /\ began' = "none" /\ passed' = TRUE /\ stage' = "idle"
    OBVIOUS
  <2>3. failed' \in BOOLEAN /\ passed' \in BOOLEAN
    BY <2>2
  <2> QED BY <2>1, <2>2, <2>3 DEF RunsTypeOK
<1>3. AskingInv'
  BY DEF AskingInv
<1>4. CarriedInv' /\ PassIsEarned'
  BY DEF CarriedInv, PassIsEarned
<1>5. ClockInv'
  BY DEF ClockInv
<1> QED BY <1>2, <1>3, <1>4, <1>5

(* RunsInv is inductive. *)
LEMMA RunsStep == RunsInv /\ [SessionNext]_sessionVars => RunsInv'
<1> SUFFICES ASSUME RunsInv, [SessionNext]_sessionVars PROVE RunsInv'
  OBVIOUS
<1>1. carried \in Sources /\ "changed" \in Sources
  BY DEF RunsInv, RunsTypeOK, Sources
<1>2. CASE Act
  BY <1>1, <1>2, IdleStep DEF Act, Touches, runs
<1>3. CASE StopUnasked(TRUE) \/ StopUnasked(FALSE)
  BY <1>1, <1>3, IdleStep DEF StopUnasked, runs
<1>4. CASE \E who \in Askers : AskFor(who)
  BY <1>4, AskStep
<1>5. CASE Exchange
  BY <1>5, ExchangeStep
<1>6. CASE Conclude
  BY <1>6, ConcludeStep
<1>7. CASE UNCHANGED sessionVars
  <2>1. RunsTypeOK' /\ AskingInv' /\ PassIsEarned'
    BY <1>7 DEF sessionVars, vars, runs, RunsInv, RunsTypeOK, AskingInv, PassIsEarned
  <2>2. CarriedInv' /\ ClockInv'
    BY <1>7 DEF sessionVars, vars, runs, RunsInv, CarriedInv, ClockInv, Slack
  <2> QED BY <1>7, <2>1, <2>2 DEF sessionVars, RunsInv
<1> QED BY <1>2, <1>3, <1>4, <1>5, <1>6, <1>7 DEF SessionNext

(***************************************************************************)
(* Theorems about the exchanges.                                           *)
(***************************************************************************)
(* The invariant of the exchanges holds in every reachable state, for any  *)
(* timeout, floor and deadline that leave the runs their time.             *)
THEOREM ExchangeInvariance == SessionSpec => []RunsInv
BY RunsInitInv, RunsStep, PTL DEF SessionSpec

(* Every variable of a session keeps its type. *)
THEOREM SessionTypeCorrect == SessionSpec => []SessionTypeOK
<1>1. RunsInv /\ TypeOK => SessionTypeOK
  BY DEF RunsInv, SessionTypeOK
<1> QED BY <1>1, ExchangeInvariance, SessionImplementsGate, TypeCorrect, PTL

(* runner.ts: edits to the carried files "never count". *)
THEOREM PassesAreEarned == SessionSpec => []PassIsEarned
<1>1. RunsInv => PassIsEarned
  BY DEF RunsInv
<1> QED BY <1>1, ExchangeInvariance, PTL

(* runner.ts: the deadline of the adapter is the runner's bound "plus the  *)
(* child's own start-up".                                                  *)
THEOREM DeadlineLeavesTheRuns == SessionSpec => []DeadlineIsForStartup
<1>1. RunsInv => DeadlineIsForStartup
  <2> SUFFICES ASSUME RunsInv, late, started # Unstarted
               PROVE  started >= Deadline - Timeout - 2 * Floor
    BY DEF DeadlineIsForStartup
  <2>1. stage \in {"next", "running"} /\ clock = Deadline
    BY DEF RunsInv, AskingInv, ClockInv, RunsTypeOK
  <2>2. /\ started \in Int /\ clock \in Int /\ until \in Int
        /\ Slack \in Int /\ Slack <= 2 * Floor
    BY Times, Slacks DEF RunsInv, RunsTypeOK, Latest
  <2>3. clock <= started + Timeout + Slack
    BY <2>1, <2>2, Times DEF RunsInv, ClockInv
  <2> QED BY <2>1, <2>2, <2>3, Times
<1> QED BY <1>1, ExchangeInvariance, PTL

(***************************************************************************)
(* The variant of an exchange: what is left of its time, of its runs and   *)
(* of what the adapter does about it.                                      *)
(***************************************************************************)
Place ==
  CASE stage = "starting" -> 8
    [] stage = "running"  -> 2 * todo + 2
    [] stage = "next"     -> 2 * todo + 1

ExchangeLeft ==
  IF stage \in {"idle", "answered"} THEN 0
  ELSE (Deadline - clock) + Place + (IF late THEN 0 ELSE 1)

(* An exchange that a gate waits for comes nearer to its answer with every *)
(* step, within as many steps as its deadline has ticks and nine.          *)
ExchangesAdvance ==
  [][/\ ExchangeLeft \in 0..(Deadline + 9)
     /\ asked # "nobody" /\ asked' = asked => ExchangeLeft' < ExchangeLeft \/ UNCHANGED runs]_sessionVars

(* Something can happen to an exchange that is not answered: one of the    *)
(* guards of the steps that fairness drives holds.                         *)
SomebodyMoves ==
  asked # "nobody" =>
    \/ stage \in {"next", "answered"}
    \/ stage = "running" /\ (clock >= until \/ late)
    \/ clock < Deadline /\ (stage = "starting" \/ (stage = "running" /\ clock < until))
    \/ stage \in {"starting", "running"} /\ (late \/ clock >= Deadline)

LEMMA LeftIsNumber ==
  ASSUME RunsInv
  PROVE  /\ ExchangeLeft \in 0..(Deadline + 9)
         /\ stage \in {"starting", "next", "running"} => ExchangeLeft > 0
<1>1. clock \in 0..Deadline /\ todo \in 0..3 /\ late \in BOOLEAN /\ Deadline \in Nat
  BY Times DEF RunsInv, RunsTypeOK
<1>2. CASE stage \in {"idle", "answered"}
  BY <1>1, <1>2 DEF ExchangeLeft
<1>3. CASE stage \in {"starting", "next", "running"}
  <2>1. Place \in 1..8
    BY <1>1, <1>3 DEF Place, RunsInv, AskingInv
  <2> QED BY <1>1, <1>3, <2>1 DEF ExchangeLeft
<1> QED BY <1>2, <1>3 DEF RunsInv, RunsTypeOK

LEMMA ExchangeLowers ==
  ASSUME RunsInv, Exchange
  PROVE  ExchangeLeft' < ExchangeLeft
<1> USE DEF RunsInv
<1>1. /\ clock \in 0..Deadline /\ todo \in 0..3 /\ late \in BOOLEAN /\ Deadline \in Nat
      /\ ExchangeLeft \in Nat
      /\ stage \in {"starting", "next", "running"} => ExchangeLeft > 0
  BY Times, LeftIsNumber DEF RunsTypeOK
<1>2. ASSUME stage' = "answered", stage \in {"starting", "next", "running"}
      PROVE  ExchangeLeft' < ExchangeLeft
  BY <1>1, <1>2 DEF ExchangeLeft
<1>3. CASE RefuseToRun \/ CannotStart \/ RunTimesOut \/ EngineDies
  BY <1>2, <1>3 DEF RefuseToRun, CannotStart, RunTimesOut, EngineDies, Answers
<1>4. CASE Restore
  <2>1. /\ stage = "starting" /\ stage' = "next" /\ todo' \in 1..3
        /\ UNCHANGED <<clock, late>>
    BY <1>4 DEF Restore, RunsTypeOK
  <2> QED BY <1>1, <2>1 DEF ExchangeLeft, Place
<1>5. CASE StartRun
  <2>1. /\ stage = "next" /\ stage' = "running" /\ todo' = todo - 1
        /\ UNCHANGED <<clock, late>>
    BY <1>5 DEF StartRun
  <2> QED BY <1>1, <2>1 DEF ExchangeLeft, Place
<1>6. CASE RunEnds(TRUE) \/ RunEnds(FALSE)
  <2>1. /\ stage = "running" /\ UNCHANGED todo
        /\ stage' = "answered" \/ (stage' = "next" /\ UNCHANGED <<clock, late>>)
    BY <1>6 DEF RunEnds, Answers
  <2>2. CASE stage' = "answered"
    BY <1>2, <2>1, <2>2
  <2>3. CASE stage' = "next" /\ UNCHANGED <<clock, late>>
    BY <1>1, <2>1, <2>3 DEF ExchangeLeft, Place
  <2> QED BY <2>1, <2>2, <2>3
<1>7. CASE DeadlinePasses
  <2>1. /\ stage \in {"starting", "next", "running"} /\ UNCHANGED <<stage, todo, clock>>
        /\ ~late /\ late' = TRUE
    BY <1>7 DEF DeadlinePasses
  <2>2. Place' = Place /\ Place \in Nat
    BY <1>1, <2>1 DEF Place
  <2> QED BY <1>1, <2>1, <2>2 DEF ExchangeLeft
<1>8. CASE Tick
  <2>1. /\ stage \in {"starting", "running"} /\ UNCHANGED <<stage, todo, late>>
        /\ clock < Deadline /\ clock' = clock + 1
    BY <1>8 DEF Tick
  <2>2. Place' = Place /\ Place \in Nat
    BY <1>1, <2>1 DEF Place
  <2> QED BY <1>1, <2>1, <2>2 DEF ExchangeLeft
<1> QED BY <1>3, <1>4, <1>5, <1>6, <1>7, <1>8 DEF Exchange

(* No exchange goes in circles or stands still: what is left of it shrinks *)
(* with every step, and until it is answered a step that the code owes it  *)
(* is open.  That the step is taken is the fairness of AskedIsAnswered.    *)
THEOREM ExchangesEnd == SessionSpec => ExchangesAdvance /\ []SomebodyMoves
<1>1. ASSUME RunsInv, [SessionNext]_sessionVars
      PROVE  /\ ExchangeLeft \in 0..(Deadline + 9)
             /\ asked # "nobody" /\ asked' = asked => ExchangeLeft' < ExchangeLeft \/ UNCHANGED runs
  <2>1. CASE Exchange
    BY <1>1, <2>1, LeftIsNumber, ExchangeLowers
  <2>2. CASE Act \/ StopUnasked(TRUE) \/ StopUnasked(FALSE) \/ \E who \in Askers : AskFor(who)
    BY <1>1, <2>2, LeftIsNumber DEF Act, StopUnasked, AskFor
  <2>3. CASE Conclude
    BY <1>1, <2>3, LeftIsNumber DEF Conclude
  <2>4. CASE UNCHANGED sessionVars
    BY <1>1, <2>4, LeftIsNumber DEF sessionVars
  <2> QED BY <1>1, <2>1, <2>2, <2>3, <2>4 DEF SessionNext
<1>2. RunsInv => SomebodyMoves
  <2> SUFFICES ASSUME RunsInv, asked # "nobody" PROVE SomebodyMoves
    BY DEF SomebodyMoves
  <2>1. stage \in {"starting", "next", "running", "answered"} /\ clock \in 0..Deadline
    BY DEF RunsInv, RunsTypeOK, AskingInv
  <2>2. until \in Int /\ Deadline \in Nat
    BY Times DEF RunsInv, RunsTypeOK, Latest
  <2> QED BY <2>1, <2>2 DEF SomebodyMoves
<1> QED BY <1>1, <1>2, ExchangeInvariance, PTL DEF SessionSpec, ExchangesAdvance
=============================================================================
