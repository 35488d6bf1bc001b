-------------------------- MODULE TerminationProofs --------------------------
(***************************************************************************)
(* Proofs about Termination, for any number of probes during the grace.    *)
(***************************************************************************)
EXTENDS Termination, TLAPS

(* What an attempt at each point of its life knows of Pi. *)
NoPi     == pi = "none"
PiIsOver == pi = "gone" /\ tool # "alive"

LifeInv ==
  /\ apc \in {"booting", "preparing", "spawning"} => NoPi
  /\ apc = "joining" => pi = "gone"
  /\ apc = "publishing" => PiIsOver
  /\ apc = "leaving" => NoPi \/ (PiIsOver /\ finalized)
  /\ NoPiLeftBehind

IInv == TypeOK /\ LifeInv /\ SafeMeansGone

(* Init establishes the invariant. *)
LEMMA InitIInv == Init => IInv
<1> SUFFICES ASSUME Init PROVE IInv
  OBVIOUS
<1>1. 0 \in 0..Grace
  BY GraceAssumption DEF GraceAssumption
<1>2. TypeOK
  BY <1>1 DEF Init, TypeOK, Alive
<1>3. LifeInv
  BY DEF Init, LifeInv, NoPiLeftBehind, NoPi
<1>4. SafeMeansGone
  BY DEF Init, SafeMeansGone, CleanupSafe
<1> QED BY <1>2, <1>3, <1>4 DEF IInv

(* A group that is gone stays gone: its leader is not a living attempt any *)
(* more, which alone could start helpers.                                  *)
LEMMA GoneStaysGone ==
  ASSUME TypeOK, SafeMeansGone, epc' = epc, group' = group, reaped' = reaped,
         apc = "reaped" => apc' = "reaped",
         helper' = "alive" => helper = "alive" \/ apc \in Alive
  PROVE  SafeMeansGone'
BY DEF SafeMeansGone, CleanupSafe, GroupEmpty, Alive

(* The last probe finds the group as it is. *)
LEMMA ProbeStep == IInv /\ Probe => IInv'
<1> SUFFICES ASSUME IInv, Probe PROVE IInv'
  OBVIOUS
<1> USE DEF IInv, Probe, attempt, others
<1>1. TypeOK'
  BY DEF TypeOK, Answers
<1>2. LifeInv'
  BY DEF LifeInv, NoPiLeftBehind, NoPi, PiIsOver
<1>3. SafeMeansGone'
  BY DEF SafeMeansGone, CleanupSafe, Answers, GroupEmpty
<1> QED BY <1>1, <1>2, <1>3

(* The attempt has ended by itself. *)
LEMMA FinishStep == IInv /\ Finish => IInv'
<1> SUFFICES ASSUME IInv, Finish PROVE IInv'
  OBVIOUS
<1> USE DEF IInv, Finish, At, deliver, attempt, others
<1>1. TypeOK'
  BY GraceAssumption DEF GraceAssumption, TypeOK, Alive
<1>2. LifeInv'
  BY DEF TypeOK, LifeInv, NoPiLeftBehind, NoPi, PiIsOver, Alive
<1>3. SafeMeansGone'
  BY DEF SafeMeansGone, CleanupSafe
<1> QED BY <1>1, <1>2, <1>3

(* A poll collects an attempt that has ended. *)
LEMMA PollWhileReadingStep == IInv /\ PollWhileReading => IInv'
<1> SUFFICES ASSUME IInv, PollWhileReading PROVE IInv'
  OBVIOUS
<1> USE DEF IInv, PollWhileReading, At, deliver, attempt, others
<1>1. TypeOK'
  BY GraceAssumption DEF GraceAssumption, TypeOK, Alive
<1>2. LifeInv'
  BY DEF TypeOK, LifeInv, NoPiLeftBehind, NoPi, PiIsOver, Alive
<1>3. SafeMeansGone'
  BY GoneStaysGone DEF Alive
<1> QED BY <1>1, <1>2, <1>3

(* The teardown begins. *)
LEMMA SendTermStep == IInv /\ SendTerm => IInv'
<1> SUFFICES ASSUME IInv, SendTerm PROVE IInv'
  OBVIOUS
<1> USE DEF IInv, SendTerm, At, deliver, attempt, others
<1>1. TypeOK'
  BY GraceAssumption DEF GraceAssumption, TypeOK, Alive, Answers
<1>2. LifeInv'
  BY DEF TypeOK, LifeInv, NoPiLeftBehind, NoPi, PiIsOver, Alive
<1>3. SafeMeansGone'
  BY DEF SafeMeansGone, CleanupSafe
<1> QED BY <1>1, <1>2, <1>3

(* The group is probed; a child that ended is collected. *)
LEMMA GraceProbeStep == IInv /\ GraceProbe => IInv'
<1> SUFFICES ASSUME IInv, GraceProbe PROVE IInv'
  OBVIOUS
<1> USE DEF IInv, GraceProbe, Collected, At, deliver, attempt, others
<1>1. TypeOK'
  BY GraceAssumption DEF GraceAssumption, TypeOK, Alive
<1>2. LifeInv'
  BY DEF TypeOK, LifeInv, NoPiLeftBehind, NoPi, PiIsOver, Alive
<1>3. SafeMeansGone'
  BY DEF SafeMeansGone, CleanupSafe
<1> QED BY <1>1, <1>2, <1>3

(* The grace period ends. *)
LEMMA GraceOverStep == IInv /\ GraceOver => IInv'
<1> SUFFICES ASSUME IInv, GraceOver PROVE IInv'
  OBVIOUS
<1> USE DEF IInv, GraceOver, At, deliver, attempt, others
<1>1. TypeOK'
  BY GraceAssumption DEF GraceAssumption, TypeOK, Alive
<1>2. LifeInv'
  BY DEF TypeOK, LifeInv, NoPiLeftBehind, NoPi, PiIsOver, Alive
<1>3. SafeMeansGone'
  BY DEF SafeMeansGone, CleanupSafe
<1> QED BY <1>1, <1>2, <1>3

(* From here on the attempt may have been killed. *)
LEMMA SendKillStep == IInv /\ SendKill => IInv'
<1> SUFFICES ASSUME IInv, SendKill PROVE IInv'
  OBVIOUS
<1> USE DEF IInv, SendKill, At, deliver, attempt, others
<1>1. TypeOK'
  BY GraceAssumption DEF GraceAssumption, TypeOK, Alive, Answers
<1>2. LifeInv'
  BY DEF TypeOK, LifeInv, NoPiLeftBehind, NoPi, PiIsOver, Alive
<1>3. SafeMeansGone'
  BY DEF SafeMeansGone, CleanupSafe
<1> QED BY <1>1, <1>2, <1>3

(* The child is waited for. *)
LEMMA ReapStep == IInv /\ Reap => IInv'
<1> SUFFICES ASSUME IInv, Reap PROVE IInv'
  OBVIOUS
<1> USE DEF IInv, Reap, WaitForChild, At, deliver, attempt, others
<1>1. TypeOK'
  <2>1. epc' \in {"watching", "grace", "kill", "reap", "reap_kill", "reap_again",
                   "probe", "done", "finished"}
    BY DEF TypeOK, Alive
  <2>2. apc' \in Alive \cup {"zombie", "reaped"}
    BY DEF TypeOK, Alive
  <2>3. reaped' \in BOOLEAN
    BY DEF TypeOK, Alive
  <2>4. UNCHANGED <<group, polls, termSent, recorded, killed, finalized, helper, pi, told, tool>>
    OBVIOUS
  <2> QED
    BY <2>1, <2>2, <2>3, <2>4 DEF TypeOK
<1>2. LifeInv'
  BY DEF TypeOK, LifeInv, NoPiLeftBehind, NoPi, PiIsOver, Alive
<1>3. SafeMeansGone'
  BY DEF SafeMeansGone, CleanupSafe
<1> QED BY <1>1, <1>2, <1>3

(* The child is killed by its own number. *)
LEMMA KillChildStep == IInv /\ KillChild => IInv'
<1> SUFFICES ASSUME IInv, KillChild PROVE IInv'
  OBVIOUS
<1> USE DEF IInv, KillChild, At, deliver, attempt, others
<1>1. TypeOK'
  <2>1. epc' \in {"watching", "grace", "kill", "reap", "reap_kill", "reap_again",
                   "probe", "done", "finished"}
    BY DEF TypeOK, Alive
  <2>2. killed' \in BOOLEAN
    BY DEF TypeOK, Alive
  <2>3. UNCHANGED <<group, reaped, polls, apc, termSent, recorded, finalized, helper, pi, told, tool>>
    OBVIOUS
  <2> QED
    BY <2>1, <2>2, <2>3 DEF TypeOK
<1>2. LifeInv'
  BY DEF TypeOK, LifeInv, NoPiLeftBehind, NoPi, PiIsOver, Alive
<1>3. SafeMeansGone'
  BY DEF SafeMeansGone, CleanupSafe
<1> QED BY <1>1, <1>2, <1>3

(* The child is waited for once more. *)
LEMMA ReapAgainStep == IInv /\ ReapAgain => IInv'
<1> SUFFICES ASSUME IInv, ReapAgain PROVE IInv'
  OBVIOUS
<1> USE DEF IInv, ReapAgain, WaitForChild, At, deliver, attempt, others
<1>1. TypeOK'
  <2>1. epc' \in {"watching", "grace", "kill", "reap", "reap_kill", "reap_again",
                   "probe", "done", "finished"}
    BY DEF TypeOK, Alive
  <2>2. apc' \in Alive \cup {"zombie", "reaped"}
    BY DEF TypeOK, Alive
  <2>3. reaped' \in BOOLEAN
    BY DEF TypeOK, Alive
  <2>4. UNCHANGED <<group, polls, termSent, recorded, killed, finalized, helper, pi, told, tool>>
    OBVIOUS
  <2> QED
    BY <2>1, <2>2, <2>3, <2>4 DEF TypeOK
<1>2. LifeInv'
  BY DEF TypeOK, LifeInv, NoPiLeftBehind, NoPi, PiIsOver, Alive
<1>3. SafeMeansGone'
  BY DEF SafeMeansGone, CleanupSafe
<1> QED BY <1>1, <1>2, <1>3

(* The handlers are installed. *)
LEMMA BootStep == IInv /\ Boot => IInv'
<1> SUFFICES ASSUME IInv, Boot PROVE IInv'
  OBVIOUS
<1> USE DEF IInv, Boot, At, deliver, attempt, others
<1>1. TypeOK'
  BY GraceAssumption DEF GraceAssumption, TypeOK, Alive
<1>2. LifeInv'
  BY DEF TypeOK, LifeInv, NoPiLeftBehind, NoPi, PiIsOver, Alive
<1>3. SafeMeansGone'
  BY GoneStaysGone DEF Alive
<1> QED BY <1>1, <1>2, <1>3

(* No Pi runs yet. *)
LEMMA PrepareStep == IInv /\ Prepare => IInv'
<1> SUFFICES ASSUME IInv, Prepare PROVE IInv'
  OBVIOUS
<1> USE DEF IInv, Prepare, At, deliver, attempt, others
<1>1. TypeOK'
  BY GraceAssumption DEF GraceAssumption, TypeOK, Alive
<1>2. LifeInv'
  BY DEF TypeOK, LifeInv, NoPiLeftBehind, NoPi, PiIsOver, Alive
<1>3. SafeMeansGone'
  BY GoneStaysGone DEF Alive
<1> QED BY <1>1, <1>2, <1>3

(* Pi is started, or is not. *)
LEMMA SpawnPiStep == IInv /\ SpawnPi => IInv'
<1> SUFFICES ASSUME IInv, SpawnPi PROVE IInv'
  OBVIOUS
<1> USE DEF IInv, SpawnPi, At, deliver, attempt, others
<1>1. TypeOK'
  BY GraceAssumption DEF GraceAssumption, TypeOK, Alive
<1>2. LifeInv'
  BY DEF TypeOK, LifeInv, NoPiLeftBehind, NoPi, PiIsOver, Alive
<1>3. SafeMeansGone'
  BY GoneStaysGone DEF Alive
<1> QED BY <1>1, <1>2, <1>3

(* The signal that came earlier is forwarded. *)
LEMMA WatchPiStep == IInv /\ WatchPi => IInv'
<1> SUFFICES ASSUME IInv, WatchPi PROVE IInv'
  OBVIOUS
<1> USE DEF IInv, WatchPi, At, deliver, attempt, others
<1>1. TypeOK'
  BY GraceAssumption DEF GraceAssumption, TypeOK, Alive
<1>2. LifeInv'
  BY DEF TypeOK, LifeInv, NoPiLeftBehind, NoPi, PiIsOver, Alive
<1>3. SafeMeansGone'
  BY GoneStaysGone DEF Alive
<1> QED BY <1>1, <1>2, <1>3

(* Pi has ended. *)
LEMMA PiEndedStep == IInv /\ PiEnded => IInv'
<1> SUFFICES ASSUME IInv, PiEnded PROVE IInv'
  OBVIOUS
<1> USE DEF IInv, PiEnded, At, deliver, attempt, others
<1>1. TypeOK'
  BY GraceAssumption DEF GraceAssumption, TypeOK, Alive
<1>2. LifeInv'
  BY DEF TypeOK, LifeInv, NoPiLeftBehind, NoPi, PiIsOver, Alive
<1>3. SafeMeansGone'
  BY GoneStaysGone DEF Alive
<1> QED BY <1>1, <1>2, <1>3

(* Nobody holds Pi's output. *)
LEMMA PumpEndedStep == IInv /\ PumpEnded => IInv'
<1> SUFFICES ASSUME IInv, PumpEnded PROVE IInv'
  OBVIOUS
<1> USE DEF IInv, PumpEnded, At, deliver, attempt, others
<1>1. TypeOK'
  BY GraceAssumption DEF GraceAssumption, TypeOK, Alive
<1>2. LifeInv'
  BY DEF TypeOK, LifeInv, NoPiLeftBehind, NoPi, PiIsOver, Alive
<1>3. SafeMeansGone'
  BY GoneStaysGone DEF Alive
<1> QED BY <1>1, <1>2, <1>3

(* What Pi left is published. *)
LEMMA PublishStep == IInv /\ Publish => IInv'
<1> SUFFICES ASSUME IInv, Publish PROVE IInv'
  OBVIOUS
<1> USE DEF IInv, Publish, At, deliver, attempt, others
<1>1. TypeOK'
  BY GraceAssumption DEF GraceAssumption, TypeOK, Alive
<1>2. LifeInv'
  BY DEF TypeOK, LifeInv, NoPiLeftBehind, NoPi, PiIsOver, Alive
<1>3. SafeMeansGone'
  BY GoneStaysGone DEF Alive
<1> QED BY <1>1, <1>2, <1>3

(* The attempt ends. *)
LEMMA LeaveStep == IInv /\ Leave => IInv'
<1> SUFFICES ASSUME IInv, Leave PROVE IInv'
  OBVIOUS
<1> USE DEF IInv, Leave, At, deliver, attempt, others
<1>1. TypeOK'
  BY GraceAssumption DEF GraceAssumption, TypeOK, Alive
<1>2. LifeInv'
  BY DEF TypeOK, LifeInv, NoPiLeftBehind, NoPi, PiIsOver, Alive
<1>3. SafeMeansGone'
  BY GoneStaysGone DEF Alive
<1> QED BY <1>1, <1>2, <1>3

(* A signal ends an attempt only before Pi can exist. *)
LEMMA HandleTermStep == IInv /\ HandleTerm => IInv'
<1> SUFFICES ASSUME IInv, HandleTerm PROVE IInv'
  OBVIOUS
<1> USE DEF IInv, HandleTerm, At, deliver, attempt, others
<1>1. TypeOK'
  <2>1. apc' \in Alive \cup {"zombie", "reaped"}
    BY DEF TypeOK, Alive
  <2>2. termSent' \in BOOLEAN
    BY DEF TypeOK, Alive
  <2>3. recorded' \in BOOLEAN
    BY DEF TypeOK, Alive
  <2>4. told' \in BOOLEAN
    BY DEF TypeOK, Alive
  <2>5. UNCHANGED <<epc, group, reaped, polls, killed, finalized, helper, pi, tool>>
    OBVIOUS
  <2> QED
    BY <2>1, <2>2, <2>3, <2>4, <2>5 DEF TypeOK
<1>2. LifeInv'
  BY DEF TypeOK, LifeInv, NoPiLeftBehind, NoPi, PiIsOver, Alive
<1>3. SafeMeansGone'
  BY GoneStaysGone DEF Alive
<1> QED BY <1>1, <1>2, <1>3

(* What was killed ends. *)
LEMMA KilledStep == IInv /\ Killed => IInv'
<1> SUFFICES ASSUME IInv, Killed PROVE IInv'
  OBVIOUS
<1> USE DEF IInv, Killed, At, deliver, attempt, others
<1>1. TypeOK'
  BY GraceAssumption DEF GraceAssumption, TypeOK, Alive
<1>2. LifeInv'
  BY DEF TypeOK, LifeInv, NoPiLeftBehind, NoPi, PiIsOver, Alive
<1>3. SafeMeansGone'
  BY GoneStaysGone DEF Alive
<1> QED BY <1>1, <1>2, <1>3

(* Only a living attempt has helpers. *)
LEMMA HelperStartsStep == IInv /\ HelperStarts => IInv'
<1> SUFFICES ASSUME IInv, HelperStarts PROVE IInv'
  OBVIOUS
<1> USE DEF IInv, HelperStarts, At, deliver, attempt, others
<1>1. TypeOK'
  BY GraceAssumption DEF GraceAssumption, TypeOK, Alive
<1>2. LifeInv'
  BY DEF TypeOK, LifeInv, NoPiLeftBehind, NoPi, PiIsOver, Alive
<1>3. SafeMeansGone'
  BY GoneStaysGone DEF Alive
<1> QED BY <1>1, <1>2, <1>3

(* A helper ends. *)
LEMMA HelperEndsStep == IInv /\ HelperEnds => IInv'
<1> SUFFICES ASSUME IInv, HelperEnds PROVE IInv'
  OBVIOUS
<1> USE DEF IInv, HelperEnds, At, deliver, attempt, others
<1>1. TypeOK'
  BY GraceAssumption DEF GraceAssumption, TypeOK, Alive
<1>2. LifeInv'
  BY DEF TypeOK, LifeInv, NoPiLeftBehind, NoPi, PiIsOver, Alive
<1>3. SafeMeansGone'
  BY GoneStaysGone DEF Alive
<1> QED BY <1>1, <1>2, <1>3

(* Pi ends. *)
LEMMA PiExitsStep == IInv /\ PiExits => IInv'
<1> SUFFICES ASSUME IInv, PiExits PROVE IInv'
  OBVIOUS
<1> USE DEF IInv, PiExits, At, deliver, attempt, others
<1>1. TypeOK'
  BY GraceAssumption DEF GraceAssumption, TypeOK, Alive
<1>2. LifeInv'
  BY DEF TypeOK, LifeInv, NoPiLeftBehind, NoPi, PiIsOver, Alive
<1>3. SafeMeansGone'
  BY GoneStaysGone DEF Alive
<1> QED BY <1>1, <1>2, <1>3

(* Only a running Pi starts tools. *)
LEMMA ToolStartsStep == IInv /\ ToolStarts => IInv'
<1> SUFFICES ASSUME IInv, ToolStarts PROVE IInv'
  OBVIOUS
<1> USE DEF IInv, ToolStarts, At, deliver, attempt, others
<1>1. TypeOK'
  BY GraceAssumption DEF GraceAssumption, TypeOK, Alive
<1>2. LifeInv'
  BY DEF TypeOK, LifeInv, NoPiLeftBehind, NoPi, PiIsOver, Alive
<1>3. SafeMeansGone'
  BY GoneStaysGone DEF Alive
<1> QED BY <1>1, <1>2, <1>3

(* A tool ends. *)
LEMMA ToolEndsStep == IInv /\ ToolEnds => IInv'
<1> SUFFICES ASSUME IInv, ToolEnds PROVE IInv'
  OBVIOUS
<1> USE DEF IInv, ToolEnds, At, deliver, attempt, others
<1>1. TypeOK'
  BY GraceAssumption DEF GraceAssumption, TypeOK, Alive
<1>2. LifeInv'
  BY DEF TypeOK, LifeInv, NoPiLeftBehind, NoPi, PiIsOver, Alive
<1>3. SafeMeansGone'
  BY GoneStaysGone DEF Alive
<1> QED BY <1>1, <1>2, <1>3

(* IInv is inductive. *)
LEMMA StepIInv == IInv /\ [Next]_vars => IInv'
<1> SUFFICES ASSUME IInv, [Next]_vars PROVE IInv'
  OBVIOUS
<1>1. CASE Deliver \/ PollWhileReading
  BY <1>1, FinishStep, SendTermStep, GraceProbeStep, GraceOverStep, SendKillStep, ReapStep, KillChildStep,
     ReapAgainStep, ProbeStep, PollWhileReadingStep DEF Deliver
<1>2. CASE Attempt \/ HandleTerm
  BY <1>2, BootStep, PrepareStep, SpawnPiStep, WatchPiStep, PiEndedStep, PumpEndedStep, PublishStep,
     LeaveStep, HandleTermStep DEF Attempt
<1>3. CASE Killed \/ HelperStarts \/ HelperEnds \/ PiExits \/ ToolStarts \/ ToolEnds
  BY <1>3, KilledStep, HelperStartsStep, HelperEndsStep, PiExitsStep, ToolStartsStep, ToolEndsStep
<1>4. CASE UNCHANGED vars
  BY <1>4 DEF vars, deliver, attempt, others, IInv, TypeOK, LifeInv, NoPiLeftBehind, NoPi, PiIsOver,
              SafeMeansGone, CleanupSafe, GroupEmpty
<1> QED BY <1>1, <1>2, <1>3, <1>4 DEF Next

(***************************************************************************)
(* Theorems.                                                               *)
(***************************************************************************)
(* The invariant of the teardown holds in every reachable state, for any   *)
(* length of the grace period.                                             *)
THEOREM Invariance == Spec => []IInv
BY InitIInv, StepIInv, PTL DEF Spec

(* Every variable of the teardown keeps its type. *)
THEOREM TypeCorrect == Spec => []TypeOK
<1>1. IInv => TypeOK
  BY DEF IInv
<1> QED BY Invariance, <1>1, PTL

(* A teardown that says cleanup is safe left nothing of the group. *)
THEOREM SafeIsGone == Spec => []SafeMeansGone
<1>1. IInv => SafeMeansGone
  BY DEF IInv
<1> QED BY Invariance, <1>1, PTL

(* Of the signals of a teardown only SIGKILL parts an attempt from its Pi. *)
THEOREM OnlyKillPartsFromPi == Spec => []NoPiLeftBehind
<1>1. IInv => NoPiLeftBehind
  BY DEF IInv, LifeInv
<1> QED BY Invariance, <1>1, PTL

(***************************************************************************)
(* What the two liveness properties rest on.  That the waits end and the   *)
(* processes run is fairness, which is left to TLC; that nothing undoes    *)
(* their progress is proved here.                                          *)
(***************************************************************************)
(* A Pi that is watched was told of a signal that has been recorded,       *)
(* whether the signal came before Pi was started, between its start and    *)
(* self._process, or later; and nobody is told of a signal that never came.*)
SignalForwarded ==
  /\ apc \in {"spawned", "watching"} => pi # "none"
  /\ recorded /\ apc = "watching" => told \/ pi = "gone"
  /\ told => recorded

LEMMA ForwardedStep ==
  ASSUME IInv, SignalForwarded, [Next]_vars PROVE SignalForwarded'
<1> USE DEF SignalForwarded, IInv, LifeInv, TypeOK, Alive, At, NoPi, deliver, attempt, others
<1>1. CASE Deliver \/ PollWhileReading
  BY <1>1 DEF Deliver, Finish, SendTerm, GraceProbe, Collected, GraceOver, SendKill, Reap, KillChild,
              ReapAgain, WaitForChild, Probe, PollWhileReading
<1>2. CASE Attempt
  BY <1>2 DEF Attempt, Boot, Prepare, SpawnPi, WatchPi, PiEnded, PumpEnded, Publish, Leave
<1>3. CASE HandleTerm
  BY <1>3 DEF HandleTerm
<1>4. CASE Killed \/ HelperStarts \/ HelperEnds \/ PiExits \/ ToolStarts \/ ToolEnds
  BY <1>4 DEF Killed, HelperStarts, HelperEnds, PiExits, ToolStarts, ToolEnds
<1>5. CASE UNCHANGED vars
  BY <1>5 DEF vars
<1> QED BY <1>1, <1>2, <1>3, <1>4, <1>5 DEF Next

(* No order of the signal and of Pi's start loses the signal               *)
(* (request_termination and the check after self._process is set).         *)
THEOREM SignalsAreForwarded == Spec => []SignalForwarded
<1>1. Init => SignalForwarded
  BY DEF Init, SignalForwarded
<1> QED BY <1>1, ForwardedStep, Invariance, PTL DEF Spec

(* The steps of _teardown_process_group that are left, at most.            *)
StepsLeft ==
  CASE epc = "watching"   -> Grace + 8
    [] epc = "grace"      -> (Grace - polls) + 7
    [] epc = "kill"       -> 6
    [] epc = "reap"       -> 5
    [] epc = "reap_kill"  -> 4
    [] epc = "reap_again" -> 3
    [] epc = "probe"      -> 2
    [] OTHER              -> 0

(* What `deliver` does brings the end of the teardown nearer, and what the *)
(* processes it is tearing down do in the meantime does not delay it.      *)
TeardownAdvances ==
  [][/\ StepsLeft \in 0..(Grace + 8)
     /\ StepsLeft' < StepsLeft \/ UNCHANGED <<epc, polls>>]_vars

LEMMA TeardownStep ==
  ASSUME TypeOK, [Next]_vars
  PROVE  /\ StepsLeft \in 0..(Grace + 8)
         /\ StepsLeft' < StepsLeft \/ UNCHANGED <<epc, polls>>
<1>1. /\ Grace \in Nat /\ polls \in Nat /\ polls <= Grace
      /\ epc \in {"watching", "grace", "kill", "reap", "reap_kill", "reap_again",
                  "probe", "done", "finished"}
  BY GraceAssumption DEF GraceAssumption, TypeOK
<1>2. StepsLeft \in Nat /\ StepsLeft <= Grace + 8
  BY <1>1 DEF StepsLeft
<1>3. CASE Finish
  BY <1>1, <1>3 DEF Finish, StepsLeft
<1>4. CASE SendTerm
  <2>1. epc = "watching" /\ polls' = polls /\ epc' \in {"grace", "kill", "reap"}
    BY <1>4 DEF SendTerm, Answers
  <2> QED BY <1>1, <1>2, <2>1 DEF StepsLeft
<1>5. CASE GraceProbe
  <2>1. epc = "grace" /\ polls < Grace /\ polls' = polls + 1 /\ epc' \in {"grace", "kill", "reap"}
    BY <1>5 DEF GraceProbe
  <2> QED BY <1>1, <1>2, <2>1 DEF StepsLeft
<1>6. CASE GraceOver \/ SendKill \/ Reap \/ KillChild \/ ReapAgain \/ Probe
  BY <1>1, <1>2, <1>6 DEF GraceOver, SendKill, Reap, ReapAgain, WaitForChild, KillChild, Probe, StepsLeft
<1>7. CASE ~Deliver
  BY <1>2, <1>7 DEF Next, PollWhileReading, Attempt, Boot, Prepare, SpawnPi, WatchPi, PiEnded, PumpEnded,
                    Publish, Leave, HandleTerm, Killed, HelperStarts, HelperEnds, PiExits, ToolStarts,
                    ToolEnds, deliver, attempt, others, vars
<1> QED BY <1>1, <1>2, <1>3, <1>4, <1>5, <1>6, <1>7 DEF Deliver

(* A teardown takes at most Grace + 8 steps, of which each has a timeout.  *)
THEOREM TeardownsAdvance == Spec => TeardownAdvances
BY TeardownStep, TypeCorrect, PTL DEF Spec, TeardownAdvances
==============================================================================
