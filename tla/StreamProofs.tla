----------------------------- MODULE StreamProofs -----------------------------
(***************************************************************************)
(* Proofs about Stream, for any budgets, timeout and bounds: first about   *)
(* its clock, then about what it counts, a recursive function of a         *)
(* sequence of unknown length.                                             *)
(***************************************************************************)
EXTENDS Stream, Recursion, SequenceTheorems

(* The types of what the clock depends on. *)
ClockTypes ==
  /\ clock \in Nat /\ exitedAt \in Nat /\ left \in Nat /\ wake \in Nat
  /\ pipe \in Seq(Halves)
  /\ child \in {"running", "exited"}
  /\ open \in BOOLEAN
  /\ heir \in {"none", "holds", "gone"}
  /\ pc \in {"top", "select", "poll", "read", "turn", "drain", "flush", "wait", "returned"}
  /\ budget \in Budgets

(* A child that has exited let go of the pipe. *)
ExitFits ==
  /\ child = "exited" => ~open /\ exitedAt <= clock
  /\ pc = "drain" => child = "exited"

(* A wait in select is over a tick after the command deadline, and the     *)
(* turn ends at the instant at which it found output or nothing.           *)
WaitFits ==
  /\ pc = "select" => wake <= CommandDeadline
  /\ pc \in {"select", "poll", "read", "turn"} => clock <= CommandDeadline + 1

(* Without an heir every select after the exit of the child is ready: time *)
(* passes only between two turns, and each of them reads some of what the  *)
(* child left.                                                             *)
LoopFits ==
  child = "exited" /\ heir = "none" =>
    /\ pc = "turn" => clock + Len(pipe) <= exitedAt + left
    /\ pc \in {"top", "select", "poll", "read"} => clock + Len(pipe) <= exitedAt + left + 1

(* What a verdict about time was based on. *)
VerdictFits ==
  /\ pc # "returned" => verdict = "none"
  /\ verdict = "deadline_exhausted" =>
       /\ Over(clock, budget.deadline)
       /\ child = "exited" => exitedAt > budget.deadline
  /\ verdict = "timeout" =>
       /\ clock >= CommandDeadline
       /\ child = "exited" =>
            heir # "none" \/ CommandDeadline + Len(pipe) <= exitedAt + left + 1

ClockInv == ClockTypes /\ ExitFits /\ WaitFits /\ LoopFits /\ VerdictFits /\ StopsOnTime

(* Deadlines are numbers.                                                  *)
LEMMA DeadlineTypes ==
  ASSUME budget \in Budgets
  PROVE  /\ CommandDeadline \in Nat
         /\ budget.deadline \in Nat \cup {NoLimit}
BY StreamAssumption DEF StreamAssumption, CommandDeadline

(* The earlier of a number and a limit is a number, and no later.          *)
LEMMA EarlierOfIsEarlier ==
  ASSUME NEW n \in Nat, NEW limit \in Nat \cup {NoLimit}
  PROVE  EarlierOf(n, limit) \in Nat /\ EarlierOf(n, limit) <= n
BY StreamAssumption DEF StreamAssumption, EarlierOf

(* How long select waits.                                                  *)
LEMMA WakeIsBounded ==
  ASSUME ClockTypes
  PROVE  LET w == EarlierOf(EarlierOf(clock + 1, CommandDeadline), budget.deadline)
         IN  w \in Nat /\ w <= CommandDeadline
<1> DEFINE e == EarlierOf(clock + 1, CommandDeadline)
<1>1. /\ CommandDeadline \in Nat /\ budget.deadline \in Nat \cup {NoLimit}
      /\ clock + 1 \in Nat
  BY DeadlineTypes DEF ClockTypes
<1>2. e \in Nat /\ e <= CommandDeadline
  BY <1>1, StreamAssumption DEF StreamAssumption, EarlierOf
<1>3. EarlierOf(e, budget.deadline) \in Nat /\ EarlierOf(e, budget.deadline) <= e
  BY <1>1, <1>2, EarlierOfIsEarlier
<1> HIDE DEF e
<1>4. EarlierOf(e, budget.deadline) <= CommandDeadline
  BY <1>1, <1>2, <1>3
<1> QED BY <1>3, <1>4 DEF e

(* The first state.                                                        *)
LEMMA InitClock == Init => ClockInv
<1> SUFFICES ASSUME Init PROVE ClockInv
  OBVIOUS
<1>1. ClockTypes
  <2>1. <<>> \in Seq(Halves)
    BY EmptySeq
  <2> QED BY <2>1 DEF Init, ClockTypes
<1>2. CommandDeadline \in Nat
  BY <1>1, DeadlineTypes DEF ClockTypes
<1>3. StopsOnTime
  BY <1>2 DEF Init, StopsOnTime
<1> QED BY <1>1, <1>3 DEF Init, ClockInv, ExitFits, WaitFits, LoopFits, VerdictFits

(* The loop is left, or goes on to wait.                                   *)
LEMMA TopStep == ClockInv /\ Top => ClockInv'
<1> SUFFICES ASSUME ClockInv, Top PROVE ClockInv'
  OBVIOUS
<1>1. /\ UNCHANGED <<clock, world, budget>> /\ pc = "top" /\ verdict = "none"
      /\ clock \in Nat /\ exitedAt \in Nat /\ CommandDeadline \in Nat
      /\ clock <= CommandDeadline + 2 /\ UNCHANGED CommandDeadline
      /\ left \in Nat /\ Len(pipe) \in Nat
  BY DeadlineTypes, LenProperties DEF Top, ClockInv, ClockTypes, VerdictFits, StopsOnTime, CommandDeadline
<1>2. CASE Over(clock, budget.deadline) /\ child = "exited" /\ pc' = "drain" /\ UNCHANGED <<wake, verdict>>
  BY <1>1, <1>2 DEF ClockInv, ClockTypes, ExitFits, WaitFits, LoopFits, VerdictFits,
                    StopsOnTime, world
<1>3. CASE Over(clock, budget.deadline) /\ child # "exited" /\ Return("deadline_exhausted") /\ UNCHANGED wake
  BY <1>1, <1>3 DEF ClockInv, ClockTypes, ExitFits, WaitFits, LoopFits, VerdictFits,
                    StopsOnTime, world, Return
<1>4. CASE clock >= CommandDeadline /\ Return("timeout") /\ UNCHANGED wake
  <2>1. child = "exited" => heir # "none" \/ CommandDeadline + Len(pipe) <= exitedAt + left + 1
    BY <1>1, <1>4 DEF ClockInv, LoopFits
  <2> QED
    BY <1>1, <1>4, <2>1 DEF ClockInv, ClockTypes, ExitFits, WaitFits, LoopFits, VerdictFits,
                            StopsOnTime, world, Return
<1>5. CASE /\ pc' = "select"
           /\ wake' = EarlierOf(EarlierOf(clock + 1, CommandDeadline), budget.deadline)
           /\ UNCHANGED verdict
           /\ clock < CommandDeadline
  <2>1. wake' \in Nat /\ wake' <= CommandDeadline
    BY <1>5, WakeIsBounded DEF ClockInv
  <2> QED
    BY <1>1, <1>5, <2>1 DEF ClockInv, ClockTypes, ExitFits, WaitFits, LoopFits, VerdictFits,
                            StopsOnTime, world
<1>6. clock >= CommandDeadline \/ clock < CommandDeadline
  BY <1>1
<1> QED BY <1>2, <1>3, <1>4, <1>5, <1>6 DEF Top

(* Within a turn the engine moves on at the same instant; the verdict      *)
(* stays open.  A turn ends with less in the pipe, or with a child that is *)
(* still running.                                                          *)
LEMMA MoveStep ==
  ASSUME ClockInv, UNCHANGED <<clock, child, exitedAt, left, open, heir, budget, wake, verdict>>,
         pipe' \in Seq(Halves), Len(pipe') <= Len(pipe),
         \/ pc = "select" /\ pc' \in {"poll", "read"}
         \/ pc = "poll" /\ pc' = "turn" /\ child # "exited"
         \/ pc = "read" /\ pc' = "turn" /\ Len(pipe') < Len(pipe)
         \/ pc \in {"poll", "read", "drain"} /\ pc' = "flush"
         \/ pc = "drain" /\ pc' = "drain"
  PROVE  ClockInv'
<1>1. /\ clock \in Nat /\ exitedAt \in Nat /\ left \in Nat
      /\ CommandDeadline \in Nat /\ UNCHANGED CommandDeadline
      /\ Len(pipe) \in Nat /\ Len(pipe') \in Nat
      /\ pc # "returned" /\ verdict = "none"
  BY DeadlineTypes, LenProperties DEF ClockInv, ClockTypes, VerdictFits, CommandDeadline
<1>2. ClockTypes' /\ ExitFits'
  BY DEF ClockInv, ClockTypes, ExitFits
<1>3. WaitFits' /\ StopsOnTime'
  BY <1>1 DEF ClockInv, ExitFits, WaitFits, StopsOnTime
<1>4. LoopFits'
  BY <1>1 DEF ClockInv, LoopFits
<1>5. VerdictFits'
  BY <1>1 DEF VerdictFits
<1> QED BY <1>2, <1>3, <1>4, <1>5 DEF ClockInv

LEMMA SelectStep == ClockInv /\ Select => ClockInv'
<1> SUFFICES ASSUME ClockInv, Select PROVE ClockInv'
  OBVIOUS
<1>1. UNCHANGED <<clock, world, budget, wake, verdict>>
      /\ pc = "select" /\ pc' \in {"poll", "read"}
  BY DEF Select
<1>2. pipe \in Seq(Halves) /\ Len(pipe) \in Nat
  BY LenProperties DEF ClockInv, ClockTypes
<1> QED BY <1>1, <1>2, MoveStep DEF world

LEMMA PollChildStep == ClockInv /\ PollChild => ClockInv'
<1> SUFFICES ASSUME ClockInv, PollChild PROVE ClockInv'
  OBVIOUS
<1>1. /\ UNCHANGED <<clock, world, budget, wake, verdict>> /\ pc = "poll"
      /\ pc' = "flush" \/ (pc' = "turn" /\ child # "exited")
  BY DEF PollChild
<1>2. pipe \in Seq(Halves) /\ Len(pipe) \in Nat
  BY LenProperties DEF ClockInv, ClockTypes
<1> QED BY <1>1, <1>2, MoveStep DEF world

LEMMA EndOfFileStep ==
  ASSUME ClockInv, pc \in {"read", "drain"}, EndOfFile PROVE ClockInv'
<1>1. UNCHANGED <<clock, world, budget, wake, verdict>> /\ pc' = "flush"
  BY DEF EndOfFile
<1>2. pipe \in Seq(Halves) /\ Len(pipe) \in Nat
  BY LenProperties DEF ClockInv, ClockTypes
<1> QED BY <1>1, <1>2, MoveStep DEF world

(* A read leaves less in the pipe.                                         *)
LEMMA ConsumeShrinks ==
  ASSUME NEW next, pipe \in Seq(Halves), Consume(next)
  PROVE  pipe' \in Seq(Halves) /\ Len(pipe') < Len(pipe)
<1>1. PICK n \in 1..Len(pipe) : pipe' = SubSeq(pipe, n + 1, Len(pipe))
  BY DEF Consume
<1>2. /\ Len(pipe) \in Nat /\ n \in Int /\ n + 1 \in Int
      /\ \A i \in (n + 1)..Len(pipe) : pipe[i] \in Halves
  BY LenProperties, ElementOfSeq
<1>3. /\ SubSeq(pipe, n + 1, Len(pipe)) \in Seq(Halves)
      /\ Len(SubSeq(pipe, n + 1, Len(pipe))) =
           IF n + 1 <= Len(pipe) THEN Len(pipe) - (n + 1) + 1 ELSE 0
  BY <1>2, SubSeqProperties
<1> QED BY <1>1, <1>2, <1>3

(* A limit on turns or tokens is no verdict about time.                    *)
LEMMA CrossedIsNoTime == \A t : Crossed(t) \notin {"deadline_exhausted", "timeout"}
BY DEF Crossed

(* The stream returns with a verdict that is none about time.              *)
LEMMA ReturnStep ==
  ASSUME ClockInv, pc \in {"read", "drain", "flush", "wait"},
         UNCHANGED <<clock, child, exitedAt, left, open, heir, budget, wake>>,
         pipe' \in Seq(Halves),
         pc' = "returned", verdict' \notin {"deadline_exhausted", "timeout"}
  PROVE  ClockInv'
<1>1. /\ clock \in Nat /\ CommandDeadline \in Nat /\ UNCHANGED CommandDeadline
      /\ clock > CommandDeadline + 2 => child = "exited"
  BY DeadlineTypes DEF ClockInv, ClockTypes, StopsOnTime, CommandDeadline
<1> QED
  BY <1>1 DEF ClockInv, ClockTypes, ExitFits, WaitFits, LoopFits, VerdictFits, StopsOnTime

LEMMA ReadChunkStep == ClockInv /\ ReadChunk => ClockInv'
<1> SUFFICES ASSUME ClockInv, pc = "read", Consume("turn") \/ EndOfFile PROVE ClockInv'
  BY DEF ReadChunk
<1>1. CASE EndOfFile
  BY <1>1, EndOfFileStep
<1>2. CASE Consume("turn")
  <2>1. /\ UNCHANGED <<clock, child, exitedAt, left, open, heir, budget, wake>>
        /\ \/ pc' = "turn" /\ UNCHANGED verdict
           \/ \E t : pc' = "returned" /\ verdict' = Crossed(t)
    BY <1>2 DEF Consume, Return
  <2>2. pipe \in Seq(Halves) /\ Len(pipe) \in Nat
    BY LenProperties DEF ClockInv, ClockTypes
  <2>3. pipe' \in Seq(Halves) /\ Len(pipe') < Len(pipe) /\ Len(pipe') \in Nat
    BY <1>2, <2>2, ConsumeShrinks, LenProperties
  <2> QED BY <2>1, <2>2, <2>3, MoveStep, ReturnStep, CrossedIsNoTime
<1> QED BY <1>1, <1>2

LEMMA DrainChunkStep == ClockInv /\ DrainChunk => ClockInv'
<1> SUFFICES ASSUME ClockInv, pc = "drain", Consume("drain") \/ EndOfFile PROVE ClockInv'
  BY DEF DrainChunk
<1>1. CASE EndOfFile
  BY <1>1, EndOfFileStep
<1>2. CASE Consume("drain")
  <2>1. /\ UNCHANGED <<clock, child, exitedAt, left, open, heir, budget, wake>>
        /\ \/ pc' = "drain" /\ UNCHANGED verdict
           \/ \E t : pc' = "returned" /\ verdict' = Crossed(t)
    BY <1>2 DEF Consume, Return
  <2>2. pipe \in Seq(Halves) /\ Len(pipe) \in Nat
    BY LenProperties DEF ClockInv, ClockTypes
  <2>3. pipe' \in Seq(Halves) /\ Len(pipe') <= Len(pipe)
    BY <1>2, <2>2, ConsumeShrinks, LenProperties
  <2> QED BY <2>1, <2>3, MoveStep, ReturnStep, CrossedIsNoTime
<1> QED BY <1>1, <1>2

(* A turn that ends has read something, or found the child running.        *)
LEMMA TurnEndsStep == ClockInv /\ TurnEnds => ClockInv'
<1> SUFFICES ASSUME ClockInv, TurnEnds PROVE ClockInv'
  OBVIOUS
<1>1. /\ UNCHANGED <<world, budget, wake, verdict>> /\ pc = "turn" /\ pc' = "top"
      /\ clock' = clock \/ clock' = clock + 1
      /\ clock \in Nat /\ exitedAt \in Nat /\ left \in Nat /\ Len(pipe) \in Nat
      /\ CommandDeadline \in Nat /\ UNCHANGED CommandDeadline
      /\ verdict = "none"
  BY DeadlineTypes, LenProperties
     DEF TurnEnds, ClockInv, ClockTypes, VerdictFits, CommandDeadline
<1>2. ClockTypes' /\ ExitFits'
  BY <1>1 DEF ClockInv, ClockTypes, ExitFits, world
<1>3. WaitFits' /\ StopsOnTime'
  BY <1>1 DEF ClockInv, WaitFits, StopsOnTime
<1>4. LoopFits'
  BY <1>1 DEF ClockInv, LoopFits, world
<1>5. VerdictFits'
  BY <1>1 DEF VerdictFits
<1> QED BY <1>2, <1>3, <1>4, <1>5 DEF ClockInv

(* The tail is judged, and then the child is waited for.                   *)
LEMMA FlushTailStep == ClockInv /\ FlushTail => ClockInv'
<1> SUFFICES ASSUME ClockInv, FlushTail PROVE ClockInv'
  OBVIOUS
<1>1. /\ UNCHANGED <<clock, child, exitedAt, left, open, heir, pipe, budget, wake>> /\ pc = "flush"
      /\ \/ pc' = "wait" /\ UNCHANGED verdict
         \/ pc' = "returned" /\ verdict' = Crossed(Feed(tally))
  BY DEF FlushTail, Return, world
<1>2. CASE pc' = "wait" /\ UNCHANGED verdict
  <2>1. /\ clock \in Nat /\ CommandDeadline \in Nat /\ UNCHANGED CommandDeadline
        /\ clock > CommandDeadline + 2 => child = "exited"
    BY <1>1, DeadlineTypes DEF ClockInv, ClockTypes, StopsOnTime, CommandDeadline
  <2> QED
    BY <1>1, <1>2, <2>1 DEF ClockInv, ClockTypes, ExitFits, WaitFits, LoopFits,
                            VerdictFits, StopsOnTime
<1>3. pipe \in Seq(Halves)
  BY DEF ClockInv, ClockTypes
<1> QED BY <1>1, <1>2, <1>3, ReturnStep, CrossedIsNoTime

LEMMA WaitChildStep == ClockInv /\ WaitChild => ClockInv'
<1> SUFFICES ASSUME ClockInv, WaitChild PROVE ClockInv'
  OBVIOUS
<1>1. /\ UNCHANGED <<clock, child, exitedAt, left, open, heir, pipe, budget, wake>>
      /\ pc = "wait" /\ pc' = "returned"
      /\ \/ verdict' = "exit"
         \/ verdict' = "timeout" /\ child = "running" /\ clock >= CommandDeadline
  <2>1. UNCHANGED <<clock, child, exitedAt, left, open, heir, pipe, budget, wake>> /\ pc = "wait"
    BY DEF WaitChild, world
  <2>2. pc' = "returned"
    BY DEF WaitChild, Return
  <2>3. verdict' = "exit" \/ (verdict' = "timeout" /\ child = "running" /\ clock >= CommandDeadline)
    BY Zenon DEF WaitChild, Return
  <2> QED BY <2>1, <2>2, <2>3, Zenon
<1>2. CASE verdict' = "timeout" /\ child = "running" /\ clock >= CommandDeadline
  <2>1. /\ clock \in Nat /\ CommandDeadline \in Nat /\ UNCHANGED CommandDeadline
        /\ ~(clock > CommandDeadline + 2)
    BY <1>1, <1>2, DeadlineTypes DEF ClockInv, ClockTypes, StopsOnTime, CommandDeadline
  <2> QED
    BY <1>1, <1>2, <2>1 DEF ClockInv, ClockTypes, ExitFits, WaitFits, LoopFits,
                            VerdictFits, StopsOnTime
<1>3. pipe \in Seq(Halves)
  BY DEF ClockInv, ClockTypes
<1> QED BY <1>1, <1>2, <1>3, ReturnStep

(* Nothing is written any more once the child has exited without an heir.  *)
LEMMA WriteStep == ClockInv /\ Write => ClockInv'
<1> SUFFICES ASSUME ClockInv, Write PROVE ClockInv'
  OBVIOUS
<1>1. UNCHANGED <<clock, child, exitedAt, left, open, heir, engine>> /\ UNCHANGED CommandDeadline
  BY DEF Write, engine, CommandDeadline
<1>2. pipe' \in Seq(Halves)
  BY AppendProperties DEF Write, ClockInv, ClockTypes
<1>3. child # "exited" \/ heir # "none"
  BY DEF Write, Closed, ClockInv, ExitFits
<1> QED
  BY <1>1, <1>2, <1>3 DEF ClockInv, ClockTypes, ExitFits, WaitFits, LoopFits, VerdictFits,
                          StopsOnTime, engine

(* The pipe goes from hand to hand.                                        *)
LEMMA PipeStep == ClockInv /\ (Bequeath \/ ChildCloses \/ HeirCloses) => ClockInv'
<1> SUFFICES ASSUME ClockInv, Bequeath \/ ChildCloses \/ HeirCloses PROVE ClockInv'
  OBVIOUS
<1>1. /\ UNCHANGED <<clock, child, exitedAt, left, pipe, engine>> /\ UNCHANGED CommandDeadline
      /\ heir' # "none" \/ UNCHANGED heir
      /\ heir' \in {"none", "holds", "gone"} /\ open' \in BOOLEAN
      /\ child = "exited" => ~open'
      /\ heir' = "none" => heir = "none"
  <2>1. UNCHANGED engine
    BY DEF Bequeath, ChildCloses, HeirCloses
  <2>2. UNCHANGED CommandDeadline
    BY <2>1 DEF engine, CommandDeadline
  <2>3. open' \in BOOLEAN /\ (child = "exited" => ~open')
    <3>1. open' = open \/ open' = FALSE
      BY DEF Bequeath, ChildCloses, HeirCloses
    <3>2. open \in BOOLEAN /\ (child = "exited" => ~open)
      BY DEF ClockInv, ClockTypes, ExitFits
    <3>3. CASE open' = open
      BY <3>2, <3>3
    <3>4. CASE open' = FALSE
      BY <3>4
    <3> QED BY <3>1, <3>3, <3>4
  <2>4. heir' \in {"none", "holds", "gone"} /\ (heir' = "none" => heir = "none")
    BY DEF Bequeath, ChildCloses, HeirCloses, ClockInv, ClockTypes
  <2> QED
    BY <2>1, <2>2, <2>3, <2>4 DEF Bequeath, ChildCloses, HeirCloses
<1> QED
  BY <1>1 DEF ClockInv, ClockTypes, ExitFits, WaitFits, LoopFits, VerdictFits, StopsOnTime, engine

(* A child that outlived a verdict about time exits after it.              *)
LEMMA ChildExitsStep == ClockInv /\ ChildExits => ClockInv'
<1> SUFFICES ASSUME ClockInv, ChildExits PROVE ClockInv'
  OBVIOUS
<1>1. /\ UNCHANGED <<clock, heir, pipe, engine>> /\ UNCHANGED CommandDeadline
      /\ child = "running" /\ child' = "exited" /\ exitedAt' = clock /\ open' = FALSE
      /\ left' = Len(pipe) /\ Len(pipe) \in Nat
      /\ clock \in Nat /\ CommandDeadline \in Nat
      /\ budget.deadline \in Nat \cup {NoLimit}
  BY DeadlineTypes, LenProperties DEF ChildExits, engine, CommandDeadline, ClockInv, ClockTypes
<1>2. ClockTypes'
  BY <1>1 DEF ClockInv, ClockTypes, engine
<1>4. ExitFits' /\ WaitFits' /\ LoopFits'
  BY <1>1 DEF ClockInv, ClockTypes, ExitFits, WaitFits, LoopFits, engine
<1>5. StopsOnTime'
  BY <1>1 DEF ClockInv, StopsOnTime, engine
<1>3. VerdictFits'
  BY <1>1 DEF ClockInv, VerdictFits, Over, engine
<1> QED BY <1>2, <1>3, <1>4, <1>5 DEF ClockInv

(* Time passes while the engine waits.                                     *)
LEMMA TickStep == ClockInv /\ Tick => ClockInv'
<1> SUFFICES ASSUME ClockInv, Tick PROVE ClockInv'
  OBVIOUS
<1>1. /\ UNCHANGED <<world, engine>> /\ UNCHANGED CommandDeadline
      /\ clock' = clock + 1 /\ Blocked
      /\ clock \in Nat /\ CommandDeadline \in Nat /\ wake \in Nat /\ exitedAt \in Nat
      /\ budget.deadline \in Nat \cup {NoLimit}
  BY DeadlineTypes DEF Tick, CommandDeadline, engine, ClockInv, ClockTypes
<1>2. ClockTypes' /\ WaitFits' /\ ExitFits'
  BY <1>1 DEF Blocked, ClockInv, ClockTypes, ExitFits, WaitFits, engine, world
<1>3. LoopFits'
  <2>1. child = "exited" /\ heir = "none" => Ready
    BY DEF ClockInv, ExitFits, Ready, Closed
  <2> QED BY <1>1, <2>1 DEF Blocked, LoopFits, world, engine
<1>4. verdict = "none" /\ UNCHANGED verdict
  BY <1>1 DEF Blocked, ClockInv, VerdictFits, engine
<1>5. VerdictFits'
  BY <1>1, <1>4 DEF VerdictFits
<1>6. StopsOnTime'
  <2>1. CASE pc = "select" /\ clock <= wake
    BY <1>1, <2>1 DEF ClockInv, WaitFits, StopsOnTime
  <2>2. CASE pc = "drain"
    BY <1>1, <2>2 DEF ClockInv, ExitFits, StopsOnTime, world, engine
  <2>3. CASE pc = "wait" /\ clock < CommandDeadline
    BY <1>1, <2>3 DEF StopsOnTime
  <2> QED BY <1>1, <2>1, <2>2, <2>3 DEF Blocked
<1> QED BY <1>2, <1>3, <1>5, <1>6 DEF ClockInv

(* The inductive invariant of the clock holds in every reachable state.    *)
THEOREM ClockInvariance == Spec => []ClockInv
<1>1. ClockInv /\ [Next]_vars => ClockInv'
  <2> SUFFICES ASSUME ClockInv, [Next]_vars PROVE ClockInv'
    OBVIOUS
  <2>1. CASE Engine
    BY <2>1, TopStep, SelectStep, PollChildStep, ReadChunkStep, TurnEndsStep,
       DrainChunkStep, FlushTailStep, WaitChildStep DEF Engine
  <2>2. CASE Write \/ Bequeath \/ ChildCloses \/ ChildExits \/ HeirCloses \/ Tick
    BY <2>2, WriteStep, PipeStep, ChildExitsStep, TickStep
  <2>3. CASE UNCHANGED vars
    <3>1. UNCHANGED CommandDeadline
      BY <2>3 DEF vars, engine, CommandDeadline
    <3> QED
      BY <2>3, <3>1 DEF vars, engine, world, ClockInv, ClockTypes, ExitFits, WaitFits,
                        LoopFits, VerdictFits, StopsOnTime
  <2> QED BY <2>1, <2>2, <2>3 DEF Next
<1> QED BY InitClock, <1>1, PTL DEF Spec

(* The engine does not wait past the command deadline for a command that   *)
(* is still running.                                                       *)
THEOREM StopsInTime == Spec => []StopsOnTime
<1>1. ClockInv => StopsOnTime
  BY DEF ClockInv
<1> QED BY ClockInvariance, <1>1, PTL

(* A command that finished before its deadline is never stopped for it;    *)
(* one that finished before the command deadline and left no heir of the   *)
(* pipe is stopped for that only while what it left is being read.         *)
THEOREM FinishedAreBelieved == Spec => []FinishedIsBelieved
<1>1. ClockInv => FinishedIsBelieved
  <2> SUFFICES ASSUME ClockInv, verdict = "timeout", child = "exited", heir = "none"
               PROVE  CommandDeadline <= exitedAt + 1 + (left - Len(pipe))
    BY DEF ClockInv, VerdictFits, FinishedIsBelieved
  <2>1. /\ CommandDeadline \in Nat /\ exitedAt \in Nat /\ left \in Nat /\ Len(pipe) \in Nat
        /\ CommandDeadline + Len(pipe) <= exitedAt + left + 1
    BY DeadlineTypes, LenProperties DEF ClockInv, ClockTypes, VerdictFits
  <2> QED BY <2>1
<1> QED BY ClockInvariance, <1>1, PTL

-----------------------------------------------------------------------------
(***************************************************************************)
(* Counting.  A tally is what a recursive function makes of a sequence of  *)
(* halves; what it makes of all of them is shown by induction on their     *)
(* number (module Recursion).                                              *)
(***************************************************************************)
(* Tallies without a bound, and how many halves of lines one accounts for. *)
Counts == [turns : Nat, tokens : Nat, tail : {"none", "turn", "token"}]

Weight(t) == IF t.tail = "none" THEN t.turns + t.tokens ELSE t.turns + t.tokens + 1

LEMMA WeightType == \A t \in Counts : Weight(t) \in Nat
BY DEF Counts, Weight

(* The end of a line takes nothing away.                                  *)
LEMMA FeedTypes ==
  ASSUME NEW t \in Counts
  PROVE  /\ Feed(t) \in Counts
         /\ t.turns <= Feed(t).turns /\ t.tokens <= Feed(t).tokens
         /\ Weight(Feed(t)) <= Weight(t)
         /\ t.tail = "none" => Feed(t) = t
<1>1. t.turns \in Nat /\ t.tokens \in Nat /\ t.tail \in {"none", "turn", "token"}
      /\ t = [turns |-> t.turns, tokens |-> t.tokens, tail |-> t.tail]
  BY DEF Counts
<1>2. CASE t.tail = "none"
  BY <1>1, <1>2 DEF Feed, Weight, Counts
<1>3. CASE t.tail = "turn"
  BY <1>1, <1>3 DEF Feed, Weight, Counts
<1>4. CASE t.tail = "token"
  BY <1>1, <1>4 DEF Feed, Weight, Counts
<1> QED BY <1>1, <1>2, <1>3, <1>4

(* A half of a line adds at most itself, and takes nothing away.           *)
LEMMA JoinTypes ==
  ASSUME NEW t \in Counts, NEW half \in Halves
  PROVE  /\ Join(t, half) \in Counts
         /\ t.turns <= Join(t, half).turns /\ t.tokens <= Join(t, half).tokens
         /\ Weight(Join(t, half)) <= Weight(t) + 1
<1>1. t.turns \in Nat /\ t.tokens \in Nat /\ t.tail \in {"none", "turn", "token"}
  BY DEF Counts
<1>2. CASE half = "nl"
  BY <1>2, FeedTypes DEF Join, Weight, Counts
<1>3. CASE half \in {"turn", "token"}
  <2>1. Join(t, half) = [t EXCEPT !.tail = half]
    BY <1>3 DEF Join
  <2>2. [t EXCEPT !.tail = half] = [turns |-> t.turns, tokens |-> t.tokens, tail |-> half]
    BY DEF Counts
  <2> QED BY <1>1, <1>3, <2>1, <2>2 DEF Counts, Weight
<1> QED BY <1>2, <1>3 DEF Halves

(* The steps of a count. *)
Counting(f, t, s) ==
  /\ f \in [0..Len(s) -> Counts]
  /\ f[0] = t
  /\ \A i \in 1..Len(s) : f[i] = Join(f[i - 1], s[i])

(* A count is the last of its steps. *)
LEMMA JoinedSteps ==
  ASSUME NEW t \in Counts, NEW s \in Seq(Halves)
  PROVE  \E f : Counting(f, t, s) /\ Joined(t, s) = f[Len(s)]
<1> DEFINE n == Len(s)
           step == [i \in 1..n |-> [u \in Counts |-> Join(u, s[i])]]
           IsRun(f) == f = [i \in 0..n |-> IF i = 0 THEN t ELSE Join(f[i - 1], s[i])]
<1>1. n \in Nat /\ \A i \in 1..n : s[i] \in Halves
  BY LenProperties, ElementOfSeq
<1>2. step \in [1..n -> [Counts -> Counts]]
  <2>1. \A i \in 1..n : [u \in Counts |-> Join(u, s[i])] \in [Counts -> Counts]
    BY <1>1, JoinTypes
  <2> QED BY <2>1
<1>3. \E f : IsRun(f)
  <2>1. PICK f : Stepwise(f, n, t, step, Counts)
    <3> HIDE DEF n, step
    <3> QED BY <1>1, <1>2, StepwiseExists
  <2>2. ASSUME NEW i \in 0..n
        PROVE  f[i] = IF i = 0 THEN t ELSE Join(f[i - 1], s[i])
    <3>1. CASE i = 0
      BY <2>1, <3>1 DEF Stepwise
    <3>2. CASE i # 0
      <4>1. i \in 1..n /\ i - 1 \in 0..n
        BY <1>1, <3>2
      <4>2. f[i - 1] \in Counts /\ f[i] = step[i][f[i - 1]]
        BY <2>1, <4>1 DEF Stepwise
      <4>3. step[i][f[i - 1]] = Join(f[i - 1], s[i])
        BY <4>1, <4>2
      <4> QED BY <3>2, <4>2, <4>3
    <3> QED BY <3>1, <3>2
  <2>3. IsRun(f)
    BY <2>1, <2>2 DEF Stepwise
  <2> QED BY <2>3
<1>4. \E f : IsRun(f) /\ Joined(t, s) = f[n]
  BY <1>3, Zenon DEF Joined
<1>5. PICK f : IsRun(f) /\ Joined(t, s) = f[n]
  BY <1>4
<1>6. f[0] = t /\ \A i \in 1..n : f[i] = Join(f[i - 1], s[i])
  <2>1. \A i \in 0..n : f[i] = IF i = 0 THEN t ELSE Join(f[i - 1], s[i])
    BY <1>5
  <2>2. 0 \in 0..n /\ \A i \in 1..n : i \in 0..n /\ i # 0
    BY <1>1
  <2> QED BY <2>1, <2>2
<1>7. \A i \in 0..n : f[i] \in Counts
  <2> DEFINE S == {i \in 0..n : f[i] \in Counts}
  <2>1. 0 \in S
    BY <1>1, <1>6
  <2>2. ASSUME NEW i \in 1..n, i - 1 \in S PROVE i \in S
    <3>1. f[i] = Join(f[i - 1], s[i]) /\ f[i - 1] \in Counts /\ s[i] \in Halves /\ i \in 0..n
      BY <1>1, <1>6, <2>2
    <3> QED BY <3>1, JoinTypes
  <2>3. \A i \in 0..n : i \in S
    <3> HIDE DEF S, n
    <3> QED BY <1>1, <2>1, <2>2, Induction
  <2> QED BY <2>3
<1>8. DOMAIN f = 0..n /\ f = [i \in 0..n |-> f[i]]
  BY <1>5
<1>9. Counting(f, t, s)
  BY <1>6, <1>7, <1>8 DEF Counting
<1> QED BY <1>5, <1>9

(* s is how r begins. *)
Begins(r, s) == Len(s) <= Len(r) /\ \A i \in 1..Len(s) : s[i] = r[i]

Agree(f, g, n) == \A i \in 0..n : f[i] = g[i]

(* Two counts of the same halves take the same steps.                      *)
LEMMA CountingUnique ==
  ASSUME NEW s \in Seq(Halves), NEW r \in Seq(Halves), Begins(r, s), NEW t, NEW f, NEW g, Counting(f, t, s), Counting(g, t, r)
  PROVE  Agree(f, g, Len(s))
<1> DEFINE S == {i \in 0..Len(s) : f[i] = g[i]}
<1>1. Len(s) \in Nat /\ Len(r) \in Nat
  BY LenProperties
<1>2. 0 \in S
  BY <1>1 DEF Counting
<1>3. ASSUME NEW i \in 1..Len(s), i - 1 \in S PROVE i \in S
  <2>1. i \in 1..Len(r) /\ i \in 0..Len(s) /\ f[i - 1] = g[i - 1] /\ s[i] = r[i]
    BY <1>1, <1>3 DEF Begins
  <2>2. f[i] = Join(f[i - 1], s[i]) /\ g[i] = Join(g[i - 1], r[i])
    BY <2>1 DEF Counting
  <2> QED BY <2>1, <2>2
<1>4. \A i \in 0..Len(s) : i \in S
  <2> HIDE DEF S
  <2> QED BY <1>1, <1>2, <1>3, Induction
<1> QED BY <1>4 DEF Agree

(* What is counted is at most what was written.                            *)
LEMMA JoinedBound ==
  ASSUME NEW t \in Counts, NEW s \in Seq(Halves)
  PROVE  Joined(t, s) \in Counts /\ Weight(Joined(t, s)) <= Weight(t) + Len(s)
<1>1. PICK f : Counting(f, t, s) /\ Joined(t, s) = f[Len(s)]
  BY JoinedSteps
<1>2. Len(s) \in Nat /\ \A i \in 1..Len(s) : s[i] \in Halves
  BY LenProperties, ElementOfSeq
<1> DEFINE S == {i \in 0..Len(s) : Weight(f[i]) <= Weight(t) + i}
<1> USE WeightType
<1>3. 0 \in S
  BY <1>1, <1>2 DEF Counting
<1>4. ASSUME NEW i \in 1..Len(s), i - 1 \in S PROVE i \in S
  <2>1. f[i - 1] \in Counts /\ f[i] = Join(f[i - 1], s[i]) /\ i \in 0..Len(s)
    BY <1>1, <1>2 DEF Counting
  <2>2. Weight(f[i]) <= Weight(f[i - 1]) + 1
    BY <2>1, <1>2, JoinTypes
  <2>3. f[i] \in Counts
    BY <1>1, <2>1 DEF Counting
  <2>4. Weight(f[i]) \in Nat /\ Weight(f[i - 1]) \in Nat /\ Weight(t) \in Nat
    BY <2>1, <2>3
  <2> QED BY <1>4, <2>1, <2>2, <2>4
<1>5. \A i \in 0..Len(s) : i \in S
  <2> HIDE DEF S
  <2> QED BY <1>2, <1>3, <1>4, Induction
<1>6. Len(s) \in 0..Len(s)
  BY <1>2
<1> QED BY <1>1, <1>5, <1>6 DEF Counting

(* The steps of a chunk, and the tally after it. *)
LEMMA TakenSteps ==
  ASSUME NEW t \in Counts, NEW c \in Seq(Halves)
  PROVE  \E f : /\ f \in [0..Len(c) -> Counts]
                /\ f[0] = t
                /\ \A i \in 1..Len(c) : f[i] = Take(f[i - 1], c[i])
                /\ Taken(t, c) = f[Len(c)]
<1> DEFINE n == Len(c)
           step == [i \in 1..n |-> [u \in Counts |-> Take(u, c[i])]]
           IsRun(f) == f = [i \in 0..n |-> IF i = 0 THEN t ELSE Take(f[i - 1], c[i])]
<1>1. n \in Nat /\ \A i \in 1..n : c[i] \in Halves
  BY LenProperties, ElementOfSeq
<1>2. \A u \in Counts, i \in 1..n : Take(u, c[i]) \in Counts
  BY <1>1, JoinTypes DEF Take
<1>3. step \in [1..n -> [Counts -> Counts]]
  <2>1. \A i \in 1..n : [u \in Counts |-> Take(u, c[i])] \in [Counts -> Counts]
    BY <1>2
  <2> QED BY <2>1
<1>4. \E f : IsRun(f)
  <2>1. PICK f : Stepwise(f, n, t, step, Counts)
    <3> HIDE DEF n, step
    <3> QED BY <1>1, <1>3, StepwiseExists
  <2>2. ASSUME NEW i \in 0..n
        PROVE  f[i] = IF i = 0 THEN t ELSE Take(f[i - 1], c[i])
    <3>1. CASE i = 0
      BY <2>1, <3>1 DEF Stepwise
    <3>2. CASE i # 0
      <4>1. i \in 1..n /\ i - 1 \in 0..n
        BY <1>1, <3>2
      <4>2. f[i - 1] \in Counts /\ f[i] = step[i][f[i - 1]]
        BY <2>1, <4>1 DEF Stepwise
      <4>3. step[i][f[i - 1]] = Take(f[i - 1], c[i])
        BY <4>1, <4>2
      <4> QED BY <3>2, <4>2, <4>3
    <3> QED BY <3>1, <3>2
  <2>3. IsRun(f)
    BY <2>1, <2>2 DEF Stepwise
  <2> QED BY <2>3
<1>5. \E f : IsRun(f) /\ Taken(t, c) = f[n]
  BY <1>4, Zenon DEF Taken
<1>6. PICK f : IsRun(f) /\ Taken(t, c) = f[n]
  BY <1>5
<1>7. f[0] = t /\ \A i \in 1..n : f[i] = Take(f[i - 1], c[i])
  <2>1. \A i \in 0..n : f[i] = IF i = 0 THEN t ELSE Take(f[i - 1], c[i])
    BY <1>6
  <2>2. 0 \in 0..n /\ \A i \in 1..n : i \in 0..n /\ i # 0
    BY <1>1
  <2> QED BY <2>1, <2>2
<1>8. \A i \in 0..n : f[i] \in Counts
  <2> DEFINE S == {i \in 0..n : f[i] \in Counts}
  <2>1. 0 \in S
    BY <1>1, <1>7
  <2>2. ASSUME NEW i \in 1..n, i - 1 \in S PROVE i \in S
    <3>1. f[i] = Take(f[i - 1], c[i]) /\ f[i - 1] \in Counts /\ i \in 0..n
      BY <1>1, <1>7, <2>2
    <3> QED BY <1>2, <3>1
  <2>3. \A i \in 0..n : i \in S
    <3> HIDE DEF S, n
    <3> QED BY <1>1, <2>1, <2>2, Induction
  <2> QED BY <2>3
<1>9. f \in [0..n -> Counts]
  <2>1. DOMAIN f = 0..n /\ f = [i \in 0..n |-> f[i]]
    BY <1>6
  <2> QED BY <1>8, <2>1
<1> QED BY <1>6, <1>7, <1>9

(* However a read splits the output, as long as no limit is crossed a      *)
(* chunk continues the count, and past a limit the tally only lags behind. *)
THEOREM TakenIsCounted ==
  ASSUME NEW t \in Counts, NEW s \in Seq(Halves), NEW c \in Seq(Halves)
  PROVE  LET u == Taken(Joined(t, s), c)
             r == Joined(t, s \o c)
         IN  /\ u \in Counts
             /\ u.turns <= r.turns /\ u.tokens <= r.tokens
             /\ Crossed(u) = "none" => u = r
<1> DEFINE m == Len(s)
           n == Len(c)
<1>1. PICK f : Counting(f, t, s) /\ Joined(t, s) = f[m]
  BY JoinedSteps
<1>2. /\ s \o c \in Seq(Halves) /\ Len(s \o c) = m + n
      /\ m \in Nat /\ n \in Nat
      /\ \A i \in 1..m : (s \o c)[i] = s[i]
      /\ \A i \in 1..n : (s \o c)[m + i] = c[i] /\ c[i] \in Halves
  <2>1. m \in Nat /\ n \in Nat
    BY LenProperties
  <2>2. \A i \in 1..m : (s \o c)[i] = s[i]
    BY <2>1, ConcatProperties
  <2>3. ASSUME NEW i \in 1..n PROVE (s \o c)[m + i] = c[i] /\ c[i] \in Halves
    <3>1. m + i \in 1..(m + n) /\ ~(m + i <= m) /\ (m + i) - m = i
      BY <2>1
    <3> QED BY <3>1, ConcatProperties, ElementOfSeq
  <2> QED BY <2>1, <2>2, <2>3, ConcatProperties
<1>3. PICK g : Counting(g, t, s \o c) /\ Joined(t, s \o c) = g[m + n]
  BY <1>2, JoinedSteps
<1>4. f[m] = g[m]
  <2>1. \A i \in 0..m : f[i] = g[i]
    <3>1. Begins(s \o c, s)
      BY <1>2 DEF Begins
    <3>2. Counting(f, t, s) /\ Counting(g, t, s \o c) /\ s \o c \in Seq(Halves)
      BY <1>1, <1>2, <1>3
    <3> HIDE DEF m, n
    <3>3. Agree(f, g, Len(s))
      BY <3>1, <3>2, CountingUnique
    <3> QED BY <3>3 DEF m, Agree
  <2> QED BY <1>2, <2>1
<1>5. f[m] \in Counts
  BY <1>1, <1>2 DEF Counting
<1>6. PICK h : /\ h \in [0..n -> Counts]
               /\ h[0] = f[m]
               /\ \A i \in 1..n : h[i] = Take(h[i - 1], c[i])
               /\ Taken(f[m], c) = h[n]
  BY <1>5, TakenSteps
<1> DEFINE Lags(u, r) == /\ u.turns <= r.turns /\ u.tokens <= r.tokens
                         /\ Crossed(u) = "none" => u = r
           S == {i \in 0..n : Lags(h[i], g[m + i])}
<1>7. 0 \in S
  BY <1>2, <1>4, <1>5, <1>6 DEF Counts
<1>8. ASSUME NEW i \in 1..n, i - 1 \in S PROVE i \in S
  <2>1. /\ i \in 0..n /\ i - 1 \in 0..n /\ m + i \in 1..(m + n)
        /\ m + i - 1 \in 0..(m + n) /\ m + (i - 1) = m + i - 1
    BY <1>2
  <2>2. g[m + i] = Join(g[m + i - 1], c[i]) /\ g[m + i - 1] \in Counts /\ c[i] \in Halves
    <3>1. (s \o c)[m + i] = c[i] /\ c[i] \in Halves /\ Len(s \o c) = m + n
      BY <1>2
    <3>2. /\ \A j \in 1..Len(s \o c) : g[j] = Join(g[j - 1], (s \o c)[j])
          /\ g \in [0..Len(s \o c) -> Counts]
      BY <1>3 DEF Counting
    <3>3. g[m + i] = Join(g[m + i - 1], (s \o c)[m + i])
      BY <2>1, <3>1, <3>2
    <3> QED BY <2>1, <3>1, <3>2, <3>3
  <2>3. h[i] = Take(h[i - 1], c[i]) /\ h[i - 1] \in Counts
    BY <1>6, <2>1
  <2>4. Lags(h[i - 1], g[m + i - 1])
    BY <1>8, <2>1
  <2>5. Lags(h[i], g[m + i])
    <3>1. CASE Crossed(h[i - 1]) = "none"
      <4>1. h[i] = g[m + i]
        BY <2>2, <2>3, <2>4, <3>1 DEF Take
      <4>2. g[m + i] \in Counts
        BY <2>2, JoinTypes
      <4> QED BY <4>1, <4>2 DEF Counts
    <3>2. CASE Crossed(h[i - 1]) # "none"
      <4>1. h[i] = h[i - 1]
        BY <2>3, <3>2 DEF Take
      <4>2. g[m + i] \in Counts /\ g[m + i - 1].turns <= g[m + i].turns
            /\ g[m + i - 1].tokens <= g[m + i].tokens
        BY <2>2, JoinTypes
      <4>3. /\ h[i - 1].turns \in Nat /\ h[i - 1].tokens \in Nat
            /\ g[m + i].turns \in Nat /\ g[m + i].tokens \in Nat
            /\ g[m + i - 1].turns \in Nat /\ g[m + i - 1].tokens \in Nat
        BY <2>2, <2>3, <4>2 DEF Counts
      <4> QED BY <2>4, <3>2, <4>1, <4>2, <4>3
    <3> QED BY <3>1, <3>2
  <2> QED BY <2>1, <2>5
<1>9. \A i \in 0..n : i \in S
  <2> HIDE DEF S, n
  <2> QED BY <1>2, <1>7, <1>8, Induction
<1>10. n \in 0..n /\ h[n] \in Counts
  BY <1>2, <1>6
<1> QED BY <1>1, <1>3, <1>6, <1>9, <1>10

-----------------------------------------------------------------------------
(***************************************************************************)
(* The spool.                                                              *)
(***************************************************************************)
(* What was written is in the spool or still in the pipe, in its order.    *)
OutputFits ==
  /\ pipe \in Seq(Halves) /\ written \in Seq(Halves) /\ spool \in Seq(Halves)
  /\ written = spool \o pipe
  /\ Len(written) <= MaxOutput

InLoop == pc \in {"top", "select", "poll", "read", "turn", "drain", "flush"}

(* As long as the stream goes on the tally is the honest count, within the *)
(* limits; past a limit it may lag behind the count of the spool.          *)
TallyFits ==
  /\ tally \in Counts
  /\ InLoop => tally = Joined(Zero, spool)
  /\ pc # "returned" \/ verdict = "exit" => Crossed(tally) = "none"
  /\ pc = "wait" \/ verdict = "exit" => tally = CountSpool(spool)
  /\ tally.turns <= CountSpool(spool).turns
  /\ tally.tokens <= CountSpool(spool).tokens
  /\ verdict = "turn_exhausted" => Over(tally.turns, budget.turn)
  /\ verdict = "token_exhausted" => Over(tally.tokens, budget.token)

(* The rest of the types. *)
RestFits ==
  /\ clock \in 0..MaxTime /\ exitedAt \in 0..MaxTime /\ left \in 0..MaxOutput
  /\ pc \in {"top", "select", "poll", "read", "turn", "drain", "flush", "wait", "returned"}
  /\ budget \in Budgets
  /\ verdict \in {"none", "exit", "timeout"} \cup Exhausted

SpoolInv == OutputFits /\ TallyFits /\ RestFits

LEMMA ZeroTypes == Zero \in Counts /\ Weight(Zero) = 0
BY DEF Zero, Counts, Weight

(* Nothing has been counted of nothing.                                    *)
LEMMA JoinedNothing == Joined(Zero, <<>>) = Zero
<1>1. <<>> \in Seq(Halves) /\ Len(<<>>) = 0
  BY EmptySeq
<1>2. PICK f : Counting(f, Zero, <<>>) /\ Joined(Zero, <<>>) = f[Len(<<>>)]
  BY <1>1, ZeroTypes, JoinedSteps
<1> QED BY <1>1, <1>2 DEF Counting

(* A count is within what was counted.                                     *)
LEMMA CountSpoolBound ==
  ASSUME NEW s \in Seq(Halves)
  PROVE  /\ CountSpool(s) \in Counts /\ Weight(CountSpool(s)) <= Len(s)
         /\ Joined(Zero, s).turns <= CountSpool(s).turns
         /\ Joined(Zero, s).tokens <= CountSpool(s).tokens
<1>1. Joined(Zero, s) \in Counts /\ Weight(Joined(Zero, s)) <= Len(s) /\ Len(s) \in Nat
  BY ZeroTypes, JoinedBound, LenProperties
<1>2. Weight(CountSpool(s)) \in Nat /\ Weight(Joined(Zero, s)) \in Nat
  BY <1>1, FeedTypes, WeightType DEF CountSpool
<1> QED BY <1>1, <1>2, FeedTypes DEF CountSpool

LEMMA LimitTypes ==
  ASSUME budget \in Budgets
  PROVE  budget.turn \in Nat \cup {NoLimit} /\ budget.token \in Nat \cup {NoLimit}
BY StreamAssumption DEF StreamAssumption

(* More of what is over a limit is over it.                                *)
LEMMA OverGrows ==
  ASSUME NEW limit \in Nat \cup {NoLimit}, NEW m \in Nat, NEW n \in Nat, m <= n, Over(m, limit)
  PROVE  Over(n, limit)
BY DEF Over

(* The first state.                                                        *)
LEMMA InitSpool == Init => SpoolInv
<1> SUFFICES ASSUME Init PROVE SpoolInv
  OBVIOUS
<1>1. <<>> \in Seq(Halves) /\ Len(<<>>) = 0 /\ <<>> \o <<>> = <<>>
  BY EmptySeq, ConcatEmptySeq
<1>2. OutputFits
  BY <1>1, StreamAssumption DEF Init, OutputFits, StreamAssumption
<1>3. Crossed(Zero) = "none"
  <2>1. budget \in Budgets
    BY DEF Init
  <2>2. ~Over(0, budget.turn) /\ ~Over(0, budget.token)
    BY <2>1, LimitTypes DEF Over
  <2> QED BY <2>2 DEF Crossed, Zero
<1>4. TallyFits
  <2>1. tally = Zero /\ spool = <<>> /\ verdict = "none" /\ pc = "top"
    BY DEF Init
  <2> QED BY <2>1, <1>1, <1>3, ZeroTypes, JoinedNothing, CountSpoolBound DEF TallyFits
<1>5. RestFits
  BY StreamAssumption DEF Init, RestFits, StreamAssumption
<1> QED BY <1>2, <1>4, <1>5 DEF SpoolInv

(* A step that neither reads nor counts; the stream may return from the    *)
(* loop for the time, and from the wait with the child's exit.             *)
LEMMA CountlessStep ==
  ASSUME SpoolInv, UNCHANGED <<pipe, written, spool, tally, budget>>, RestFits',
         \/ UNCHANGED <<pc, verdict>>
         \/ InLoop /\ InLoop' /\ UNCHANGED verdict
         \/ pc # "returned" /\ pc' = "returned" /\ verdict' \in {"deadline_exhausted", "timeout"}
         \/ pc = "wait" /\ pc' = "returned" /\ verdict' = "exit"
  PROVE  SpoolInv'
<1>1. OutputFits'
  BY DEF SpoolInv, OutputFits
<1>2. /\ Crossed(tally)' = Crossed(tally)
      /\ Over(tally.turns, budget.turn)' = Over(tally.turns, budget.turn)
      /\ Over(tally.tokens, budget.token)' = Over(tally.tokens, budget.token)
      /\ CountSpool(spool)' = CountSpool(spool)
      /\ Joined(Zero, spool)' = Joined(Zero, spool)
  BY DEF Crossed, Over
<1>3. TallyFits'
  <2>1. TallyFits
    BY DEF SpoolInv
  <2>2. CASE UNCHANGED <<pc, verdict>>
    BY <1>2, <2>1, <2>2 DEF TallyFits, InLoop
  <2>3. CASE InLoop /\ InLoop' /\ UNCHANGED verdict
    BY <1>2, <2>1, <2>3 DEF TallyFits, InLoop
  <2>4. CASE pc' = "returned" /\ verdict' \in {"deadline_exhausted", "timeout"}
    BY <1>2, <2>1, <2>4 DEF TallyFits, InLoop
  <2>5. CASE pc = "wait" /\ pc' = "returned" /\ verdict' = "exit"
    BY <1>2, <2>1, <2>5 DEF TallyFits, InLoop
  <2> QED BY <2>2, <2>3, <2>4, <2>5
<1> QED BY <1>1, <1>3 DEF SpoolInv

LEMMA ReturnedIsOver == pc = "returned" => ~InLoop /\ pc # "wait"
BY DEF InLoop

LEMMA TopCounts == SpoolInv /\ Top => SpoolInv'
<1> SUFFICES ASSUME SpoolInv, Top PROVE SpoolInv'
  OBVIOUS
<1>1. UNCHANGED <<clock, world, budget, spool, tally>> /\ pc = "top"
  BY DEF Top
<1>2. \/ pc' = "drain" /\ UNCHANGED verdict
      \/ pc' = "select" /\ UNCHANGED verdict
      \/ pc' = "returned" /\ verdict' \in {"deadline_exhausted", "timeout"}
  BY DEF Top, Return
<1>3. RestFits'
  BY <1>1, <1>2 DEF SpoolInv, RestFits, world, Exhausted
<1> QED BY <1>1, <1>2, <1>3, CountlessStep DEF InLoop, world

LEMMA LoopCounts ==
  SpoolInv /\ (Select \/ PollChild \/ TurnEnds \/ (EndOfFile /\ InLoop)) => SpoolInv'
<1> SUFFICES ASSUME SpoolInv, Select \/ PollChild \/ TurnEnds \/ (EndOfFile /\ InLoop)
             PROVE  SpoolInv'
  OBVIOUS
<1>1. UNCHANGED <<world, budget, spool, tally, verdict>> /\ InLoop
  BY DEF Select, PollChild, TurnEnds, EndOfFile, InLoop
<1>2. pc' \in {"read", "poll", "flush", "turn", "top"}
  BY DEF Select, PollChild, TurnEnds, EndOfFile
<1>3. clock' \in 0..MaxTime
  <2>1. clock' = clock \/ (clock' = clock + 1 /\ clock' <= MaxTime)
    BY DEF Select, PollChild, TurnEnds, EndOfFile
  <2> QED BY <2>1, StreamAssumption DEF SpoolInv, RestFits, StreamAssumption
<1>4. RestFits'
  BY <1>1, <1>2, <1>3 DEF SpoolInv, RestFits, world
<1> QED BY <1>1, <1>2, <1>4, CountlessStep DEF InLoop, world

LEMMA WaitChildCounts == SpoolInv /\ WaitChild => SpoolInv'
<1> SUFFICES ASSUME SpoolInv, WaitChild PROVE SpoolInv'
  OBVIOUS
<1>1. UNCHANGED <<clock, world, budget, spool, tally>> /\ pc = "wait"
  BY DEF WaitChild
<1>2. pc' = "returned" /\ verdict' \in {"exit", "timeout"}
  BY DEF WaitChild, Return
<1>3. RestFits'
  BY <1>1, <1>2 DEF SpoolInv, RestFits, world
<1> QED BY <1>1, <1>2, <1>3, CountlessStep DEF world

(* What is unread was written.                                             *)
LEMMA PipeIsBounded == OutputFits => Len(pipe) \in 0..MaxOutput
<1> SUFFICES ASSUME OutputFits PROVE Len(pipe) \in 0..MaxOutput
  OBVIOUS
<1>1. /\ Len(spool) \in Nat /\ Len(pipe) \in Nat /\ MaxOutput \in Nat
      /\ Len(spool \o pipe) = Len(spool) + Len(pipe) /\ Len(spool \o pipe) <= MaxOutput
  BY LenProperties, ConcatProperties, StreamAssumption DEF OutputFits, StreamAssumption
<1> QED BY <1>1

(* The command and time do not count. *)
LEMMA WorldCounts ==
  SpoolInv /\ (Bequeath \/ ChildCloses \/ ChildExits \/ HeirCloses \/ Tick) => SpoolInv'
<1> SUFFICES ASSUME SpoolInv, Bequeath \/ ChildCloses \/ ChildExits \/ HeirCloses \/ Tick
             PROVE  SpoolInv'
  OBVIOUS
<1>1. UNCHANGED <<pipe, written, engine>>
  BY DEF Bequeath, ChildCloses, ChildExits, HeirCloses, Tick, world
<1>2. clock' \in 0..MaxTime /\ exitedAt' \in 0..MaxTime /\ left' \in 0..MaxOutput
  <2>1. \/ UNCHANGED <<clock, exitedAt, left>>
        \/ UNCHANGED clock /\ exitedAt' = clock /\ left' = Len(pipe)
        \/ UNCHANGED <<exitedAt, left>> /\ clock < MaxTime /\ clock' = clock + 1 /\ Tick
    BY DEF Bequeath, ChildCloses, ChildExits, HeirCloses, Tick, world
  <2>2. Len(pipe) \in 0..MaxOutput
    BY PipeIsBounded DEF SpoolInv
  <2> QED BY <2>1, <2>2, StreamAssumption DEF SpoolInv, RestFits, StreamAssumption
<1>3. RestFits'
  BY <1>1, <1>2 DEF SpoolInv, RestFits, engine
<1> QED BY <1>1, <1>3, CountlessStep DEF engine

(* What is written goes to the end of the pipe.                            *)
LEMMA WriteCounts == SpoolInv /\ Write => SpoolInv'
<1> SUFFICES ASSUME SpoolInv, Write PROVE SpoolInv'
  OBVIOUS
<1>1. PICK half \in Halves : pipe' = Append(pipe, half) /\ written' = Append(written, half)
  BY DEF Write
<1>2. UNCHANGED <<clock, exitedAt, left, engine>> /\ Len(written) < MaxOutput
  BY DEF Write
<1>3. OutputFits'
  <2>1. /\ pipe \in Seq(Halves) /\ written \in Seq(Halves) /\ spool \in Seq(Halves)
        /\ written = spool \o pipe
    BY DEF SpoolInv, OutputFits
  <2>2. pipe' \in Seq(Halves) /\ written' \in Seq(Halves) /\ Len(written') = Len(written) + 1
    BY <1>1, <2>1, AppendProperties
  <2>3. written' = spool \o pipe'
    <3>1. <<half>> \in Seq(Halves)
      OBVIOUS
    <3>2. pipe' = pipe \o <<half>> /\ written' = written \o <<half>>
      BY <1>1, <2>1, AppendIsConcat
    <3>3. (spool \o pipe) \o <<half>> = spool \o (pipe \o <<half>>)
      BY <2>1, <3>1, ConcatAssociative
    <3> QED BY <2>1, <3>2, <3>3
  <2>4. Len(written) \in Nat /\ MaxOutput \in Nat
    BY <2>1, LenProperties, StreamAssumption DEF StreamAssumption
  <2> QED BY <1>2, <2>1, <2>2, <2>3, <2>4 DEF OutputFits, engine
<1>4. TallyFits'
  <2>1. /\ Crossed(tally)' = Crossed(tally)
        /\ CountSpool(spool)' = CountSpool(spool)
        /\ Joined(Zero, spool)' = Joined(Zero, spool)
        /\ UNCHANGED <<pc, tally, verdict, budget>>
    BY <1>2 DEF Crossed, Over, engine
  <2> QED BY <2>1 DEF SpoolInv, TallyFits, InLoop, Over
<1>5. RestFits'
  BY <1>2 DEF SpoolInv, RestFits, engine
<1> QED BY <1>3, <1>4, <1>5 DEF SpoolInv

(* A chunk goes from the pipe to the spool, and into the tally.            *)
LEMMA ConsumeCounts ==
  ASSUME SpoolInv, NEW next \in {"turn", "drain"}, InLoop, verdict = "none", Consume(next)
  PROVE  SpoolInv'
<1>1. PICK n \in 1..Len(pipe) :
        LET chunk == SubSeq(pipe, 1, n)
            t     == Taken(tally, chunk)
        IN  /\ pipe' = SubSeq(pipe, n + 1, Len(pipe))
            /\ spool' = spool \o chunk
            /\ tally' = t
            /\ IF Crossed(t) = "none" THEN pc' = next /\ UNCHANGED verdict
                                      ELSE Return(Crossed(t))
  BY DEF Consume
<1> DEFINE chunk == SubSeq(pipe, 1, n)
           rest == SubSeq(pipe, n + 1, Len(pipe))
<1>2. UNCHANGED <<clock, exitedAt, left, written, budget>>
  BY DEF Consume
<1>3. /\ pipe \in Seq(Halves) /\ written \in Seq(Halves) /\ spool \in Seq(Halves)
      /\ written = spool \o pipe /\ Len(written) <= MaxOutput
      /\ tally \in Counts /\ tally = Joined(Zero, spool) /\ budget \in Budgets
  BY DEF SpoolInv, OutputFits, TallyFits, RestFits
<1>4. chunk \in Seq(Halves) /\ rest \in Seq(Halves) /\ chunk \o rest = pipe
  <2>1. Len(pipe) \in Nat /\ \A i \in 1..Len(pipe) : pipe[i] \in Halves
    BY <1>3, LenProperties, ElementOfSeq
  <2>2. chunk \in Seq(Halves)
    <3>1. \A i \in 1..n : pipe[i] \in Halves
      BY <2>1
    <3>2. 1 \in Int /\ n \in Int
      OBVIOUS
    <3> QED BY <3>1, <3>2, SubSeqProperties
  <2>3. rest \in Seq(Halves)
    <3>1. \A i \in (n + 1)..Len(pipe) : pipe[i] \in Halves
      BY <2>1
    <3>2. n + 1 \in Int /\ Len(pipe) \in Int
      BY <2>1
    <3> QED BY <3>1, <3>2, SubSeqProperties
  <2>4. chunk \o rest = SubSeq(pipe, 1, Len(pipe))
    <3>1. 1 \in 1..(Len(pipe) + 1) /\ n \in 0..Len(pipe) /\ Len(pipe) \in n..Len(pipe)
      BY <2>1
    <3>2. n \in (1 - 1)..Len(pipe)
      BY <3>1
    <3> QED BY <1>3, <3>1, <3>2, ConcatAdjacentSubSeq
  <2> QED BY <1>3, <2>2, <2>3, <2>4, SubSeqFull
<1> HIDE DEF chunk, rest
<1>5. /\ pipe' = rest /\ spool' = spool \o chunk /\ tally' = Taken(tally, chunk)
      /\ \/ Crossed(tally') = "none" /\ pc' = next /\ UNCHANGED verdict
         \/ Crossed(tally') # "none" /\ pc' = "returned" /\ verdict' = Crossed(tally')
  BY <1>1 DEF chunk, rest, Return
<1>6. OutputFits'
  <2>1. spool' \in Seq(Halves)
    BY <1>3, <1>4, <1>5, ConcatProperties
  <2>2. spool' \o pipe' = spool \o (chunk \o rest)
    <3>1. (spool \o chunk) \o rest = spool \o (chunk \o rest)
      <4>1. spool \in Seq(Halves) /\ chunk \in Seq(Halves) /\ rest \in Seq(Halves)
        BY <1>3, <1>4
      <4> QED BY <4>1, ConcatAssociative
    <3> QED BY <1>5, <3>1
  <2> QED BY <1>2, <1>3, <1>4, <1>5, <2>1, <2>2 DEF OutputFits
<1>7. /\ tally' \in Counts
      /\ tally'.turns <= Joined(Zero, spool').turns
      /\ tally'.tokens <= Joined(Zero, spool').tokens
      /\ Crossed(tally') = "none" => tally' = Joined(Zero, spool')
  BY <1>3, <1>4, <1>5, ZeroTypes, TakenIsCounted
<1>8. /\ CountSpool(spool') \in Counts /\ Joined(Zero, spool') \in Counts
      /\ Joined(Zero, spool').turns <= CountSpool(spool').turns
      /\ Joined(Zero, spool').tokens <= CountSpool(spool').tokens
  <2>1. spool' \in Seq(Halves)
    BY <1>6 DEF OutputFits
  <2> QED BY <2>1, CountSpoolBound, JoinedBound, ZeroTypes
<1>9. tally'.turns <= CountSpool(spool').turns /\ tally'.tokens <= CountSpool(spool').tokens
  BY <1>7, <1>8 DEF Counts
<1>10. /\ Crossed(tally)' = Crossed(tally')
       /\ CountSpool(spool)' = CountSpool(spool')
       /\ Joined(Zero, spool)' = Joined(Zero, spool')
       /\ Crossed(tally') = "turn_exhausted" => Over(tally.turns, budget.turn)'
       /\ Crossed(tally') = "token_exhausted" => Over(tally.tokens, budget.token)'
       /\ Crossed(tally') \in {"none", "turn_exhausted", "token_exhausted"}
  BY <1>2 DEF Crossed, Over
<1>11. TallyFits'
  <2>1. CASE Crossed(tally') = "none" /\ pc' = next /\ UNCHANGED verdict
    BY <1>7, <1>9, <1>10, <2>1 DEF TallyFits
  <2>2. CASE Crossed(tally') # "none" /\ pc' = "returned" /\ verdict' = Crossed(tally')
    BY <1>7, <1>9, <1>10, <2>2 DEF TallyFits, InLoop
  <2> QED BY <1>5, <2>1, <2>2
<1>12. RestFits'
  <2>1. /\ clock' \in 0..MaxTime /\ exitedAt' \in 0..MaxTime /\ left' \in 0..MaxOutput
        /\ budget' \in Budgets
    BY <1>2, <1>3 DEF SpoolInv, RestFits
  <2> QED BY <1>5, <1>10, <2>1 DEF SpoolInv, RestFits, Exhausted
<1> QED BY <1>6, <1>11, <1>12 DEF SpoolInv

(* The unterminated last line is counted as count_spool counts it.         *)
LEMMA FlushTailCounts == SpoolInv /\ FlushTail /\ verdict = "none" => SpoolInv'
<1> SUFFICES ASSUME SpoolInv, FlushTail, verdict = "none" PROVE SpoolInv'
  OBVIOUS
<1>1. /\ UNCHANGED <<clock, world, budget, spool>> /\ pc = "flush"
      /\ tally' = Feed(tally)
  BY DEF FlushTail
<1>2. tally \in Counts /\ tally = Joined(Zero, spool) /\ Crossed(tally) = "none"
      /\ spool \in Seq(Halves)
  BY <1>1 DEF SpoolInv, TallyFits, InLoop, OutputFits
<1>3. tally' = CountSpool(spool) /\ CountSpool(spool) \in Counts
  BY <1>1, <1>2, CountSpoolBound DEF CountSpool
<1>4. \/ Crossed(tally') = "none" /\ pc' = "wait" /\ UNCHANGED verdict
      \/ Crossed(tally') # "none" /\ pc' = "returned" /\ verdict' = Crossed(tally')
  <2>1. tally.tail = "none" => Feed(tally) = tally
    BY <1>2, FeedTypes
  <2> QED BY <1>1, <1>2, <2>1 DEF FlushTail, Return
<1>5. OutputFits'
  BY <1>1 DEF SpoolInv, OutputFits, world
<1>6. /\ Crossed(tally)' = Crossed(tally')
      /\ CountSpool(spool)' = CountSpool(spool)
      /\ Crossed(tally') = "turn_exhausted" => Over(tally.turns, budget.turn)'
      /\ Crossed(tally') = "token_exhausted" => Over(tally.tokens, budget.token)'
      /\ Crossed(tally') \in {"none", "turn_exhausted", "token_exhausted"}
  BY <1>1 DEF Crossed, Over
<1>7. tally'.turns <= CountSpool(spool).turns /\ tally'.tokens <= CountSpool(spool).tokens
  BY <1>3 DEF Counts
<1>8. TallyFits'
  <2>1. CASE Crossed(tally') = "none" /\ pc' = "wait" /\ UNCHANGED verdict
    BY <1>3, <1>6, <1>7, <2>1 DEF TallyFits, InLoop
  <2>2. CASE Crossed(tally') # "none" /\ pc' = "returned" /\ verdict' = Crossed(tally')
    BY <1>3, <1>6, <1>7, <2>2 DEF TallyFits, InLoop
  <2> QED BY <1>4, <2>1, <2>2
<1>9. RestFits'
  BY <1>1, <1>4, <1>6 DEF SpoolInv, RestFits, world, Exhausted
<1> QED BY <1>5, <1>8, <1>9 DEF SpoolInv

LEMMA StepCounts == ClockInv /\ SpoolInv /\ [Next]_vars => SpoolInv'
<1> SUFFICES ASSUME ClockInv, SpoolInv, [Next]_vars PROVE SpoolInv'
  OBVIOUS
<1>1. pc # "returned" => verdict = "none"
  BY DEF ClockInv, VerdictFits
<1>2. CASE Top \/ Select \/ PollChild \/ TurnEnds \/ WaitChild
  BY <1>2, TopCounts, LoopCounts, WaitChildCounts
<1>3. CASE ReadChunk
  <2>1. pc = "read" /\ InLoop
    BY <1>3 DEF ReadChunk, InLoop
  <2> QED BY <1>1, <1>3, <2>1, LoopCounts, ConsumeCounts DEF ReadChunk
<1>4. CASE DrainChunk
  <2>1. pc = "drain" /\ InLoop
    BY <1>4 DEF DrainChunk, InLoop
  <2> QED BY <1>1, <1>4, <2>1, LoopCounts, ConsumeCounts DEF DrainChunk
<1>5. CASE FlushTail
  <2>1. pc = "flush"
    BY <1>5 DEF FlushTail
  <2> QED BY <1>1, <1>5, <2>1, FlushTailCounts
<1>6. CASE Write \/ Bequeath \/ ChildCloses \/ ChildExits \/ HeirCloses \/ Tick
  BY <1>6, WriteCounts, WorldCounts
<1>7. CASE UNCHANGED vars
  <2>1. UNCHANGED <<pipe, written, spool, tally, budget, pc, verdict, clock, exitedAt, left>>
    BY <1>7 DEF vars, world, engine
  <2>2. RestFits'
    BY <2>1 DEF SpoolInv, RestFits
  <2> QED BY <2>1, <2>2, CountlessStep
<1> QED BY <1>2, <1>3, <1>4, <1>5, <1>6, <1>7 DEF Next, Engine

(* What was written, spooled and counted fits together in every reachable  *)
(* state.                                                                  *)
THEOREM SpoolInvariance == Spec => []SpoolInv
<1>1. Init /\ [][Next]_vars /\ []ClockInv => []SpoolInv
  BY InitSpool, StepCounts, PTL
<1> QED BY <1>1, ClockInvariance, PTL DEF Spec

(* Every variable keeps its type; the tally, within what was written.      *)
THEOREM StreamTypes == Spec => []TypeOK
<1>1. ClockInv /\ SpoolInv => TypeOK
  <2> SUFFICES ASSUME ClockInv, SpoolInv PROVE TypeOK
    OBVIOUS
  <2>1. tally \in Tallies
    <3> DEFINE counted == CountSpool(spool)
    <3>1. /\ spool \in Seq(Halves) /\ pipe \in Seq(Halves) /\ Len(spool \o pipe) <= MaxOutput
          /\ tally \in Counts /\ tally.turns <= counted.turns /\ tally.tokens <= counted.tokens
      BY DEF SpoolInv, OutputFits, TallyFits
    <3>2. /\ Len(spool) \in Nat /\ Len(pipe) \in Nat /\ Len(spool \o pipe) = Len(spool) + Len(pipe)
          /\ MaxOutput \in Nat
      BY <3>1, LenProperties, ConcatProperties, StreamAssumption DEF StreamAssumption
    <3>3. counted \in Counts /\ Weight(counted) <= Len(spool)
      BY <3>1, CountSpoolBound
    <3> HIDE DEF counted
    <3>4. counted.turns <= Weight(counted) /\ counted.tokens <= Weight(counted)
      BY <3>3 DEF Counts, Weight
    <3>5. /\ counted.turns \in Nat /\ counted.tokens \in Nat /\ Weight(counted) \in Nat
          /\ tally.turns \in Nat /\ tally.tokens \in Nat
      BY <3>1, <3>3, WeightType DEF Counts
    <3>6. tally.turns \in 0..MaxOutput /\ tally.tokens \in 0..MaxOutput
      BY <3>1, <3>2, <3>3, <3>4, <3>5
    <3> QED BY <3>1, <3>6 DEF Counts, Tallies
  <2>2. pipe \in Seq(Halves) /\ written \in Seq(Halves) /\ spool \in Seq(Halves)
    BY DEF SpoolInv, OutputFits
  <2> QED BY <2>1, <2>2 DEF ClockInv, ClockTypes, SpoolInv, RestFits, TypeOK
<1> QED BY <1>1, ClockInvariance, SpoolInvariance, PTL

(* The verdict agrees with an honest count of the spool (_consume_chunk    *)
(* against count_spool), however reads split its lines.                    *)
THEOREM VerdictsMatchSpools == Spec => []VerdictMatchesSpool
<1>1. SpoolInv => VerdictMatchesSpool
  <2> SUFFICES ASSUME SpoolInv, pc = "returned"
               PROVE  LET counted == CountSpool(spool) IN
                        /\ verdict = "exit" => tally = counted /\ Crossed(counted) = "none"
                        /\ verdict = "turn_exhausted" => Over(counted.turns, budget.turn)
                        /\ verdict = "token_exhausted" => Over(counted.tokens, budget.token)
    BY DEF VerdictMatchesSpool
  <2>1. TallyFits /\ budget \in Budgets /\ spool \in Seq(Halves)
    BY DEF SpoolInv, OutputFits, RestFits
  <2>2. /\ tally.turns \in Nat /\ tally.tokens \in Nat
        /\ CountSpool(spool).turns \in Nat /\ CountSpool(spool).tokens \in Nat
    BY <2>1, CountSpoolBound DEF TallyFits, Counts
  <2>3. verdict = "turn_exhausted" => Over(CountSpool(spool).turns, budget.turn)
    BY <2>1, <2>2, LimitTypes, OverGrows DEF TallyFits
  <2>4. verdict = "token_exhausted" => Over(CountSpool(spool).tokens, budget.token)
    BY <2>1, <2>2, LimitTypes, OverGrows DEF TallyFits
  <2> QED BY <2>1, <2>3, <2>4 DEF TallyFits
<1> QED BY <1>1, SpoolInvariance, PTL

(* The engine's reads neither lose, double nor reorder output: the spool   *)
(* is how what was written begins, and the rest is still in the pipe.      *)
THEOREM NothingIsLost == Spec => [](written = spool \o pipe)
<1>1. SpoolInv => written = spool \o pipe
  BY DEF SpoolInv, OutputFits
<1> QED BY <1>1, SpoolInvariance, PTL
=============================================================================
