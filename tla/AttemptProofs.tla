--------------------------- MODULE AttemptProofs ----------------------------
(***************************************************************************)
(* Proofs about an attempt.  PumpInv is inductive for the steps of module  *)
(* Pump: who holds the lock, how far the lines have come, and how the      *)
(* wire may look behind a head.  AttemptInv adds what each phase of the    *)
(* main thread can rely on.                                                *)
(***************************************************************************)
EXTENDS Attempt, TLAPS

(* Between the two writes of a line, and then only, a thread has the lock. *)
LockInv ==
  /\ lock = "pump" <=> pump = "rest"
  /\ lock = "drain" <=> drain = "rest"

(* How far each sink has come, and what the main thread knows of it. *)
SinkInv ==
  /\ pump \in {"forward", "rest"} => taken > 0 /\ "forward" \notin lost
  /\ pump = "done" => taken = written /\ pi = "exited"
  /\ main # "waiting" => pump = "done"
  /\ "transcript" \notin lost => transcript = taken
  /\ "forward" \notin lost =>
       \A n \in 1..taken : \/ \E i \in 1..Len(wire) : wire[i] = Line(n, "rest")
                           \/ n = taken /\ pump \in {"forward", "rest"}
  /\ main = "exit" => lost = {}
  /\ main = "forward" => "transcript" \notin lost

(* A head at the end of the wire is being completed, or never will be. *)
HeadInv ==
  /\ LinesStayTogether
  /\ pump = "rest" => wire # <<>> /\ wire[Len(wire)] = Line(taken, "head")
  /\ \A i \in 1..Len(wire) : wire[i].from = "pi" /\ wire[i].part = "head" /\ i = Len(wire) =>
       pump = "rest" \/ "forward" \in lost

(* A piece without newline is the last that comes on stderr. *)
TailInv ==
  /\ \A i \in 1..Len(stderr) : stderr[i] = "tail" => i = Len(stderr) /\ unsaid = 0
  /\ piece = "tail" => stderr = <<>> /\ ~StderrOpen

Rest == [from |-> "stderr", part |-> "rest"]

(* No more will be relayed, and nothing was since i. *)
LastRelayed(i) ==
  /\ mute \/ piece = "tail"
  /\ drain \in {"read", "done"}
  /\ \A j \in (i + 1)..Len(wire) : wire[j].from = "pi"

(* A relayed piece without its end gets it next, or is the last. *)
RelayInv ==
  /\ mute => drain \in {"read", "done"}
  /\ \A i \in 1..Len(wire) : wire[i].from = "stderr" /\ wire[i].part # "rest" =>
       \/ i < Len(wire) /\ wire[i + 1] = Rest
       \/ i = Len(wire) /\ drain = "rest"
       \/ LastRelayed(i)

PumpInv == PumpTypeOK /\ LockInv /\ SinkInv /\ HeadInv /\ TailInv /\ RelayInv

(* What the main thread has behind it at each step. *)
BeforeDirectory == {"check", "prepare", "pin", "directory"}
Before          == {"check", "prepare", "pin"}
Leaving         == {"tidy", "unpin", "over"}
AfterPi         == {"close", "diff", "create", "write", "link", "unlink", "judge"}

Judged == phase = "judge" \/ result \in {"OK", "OK_FORWARD_LOST"}

PhaseInv ==
  /\ result # "none" => phase \in Leaving
  /\ phase \in Before => pins = {}
  /\ phase \in BeforeDirectory => ~directory
  /\ phase \in AfterPi \/ Judged => main \in {"exit", "forward"} /\ (main = "exit" => synced)
  /\ phase = "sync" => main = "exit"
  /\ phase \notin Before \cup Leaving \/ Judged =>
       ("transcript" \in Wants => files["transcript"] = "ours")
  /\ Judged => (changed /\ "patch" \in Wants => files["patch"] = "ours") /\ temporary = "absent"
  /\ temporary = "absent" \/ phase \in {"write", "link", "unlink"} \cup Leaving
  /\ phase = "link" => temporary = "whole"
  /\ phase \in Leaving /\ temporary # "absent" => "temporary" \in named
  /\ phase \in {"unpin", "over"} /\ directory => "directory" \in named /\ result = "FAILED"
  /\ phase = "over" => pins = {}

AttemptInv == TypeOK /\ PumpInv /\ PhaseInv

(***************************************************************************)
(* Sequences.                                                              *)
(***************************************************************************)
(* What Append does to length and elements. *)
LEMMA Appended ==
  ASSUME NEW S, NEW s \in Seq(S), NEW e \in S
  PROVE  /\ Append(s, e) \in Seq(S)
         /\ Len(Append(s, e)) = Len(s) + 1
         /\ \A i \in 1..Len(s) : Append(s, e)[i] = s[i]
         /\ Append(s, e)[Len(s) + 1] = e
OBVIOUS

(* What taking the head of a sequence leaves. *)
LEMMA Taken ==
  ASSUME NEW S, NEW s \in Seq(S), s # <<>>
  PROVE  /\ Head(s) \in S /\ Head(s) = s[1]
         /\ Tail(s) \in Seq(S) /\ Len(s) > 0
         /\ Len(Tail(s)) = Len(s) - 1
         /\ \A i \in 1..Len(Tail(s)) : Tail(s)[i] = s[i + 1]
OBVIOUS

(* The bounds are numbers. *)
LEMMA Bounds == Lines \in Nat /\ Messages \in Nat /\ Room \in Nat \ {0} /\ Stalls \in Nat
BY PumpAssumption DEF PumpAssumption

(***************************************************************************)
(* What the parts of the invariant depend on.                              *)
(***************************************************************************)
(* The lock is between the two threads. *)
LEMMA LockFrame == LockInv /\ UNCHANGED <<lock, pump, drain>> => LockInv'
BY DEF LockInv

(* The sinks are the pump's, and the wire has what was forwarded. *)
LEMMA SinkFrame ==
  SinkInv /\ UNCHANGED <<pump, taken, written, pi, main, lost, transcript, wire>> => SinkInv'
BY DEF SinkInv, Line

(* Heads are the pump's. *)
LEMMA HeadFrame == HeadInv /\ UNCHANGED <<wire, pump, taken, lost>> => HeadInv'
BY DEF HeadInv, LinesStayTogether, Line

(* The stderr pipe is Pi's and its heir's. *)
LEMMA TailFrame == TailInv /\ UNCHANGED <<stderr, unsaid, piece, pi, heir>> => TailInv'
BY DEF TailInv, StderrOpen

(* The relay is the drain's. *)
LEMMA RelayFrame == RelayInv /\ UNCHANGED <<wire, drain, mute, piece>> => RelayInv'
BY DEF RelayInv, LastRelayed, Rest

(***************************************************************************)
(* The steps of Pi, of its heir and of deliver.                            *)
(***************************************************************************)
(* Init establishes the invariant of the pipes. *)
LEMMA PumpInitInv == PumpInit => PumpInv
<1> SUFFICES ASSUME PumpInit PROVE PumpInv
  OBVIOUS
<1>1. Len(wire) = 0 /\ Len(stderr) = 0
  BY DEF PumpInit
<1>2. PumpTypeOK
  <2>1. stderr \in Seq(Pieces) /\ wire \in Seq(Tokens)
    BY DEF PumpInit
  <2>2. piece \in Pieces /\ main \in {"waiting", "draining"} \cup Returns
    BY DEF PumpInit, Pieces
  <2>3. 0 \in 0..Lines /\ 0 \in 0..0 /\ 0 \in 0..Stalls
    BY Bounds
  <2> QED BY <2>1, <2>2, <2>3 DEF PumpInit, PumpTypeOK
<1>3. LockInv /\ SinkInv
  BY <1>1 DEF PumpInit, LockInv, SinkInv
<1>4. HeadInv /\ TailInv /\ RelayInv
  BY <1>1 DEF PumpInit, HeadInv, LinesStayTogether, TailInv, RelayInv
<1> QED BY <1>2, <1>3, <1>4 DEF PumpInv

(* Pi writes only while it runs, when the pump has not ended. *)
LEMMA WriteLineStep == PumpInv /\ WriteLine => PumpInv'
<1> SUFFICES ASSUME PumpInv, WriteLine PROVE PumpInv'
  OBVIOUS
<1> USE DEF PumpInv, WriteLine, wireVars
<1>1. PumpTypeOK'
  BY Bounds DEF PumpTypeOK
<1>2. SinkInv'
  BY DEF SinkInv, Line
<1> QED BY <1>1, <1>2, LockFrame, HeadFrame, TailFrame, RelayFrame

(* After a tail nothing is left to say. *)
LEMMA SpeakStep == PumpInv /\ Speak => PumpInv'
<1> SUFFICES ASSUME PumpInv, Speak PROVE PumpInv'
  OBVIOUS
<1> USE DEF PumpInv, Speak, wireVars
<1>1. PICK p \in Pieces : /\ stderr' = Append(stderr, p)
                          /\ unsaid' = IF p = "tail" THEN 0 ELSE unsaid - 1
  OBVIOUS
<1>2. /\ stderr' \in Seq(Pieces) /\ Len(stderr') = Len(stderr) + 1
      /\ \A i \in 1..Len(stderr) : stderr'[i] = stderr[i]
      /\ stderr'[Len(stderr) + 1] = p
  BY <1>1, Appended DEF PumpTypeOK
<1>3. PumpTypeOK'
  BY <1>1, <1>2, Bounds DEF PumpTypeOK
<1>4. TailInv'
  <2>1. \A i \in 1..Len(stderr) : stderr[i] # "tail"
    BY Bounds DEF TailInv, PumpTypeOK
  <2>2. Len(stderr) \in Nat
    BY DEF PumpTypeOK
  <2>3. piece # "tail"
    BY DEF TailInv
  <2>4. Len(stderr') \in Nat /\ Len(stderr') = Len(stderr) + 1
    BY <1>2, <2>2
  <2>5. \A i \in 1..Len(stderr') : stderr'[i] = "tail" => i = Len(stderr') /\ unsaid' = 0
    <3> SUFFICES ASSUME NEW i \in 1..Len(stderr'), stderr'[i] = "tail"
                 PROVE  i = Len(stderr') /\ unsaid' = 0
      OBVIOUS
    <3>1. i = Len(stderr) + 1
      BY <1>2, <2>1, <2>2, <2>4
    <3> QED BY <1>1, <1>2, <2>4, <3>1
  <2> QED BY <2>3, <2>5 DEF TailInv
<1> QED BY <1>3, <1>4, LockFrame, SinkFrame, HeadFrame, RelayFrame

(* Pi ends. *)
LEMMA PiEndsStep == PumpInv /\ PiEnds => PumpInv'
<1> SUFFICES ASSUME PumpInv, PiEnds PROVE PumpInv'
  OBVIOUS
<1> USE DEF PumpInv, PiEnds, wireVars
<1>1. PumpTypeOK'
  BY Bounds DEF PumpTypeOK
<1>2. SinkInv'
  BY DEF SinkInv, Line
<1>3. TailInv'
  BY DEF TailInv, StderrOpen
<1> QED BY <1>1, <1>2, <1>3, LockFrame, HeadFrame, RelayFrame

(* What Pi left behind ends. *)
LEMMA HeirEndsStep == PumpInv /\ HeirEnds => PumpInv'
<1> SUFFICES ASSUME PumpInv, HeirEnds PROVE PumpInv'
  OBVIOUS
<1> USE DEF PumpInv, HeirEnds, wireVars
<1>1. PumpTypeOK'
  <2>1. heir' \in BOOLEAN
    OBVIOUS
  <2>2. unsaid' = 0 /\ 0 \in 0..Messages
    BY Bounds
  <2> QED BY <2>1, <2>2 DEF PumpTypeOK
<1>2. TailInv'
  BY DEF TailInv, StderrOpen
<1> QED BY <1>1, <1>2, LockFrame, SinkFrame, HeadFrame, RelayFrame

(* deliver stops reading, goes on, or leaves. *)
LEMMA ReaderStep == PumpInv /\ (Stall \/ Resume \/ Leave) => PumpInv'
<1> SUFFICES ASSUME PumpInv, Stall \/ Resume \/ Leave PROVE PumpInv'
  OBVIOUS
<1> USE DEF PumpInv, Stall, Resume, Leave, piVars
<1>1. PumpTypeOK'
  <2>1. reader' \in {"reading", "stalled", "gone"} /\ stalls' \in 0..Stalls
    BY Bounds DEF PumpTypeOK
  <2> QED BY <2>1 DEF PumpTypeOK
<1> QED BY <1>1, LockFrame, SinkFrame, HeadFrame, TailFrame, RelayFrame

(***************************************************************************)
(* The steps of the pump.                                                  *)
(***************************************************************************)
(* What a write to the wire leaves of it. *)
LEMMA Wired ==
  ASSUME PumpTypeOK, NEW e \in Tokens, wire' = Append(wire, e)
  PROVE  /\ wire' \in Seq(Tokens) /\ Len(wire) \in Nat /\ Len(wire') = Len(wire) + 1
         /\ \A i \in 1..Len(wire) : wire'[i] = wire[i]
         /\ wire'[Len(wire')] = e
<1>1. wire \in Seq(Tokens) /\ Len(wire) \in Nat
  BY DEF PumpTypeOK
<1> QED BY <1>1, Appended

(* What was forwarded stays forwarded. *)
LEMMA StillForwarded ==
  ASSUME PumpTypeOK, NEW e \in Tokens, wire' = Append(wire, e), NEW n,
         \E i \in 1..Len(wire) : wire[i] = Line(n, "rest")
  PROVE  \E i \in 1..Len(wire') : wire'[i] = Line(n, "rest")
<1>1. PICK i \in 1..Len(wire) : wire[i] = Line(n, "rest")
  OBVIOUS
<1>2. i \in 1..Len(wire') /\ wire'[i] = wire[i]
  BY Wired
<1> QED BY <1>1, <1>2

(* A write keeps the lines whole: a head that stood at the end gets its     *)
(* rest, or is given up for good.                                          *)
LEMMA LinesAppended ==
  ASSUME PumpTypeOK, LinesStayTogether, lost' = lost,
         NEW e \in Tokens, wire' = Append(wire, e),
         \A i \in 1..Len(wire) : i = Len(wire) /\ wire[i].from = "pi" /\ wire[i].part = "head" =>
           e = Line(wire[i].line, "rest") \/ ("forward" \in lost /\ e.from = "stderr"),
         e.from = "pi" /\ e.part # "head" => wire # <<>> /\ wire[Len(wire)] = Line(e.line, "head"),
         e.from = "pi" => "forward" \notin lost
  PROVE  LinesStayTogether'
<1>1. /\ wire' \in Seq(Tokens) /\ Len(wire) \in Nat /\ Len(wire') = Len(wire) + 1
      /\ \A i \in 1..Len(wire) : wire'[i] = wire[i]
      /\ wire'[Len(wire')] = e
  BY Wired
<1>2. ASSUME NEW i \in 1..Len(wire'), wire'[i].from = "pi"
      PROVE  IF wire'[i].part = "head"
             THEN i < Len(wire') =>
                    \/ wire'[i + 1] = Line(wire'[i].line, "rest")
                    \/ "forward" \in lost' /\ \A j \in (i + 1)..Len(wire') : wire'[j].from = "stderr"
             ELSE i > 1 /\ wire'[i - 1] = Line(wire'[i].line, "head")
  <2>1. CASE i = Len(wire')
    <3>1. CASE e.part # "head"
      <4>1. wire # <<>> /\ wire[Len(wire)] = Line(e.line, "head")
        BY <1>1, <1>2, <2>1, <3>1
      <4>2. Len(wire) \in 1..Len(wire) /\ i - 1 = Len(wire)
        BY <1>1, <2>1, <4>1 DEF PumpTypeOK
      <4>3. wire'[i] = e
        BY <1>1, <2>1
      <4>4. i > 1
        BY <4>2
      <4>5. wire'[i - 1] = wire[Len(wire)]
        BY <1>1, <4>2
      <4> QED BY <3>1, <4>1, <4>3, <4>4, <4>5
    <3> QED BY <1>1, <2>1, <3>1
  <2>2. CASE i \in 1..Len(wire)
    <3>1. wire'[i] = wire[i]
      BY <2>2, <1>1
    <3>2. CASE wire[i].part = "head" /\ i = Len(wire)
      <4>1. i + 1 = Len(wire')
        BY <1>1, <3>2
      <4> QED BY <1>1, <1>2, <2>2, <3>1, <3>2, <4>1
    <3>3. CASE wire[i].part = "head" /\ i < Len(wire)
      <4>1. i + 1 \in 1..Len(wire) /\ wire'[i + 1] = wire[i + 1]
        BY <1>1, <3>3
      <4>2. CASE wire[i + 1] = Line(wire[i].line, "rest")
        BY <3>1, <3>3, <4>1, <4>2
      <4>3. CASE "forward" \in lost /\ \A j \in (i + 1)..Len(wire) : wire[j].from = "stderr"
        <5>1. e.from = "stderr"
          BY <4>3 DEF Tokens
        <5>2. \A j \in (i + 1)..Len(wire') : j \in (i + 1)..Len(wire) \/ j = Len(wire')
          BY <1>1, <2>2
        <5>3. \A j \in (i + 1)..Len(wire) : wire'[j] = wire[j]
          BY <1>1, <2>2
        <5> QED BY <1>1, <3>1, <3>3, <4>3, <5>1, <5>2, <5>3
      <4> QED BY <1>2, <2>2, <3>1, <3>3, <4>2, <4>3 DEF LinesStayTogether
    <3>4. CASE wire[i].part # "head"
      <4>1. i > 1 /\ wire[i - 1] = Line(wire[i].line, "head")
        BY <1>2, <2>2, <3>1, <3>4 DEF LinesStayTogether
      <4>2. i - 1 \in 1..Len(wire)
        BY <4>1, <2>2, <1>1
      <4> QED BY <3>1, <3>4, <4>1, <4>2, <1>1
    <3> QED BY <2>2, <1>1, <3>2, <3>3, <3>4
  <2> QED BY <2>1, <2>2, <1>1
<1> QED BY <1>2 DEF LinesStayTogether, Line

(* What the drain writes finds no line half written. *)
LEMMA HeadsAfterStderr ==
  ASSUME PumpTypeOK, HeadInv, pump # "rest", UNCHANGED <<pump, taken, lost>>,
         NEW e \in Tokens, e.from = "stderr", wire' = Append(wire, e)
  PROVE  HeadInv'
<1>1. /\ wire' \in Seq(Tokens) /\ Len(wire) \in Nat /\ Len(wire') = Len(wire) + 1
      /\ wire'[Len(wire')] = e
  BY Wired
<1>2. LinesStayTogether'
  BY LinesAppended DEF HeadInv
<1>3. \A i \in 1..Len(wire') : i = Len(wire') => wire'[i].from = "stderr"
  BY <1>1
<1> QED BY <1>2, <1>3 DEF HeadInv

(* What the pump writes does not concern the pieces of stderr, unless one  *)
(* is being completed.                                                     *)
LEMMA RelayAfterPi ==
  ASSUME PumpTypeOK, RelayInv, drain # "rest", UNCHANGED <<drain, mute, piece>>,
         NEW e \in Tokens, e.from = "pi", wire' = Append(wire, e)
  PROVE  RelayInv'
<1>1. /\ wire' \in Seq(Tokens) /\ Len(wire) \in Nat /\ Len(wire') = Len(wire) + 1
      /\ \A i \in 1..Len(wire) : wire'[i] = wire[i]
      /\ wire'[Len(wire')] = e
  BY Wired
<1>2. ASSUME NEW i \in 1..Len(wire'), wire'[i].from = "stderr", wire'[i].part # "rest"
      PROVE  (i < Len(wire') /\ wire'[i + 1] = Rest) \/ LastRelayed(i)'
  <2>1. i \in 1..Len(wire) /\ wire'[i] = wire[i]
    BY <1>1, <1>2
  <2>2. CASE i < Len(wire) /\ wire[i + 1] = Rest
    <3>1. i + 1 \in 1..Len(wire)
      BY <2>1, <2>2, <1>1
    <3> QED BY <2>2, <3>1, <1>1
  <2>3. CASE LastRelayed(i)
    <3>1. \A j \in (i + 1)..Len(wire') : j \in (i + 1)..Len(wire) \/ j = Len(wire')
      BY <2>1, <1>1
    <3>2. \A j \in (i + 1)..Len(wire) : wire'[j] = wire[j]
      BY <2>1, <1>1
    <3> QED BY <2>3, <3>1, <3>2, <1>1 DEF LastRelayed
  <2> QED BY <1>2, <2>1, <2>2, <2>3 DEF RelayInv
<1> QED BY <1>2 DEF RelayInv, Rest

(* The pump takes a line: the transcript has it or has failed. *)
LEMMA PumpTakesStep == PumpInv /\ (PumpTakes(FALSE) \/ PumpTakes(TRUE)) => PumpInv'
<1> SUFFICES ASSUME PumpInv, NEW fails \in BOOLEAN, PumpTakes(fails) PROVE PumpInv'
  BY Zenon
<1> USE DEF PumpInv, PumpTakes, piVars, wireVars, Onward
<1>1. pump = "read" /\ pump' \in {"read", "forward"} /\ taken' = taken + 1 /\ taken < written
      /\ lost' \subseteq {"transcript", "forward"} /\ lost \subseteq lost'
      /\ ("forward" \in lost' <=> "forward" \in lost)
      /\ (pump' = "forward" => "forward" \notin lost)
      /\ ("forward" \notin lost => pump' = "forward")
  BY DEF PumpTypeOK
<1>2. PumpTypeOK'
  BY <1>1, Bounds DEF PumpTypeOK
<1>3. LockInv'
  BY <1>1 DEF LockInv
<1>4. SinkInv'
  <2>1. main = "waiting" /\ main' = main
    BY <1>1 DEF SinkInv
  <2>2. "transcript" \notin lost' => transcript' = taken'
    BY DEF SinkInv
  <2>3. taken' > 0
    BY <1>1 DEF PumpTypeOK
  <2>4. ASSUME "forward" \notin lost', NEW n \in 1..taken'
        PROVE  \/ \E i \in 1..Len(wire) : wire[i] = Line(n, "rest")
               \/ n = taken' /\ pump' = "forward"
    <3>1. CASE n = taken'
      BY <3>1, <2>4, <1>1
    <3>2. CASE n # taken'
      <4>1. n \in 1..taken
        BY <3>2, <1>1 DEF PumpTypeOK
      <4> QED BY <4>1, <2>4, <1>1 DEF SinkInv
    <3> QED BY <3>1, <3>2
  <2> QED BY <1>1, <2>1, <2>2, <2>3, <2>4 DEF SinkInv, Line
<1>5. HeadInv'
  BY <1>1 DEF HeadInv, LinesStayTogether, Line
<1> QED BY <1>2, <1>3, <1>4, <1>5, TailFrame, RelayFrame

(* The head of a line is written with the lock in hand: no open piece of   *)
(* stderr can still be completed, and no head stands at the end.           *)
LEMMA ForwardBeginsStep == PumpInv /\ ForwardBegins => PumpInv'
<1> SUFFICES ASSUME PumpInv, ForwardBegins PROVE PumpInv'
  OBVIOUS
<1> USE DEF PumpInv, ForwardBegins, piVars, wireVars
<1> DEFINE e == [from |-> "pi", line |-> taken, part |-> "head"]
<1>1. taken \in 1..Lines /\ "forward" \notin lost
  BY Bounds DEF SinkInv, PumpTypeOK
<1>2. e \in Tokens /\ e = Line(taken, "head")
  BY <1>1 DEF Tokens, Line
<1>3. /\ wire' \in Seq(Tokens) /\ Len(wire) \in Nat /\ Len(wire') = Len(wire) + 1
      /\ \A i \in 1..Len(wire) : wire'[i] = wire[i]
      /\ wire'[Len(wire')] = e
  BY <1>2, Wired
<1>4. PumpTypeOK'
  BY <1>3 DEF PumpTypeOK
<1>5. LockInv'
  BY DEF LockInv
<1>6. SinkInv'
  <2>1. ASSUME NEW n \in 1..taken
        PROVE  (\E i \in 1..Len(wire') : wire'[i] = Line(n, "rest")) \/ n = taken
    <3>1. CASE \E i \in 1..Len(wire) : wire[i] = Line(n, "rest")
      BY <3>1, <1>2, StillForwarded
    <3> QED BY <3>1, <1>1 DEF SinkInv
  <2> QED BY <2>1, <1>1 DEF SinkInv, Line
<1>7. HeadInv'
  <2>1. \A i \in 1..Len(wire) : i = Len(wire) => ~(wire[i].from = "pi" /\ wire[i].part = "head")
    BY <1>1 DEF HeadInv
  <2>2. LinesStayTogether'
    BY <1>1, <1>2, <2>1, LinesAppended DEF HeadInv
  <2>3. wire' # <<>>
    BY <1>3
  <2> QED BY <1>2, <1>3, <2>2, <2>3 DEF HeadInv, Line
<1>8. RelayInv'
  <2>1. drain # "rest"
    BY DEF LockInv
  <2> QED BY <1>2, <2>1, RelayAfterPi
<1> QED BY <1>4, <1>5, <1>6, <1>7, <1>8, TailFrame

(* The rest of a line follows its head at once. *)
LEMMA ForwardEndsStep == PumpInv /\ ForwardEnds => PumpInv'
<1> SUFFICES ASSUME PumpInv, ForwardEnds PROVE PumpInv'
  OBVIOUS
<1> USE DEF PumpInv, ForwardEnds, piVars, wireVars
<1> DEFINE e == [from |-> "pi", line |-> taken, part |-> "rest"]
<1>1. taken \in 1..Lines /\ "forward" \notin lost
  BY Bounds DEF SinkInv, PumpTypeOK
<1>2. e \in Tokens /\ e = Line(taken, "rest")
  BY <1>1 DEF Tokens, Line
<1>3. /\ wire' \in Seq(Tokens) /\ Len(wire) \in Nat /\ Len(wire') = Len(wire) + 1
      /\ \A i \in 1..Len(wire) : wire'[i] = wire[i]
      /\ wire'[Len(wire')] = e
  BY <1>2, Wired
<1>4. PumpTypeOK'
  BY <1>3 DEF PumpTypeOK
<1>5. LockInv'
  BY DEF LockInv
<1>6. SinkInv'
  <2>1. ASSUME NEW n \in 1..taken
        PROVE  \E i \in 1..Len(wire') : wire'[i] = Line(n, "rest")
    <3>1. CASE \E i \in 1..Len(wire) : wire[i] = Line(n, "rest")
      BY <3>1, <1>2, StillForwarded
    <3>2. CASE n = taken
      <4>1. Len(wire') \in 1..Len(wire')
        BY <1>3
      <4> QED BY <3>2, <4>1, <1>2, <1>3
    <3> QED BY <3>1, <3>2, <1>1 DEF SinkInv
  <2> QED BY <2>1, <1>1 DEF SinkInv, Line
<1>7. HeadInv'
  <2>1. wire # <<>> /\ wire[Len(wire)] = Line(taken, "head")
    BY DEF HeadInv
  <2>2. LinesStayTogether'
    BY <1>1, <1>2, <2>1, LinesAppended DEF HeadInv, Line
  <2>3. \A i \in 1..Len(wire') : i = Len(wire') => wire'[i].part = "rest"
    BY <1>3
  <2> QED BY <2>2, <2>3 DEF HeadInv
<1>8. RelayInv'
  <2>1. drain # "rest"
    BY DEF LockInv
  <2> QED BY <1>2, <2>1, RelayAfterPi
<1> QED BY <1>4, <1>5, <1>6, <1>7, <1>8, TailFrame

(* A lost forward is lost for good. *)
LEMMA ForwardFailsStep == PumpInv /\ ForwardFails => PumpInv'
<1> SUFFICES ASSUME PumpInv, ForwardFails PROVE PumpInv'
  OBVIOUS
<1> USE DEF PumpInv, ForwardFails, piVars, wireVars
<1>1. PumpTypeOK'
  BY DEF PumpTypeOK
<1>2. LockInv'
  BY DEF LockInv
<1>3. SinkInv'
  BY DEF SinkInv
<1>4. HeadInv'
  BY DEF HeadInv, LinesStayTogether
<1> QED BY <1>1, <1>2, <1>3, <1>4, TailFrame, RelayFrame

(* The pump ends when it has read everything that will come. *)
LEMMA PumpEndsStep == PumpInv /\ PumpEnds => PumpInv'
<1> SUFFICES ASSUME PumpInv, PumpEnds PROVE PumpInv'
  OBVIOUS
<1> USE DEF PumpInv, PumpEnds, piVars, wireVars
<1>1. PumpTypeOK'
  BY DEF PumpTypeOK
<1>2. LockInv'
  BY DEF LockInv
<1>3. SinkInv'
  BY DEF SinkInv, PumpTypeOK, Line
<1>4. HeadInv'
  BY DEF HeadInv, LinesStayTogether, Line
<1> QED BY <1>1, <1>2, <1>3, <1>4, TailFrame, RelayFrame

(***************************************************************************)
(* The steps of the drain.                                                 *)
(***************************************************************************)
(* A tail is taken last, when nothing can come any more. *)
LEMMA DrainTakesStep == PumpInv /\ DrainTakes => PumpInv'
<1> SUFFICES ASSUME PumpInv, DrainTakes PROVE PumpInv'
  OBVIOUS
<1> USE DEF PumpInv, DrainTakes, piVars, wireVars
<1>1. /\ piece' \in Pieces /\ piece' = stderr[1] /\ stderr' \in Seq(Pieces)
      /\ Len(stderr) \in Nat /\ Len(stderr) > 0 /\ Len(stderr') = Len(stderr) - 1
      /\ \A i \in 1..Len(stderr') : stderr'[i] = stderr[i + 1]
  BY Taken DEF PumpTypeOK
<1>2. PumpTypeOK'
  BY <1>1 DEF PumpTypeOK
<1>3. LockInv'
  BY DEF LockInv
<1>4. TailInv'
  <2>1. \A i \in 1..Len(stderr') : stderr'[i] = "tail" => i = Len(stderr') /\ unsaid' = 0
    <3> SUFFICES ASSUME NEW i \in 1..Len(stderr'), stderr'[i] = "tail"
                 PROVE  i = Len(stderr') /\ unsaid' = 0
      OBVIOUS
    <3>1. i + 1 \in 1..Len(stderr) /\ stderr[i + 1] = "tail"
      BY <1>1
    <3>2. i + 1 = Len(stderr) /\ unsaid = 0
      BY <3>1 DEF TailInv
    <3>3. i = Len(stderr')
      <4>1. Len(stderr) \in Nat /\ Len(stderr') = Len(stderr) - 1 /\ i \in Int
        BY <1>1
      <4> QED BY <3>2, <4>1
    <3>4. unsaid' = unsaid
      OBVIOUS
    <3> QED BY <3>2, <3>3, <3>4
  <2>2. ASSUME piece' = "tail" PROVE stderr' = <<>> /\ ~StderrOpen'
    <3>1. 1 \in 1..Len(stderr) /\ stderr[1] = "tail"
      BY <1>1, <2>2
    <3>2. Len(stderr) = 1
      BY <3>1 DEF TailInv
    <3>3. Len(stderr') = 0
      BY <1>1, <3>2
    <3>4. stderr' = <<>>
      BY <1>1, <3>3
    <3> QED BY <1>1, <2>2, <3>4 DEF StderrOpen
  <2> QED BY <2>1, <2>2 DEF TailInv
<1>5. RelayInv'
  <2>1. piece # "tail"
    BY DEF TailInv
  <2> QED BY <2>1 DEF RelayInv, LastRelayed, Rest
<1> QED BY <1>2, <1>3, <1>4, <1>5, SinkFrame, HeadFrame

(* A piece is relayed with the lock free: no line of Pi's is being written *)
(* and no piece of stderr is open.                                         *)
LEMMA RelayBeginsStep == PumpInv /\ RelayBegins => PumpInv'
<1> SUFFICES ASSUME PumpInv, RelayBegins PROVE PumpInv'
  OBVIOUS
<1> USE DEF PumpInv, RelayBegins, piVars, wireVars
<1> DEFINE e == [from |-> "stderr", part |-> [line |-> "rest", long |-> "head", tail |-> "tail"][piece]]
<1>1. /\ piece = "line" => e.part = "rest"
      /\ piece = "long" => e.part = "head"
      /\ piece = "tail" => e.part = "tail"
      /\ piece \in {"line", "long", "tail"} /\ e.from = "stderr"
  BY DEF PumpTypeOK, Pieces
<1>2. e \in Tokens
  BY <1>1 DEF Tokens
<1>3. wire' = Append(wire, e)
  OBVIOUS
<1>4. /\ wire' \in Seq(Tokens) /\ Len(wire) \in Nat /\ Len(wire') = Len(wire) + 1
      /\ \A i \in 1..Len(wire) : wire'[i] = wire[i]
      /\ wire'[Len(wire')] = e
  BY <1>2, <1>3, Wired
<1> HIDE DEF e
<1>5. PumpTypeOK'
  BY <1>4 DEF PumpTypeOK
<1>6. LockInv'
  BY DEF LockInv
<1>7. pump # "rest"
  BY DEF LockInv
<1>8. SinkInv'
  BY <1>2, <1>3, StillForwarded DEF SinkInv
<1>9. HeadInv'
  BY <1>1, <1>2, <1>3, <1>7, HeadsAfterStderr
<1>10. RelayInv'
  <2>1. ~mute
    BY DEF RelayInv
  <2>2. drain' = "rest" <=> piece = "long"
    BY <1>1
  <2>3. ASSUME NEW i \in 1..Len(wire'), wire'[i].from = "stderr", wire'[i].part # "rest"
        PROVE  \/ i < Len(wire') /\ wire'[i + 1] = Rest
               \/ i = Len(wire') /\ drain' = "rest"
               \/ LastRelayed(i)'
    <3>1. CASE i = Len(wire')
      <4>1. e.part # "rest"
        BY <1>4, <2>3, <3>1
      <4>2. CASE piece = "long"
        BY <2>2, <3>1, <4>2
      <4>3. CASE piece = "tail"
        <5>1. drain' = "read" /\ piece' = "tail"
          BY <4>3
        <5>2. \A j \in (i + 1)..Len(wire') : FALSE
          BY <1>4, <3>1
        <5> QED BY <5>1, <5>2 DEF LastRelayed
      <4> QED BY <1>1, <4>1, <4>2, <4>3
    <3>2. CASE i \in 1..Len(wire)
      <4>1. wire[i].from = "stderr" /\ wire[i].part # "rest"
        BY <1>4, <2>3, <3>2
      <4>2. i < Len(wire) /\ wire[i + 1] = Rest
        BY <3>2, <4>1 DEF RelayInv, LastRelayed
      <4>3. i + 1 \in 1..Len(wire)
        BY <1>4, <3>2, <4>2
      <4> QED BY <1>4, <4>2, <4>3
    <3> QED BY <1>4, <3>1, <3>2
  <2> QED BY <2>1, <2>3 DEF RelayInv, Rest
<1> QED BY <1>5, <1>6, <1>8, <1>9, <1>10, TailFrame

(* A long line of stderr gets its end. *)
LEMMA RelayEndsStep == PumpInv /\ RelayEnds => PumpInv'
<1> SUFFICES ASSUME PumpInv, RelayEnds PROVE PumpInv'
  OBVIOUS
<1> USE DEF PumpInv, RelayEnds, piVars, wireVars
<1>1. Rest \in Tokens /\ Rest.from = "stderr" /\ Rest.part = "rest"
  BY DEF Rest, Tokens
<1>2. wire' = Append(wire, Rest)
  BY DEF Rest
<1>3. /\ wire' \in Seq(Tokens) /\ Len(wire) \in Nat /\ Len(wire') = Len(wire) + 1
      /\ \A i \in 1..Len(wire) : wire'[i] = wire[i]
      /\ wire'[Len(wire')] = Rest
  BY <1>1, <1>2, Wired
<1>4. PumpTypeOK'
  BY <1>3 DEF PumpTypeOK
<1>5. LockInv'
  BY DEF LockInv
<1>6. pump # "rest"
  BY DEF LockInv
<1>7. SinkInv'
  BY <1>1, <1>2, StillForwarded DEF SinkInv
<1>8. HeadInv'
  BY <1>1, <1>2, <1>6, HeadsAfterStderr
<1>9. RelayInv'
  <2>1. ~mute
    BY DEF RelayInv
  <2>2. ASSUME NEW i \in 1..Len(wire'), wire'[i].from = "stderr", wire'[i].part # "rest"
        PROVE  i < Len(wire') /\ wire'[i + 1] = Rest
    <3>1. i \in 1..Len(wire) /\ wire'[i] = wire[i]
      BY <1>1, <1>3, <2>2
    <3>2. CASE i = Len(wire)
      <4>1. i + 1 = Len(wire')
        BY <1>3, <3>2
      <4> QED BY <1>3, <3>1, <4>1
    <3>3. CASE i # Len(wire)
      <4>1. i < Len(wire) /\ wire[i + 1] = Rest
        BY <2>2, <3>1, <3>3 DEF RelayInv, LastRelayed
      <4>2. i + 1 \in 1..Len(wire)
        BY <1>3, <3>1, <4>1
      <4> QED BY <1>3, <4>1, <4>2
    <3> QED BY <3>2, <3>3
  <2> QED BY <2>1, <2>2 DEF RelayInv, Rest
<1> QED BY <1>4, <1>5, <1>7, <1>8, <1>9, TailFrame

(* After a failure nothing is relayed any more. *)
LEMMA RelayFailsStep == PumpInv /\ RelayFails => PumpInv'
<1> SUFFICES ASSUME PumpInv, RelayFails PROVE PumpInv'
  OBVIOUS
<1> USE DEF PumpInv, RelayFails, piVars, wireVars
<1>1. PumpTypeOK'
  BY DEF PumpTypeOK
<1>2. LockInv'
  BY DEF LockInv
<1>3. RelayInv'
  <2>1. Len(wire) \in Nat
    BY DEF PumpTypeOK
  <2>2. ASSUME NEW i \in 1..Len(wire), wire[i].from = "stderr", wire[i].part # "rest"
        PROVE  (i < Len(wire) /\ wire[i + 1] = Rest) \/ LastRelayed(i)'
    <3>1. CASE i = Len(wire)
      <4>1. \A j \in (i + 1)..Len(wire) : FALSE
        BY <2>1, <3>1
      <4> QED BY <4>1 DEF LastRelayed
    <3>2. CASE i # Len(wire)
      BY <2>2, <3>2 DEF RelayInv, LastRelayed
    <3> QED BY <3>1, <3>2
  <2> QED BY <2>2 DEF RelayInv, Rest
<1> QED BY <1>1, <1>2, <1>3, SinkFrame, HeadFrame, TailFrame

(* The drain ends. *)
LEMMA DrainEndsStep == PumpInv /\ DrainEnds => PumpInv'
<1> SUFFICES ASSUME PumpInv, DrainEnds PROVE PumpInv'
  OBVIOUS
<1> USE DEF PumpInv, DrainEnds, piVars, wireVars
<1>1. PumpTypeOK'
  BY DEF PumpTypeOK
<1>2. LockInv'
  BY DEF LockInv
<1>3. RelayInv'
  BY DEF RelayInv, LastRelayed
<1> QED BY <1>1, <1>2, <1>3, SinkFrame, HeadFrame, TailFrame

(***************************************************************************)
(* The main thread, and the invariant of the pipes.                        *)
(***************************************************************************)
(* The main thread has seen Pi and the pump end. *)
LEMMA MainStep == PumpInv /\ (Joins \/ RunReturns) => PumpInv'
<1> SUFFICES ASSUME PumpInv, Joins \/ RunReturns PROVE PumpInv'
  OBVIOUS
<1> USE DEF PumpInv, Joins, RunReturns, piVars, wireVars
<1>1. Raised \in Returns /\ (Raised = "exit" => lost = {}) /\ (Raised = "forward" => "transcript" \notin lost)
  BY DEF Raised, Returns, PumpTypeOK
<1>2. PumpTypeOK'
  <2>1. main' \in {"waiting", "draining"} \cup Returns
    BY <1>1
  <2>2. UNCHANGED <<pi, heir, written, unsaid, stderr, taken, transcript, pump, drain, piece, lock, lost,
                    mute, wire, nonblocking, reader, stalls>>
    OBVIOUS
  <2> HIDE DEF Joins, RunReturns
  <2> QED BY <2>1, <2>2 DEF PumpTypeOK
<1>3. SinkInv'
  BY <1>1 DEF SinkInv
<1> QED BY <1>2, <1>3, LockFrame, HeadFrame, TailFrame, RelayFrame

(* PumpInv is inductive. *)
LEMMA PumpStep == PumpInv /\ PumpNext => PumpInv'
BY WriteLineStep, SpeakStep, PiEndsStep, HeirEndsStep, ReaderStep, PumpTakesStep,
   ForwardBeginsStep, ForwardEndsStep, ForwardFailsStep, PumpEndsStep, DrainTakesStep,
   RelayBeginsStep, RelayEndsStep, RelayFailsStep, DrainEndsStep, MainStep DEF PumpNext

(* Nothing but the steps of the pipes touches the invariant of the pipes. *)
LEMMA PumpStutter == PumpInv /\ UNCHANGED pumpVars => PumpInv'
<1> SUFFICES ASSUME PumpInv, UNCHANGED pumpVars PROVE PumpInv'
  OBVIOUS
<1> USE DEF PumpInv, pumpVars, piVars, wireVars
<1>1. PumpTypeOK'
  BY DEF PumpTypeOK
<1> QED BY <1>1, LockFrame, SinkFrame, HeadFrame, TailFrame, RelayFrame

(***************************************************************************)
(* What follows of the pipes.                                              *)
(***************************************************************************)
(* Two spoilt lines would need two last pieces of stderr. *)
LEMMA SpoiltOnce == PumpInv => OneLineSpoiltAtMost
<1> SUFFICES ASSUME PumpInv PROVE OneLineSpoiltAtMost
  OBVIOUS
<1>1. Len(wire) \in Nat
  BY DEF PumpInv, PumpTypeOK
<1>2. ASSUME NEW n \in Spoilt
      PROVE  \E i \in 2..Len(wire) : wire[i] = Line(n, "head") /\ wire[i - 1].from = "stderr" /\ LastRelayed(i - 1)
  <2>1. PICK i \in 2..Len(wire) :
          wire[i] = Line(n, "head") /\ wire[i - 1].from = "stderr" /\ wire[i - 1].part # "rest"
    BY <1>2 DEF Spoilt
  <2>2. i - 1 \in 1..Len(wire) /\ i - 1 # Len(wire) /\ (i - 1) + 1 = i
    BY <1>1
  <2>3. wire[i] # Rest
    BY <2>1 DEF Line, Rest
  <2>4. LastRelayed(i - 1)
    BY <2>1, <2>2, <2>3 DEF PumpInv, RelayInv
  <2> QED BY <2>1, <2>4
<1>3. ASSUME NEW m \in Spoilt, NEW n \in Spoilt PROVE m = n
  <2>1. PICK i \in 2..Len(wire) : wire[i] = Line(m, "head") /\ wire[i - 1].from = "stderr" /\ LastRelayed(i - 1)
    BY <1>2
  <2>2. PICK j \in 2..Len(wire) : wire[j] = Line(n, "head") /\ wire[j - 1].from = "stderr" /\ LastRelayed(j - 1)
    BY <1>2
  <2>3. ~(i < j) /\ ~(j < i)
    BY <1>1, <2>1, <2>2 DEF LastRelayed
  <2>4. i = j
    BY <1>1, <2>3
  <2> QED BY <2>1, <2>2, <2>4 DEF Line
<1>4. Spoilt # {} => mute \/ piece = "tail"
  BY <1>2 DEF LastRelayed
<1> QED BY <1>3, <1>4 DEF OneLineSpoiltAtMost

(* What run() returns is true of the sinks. *)
LEMMA HonestReturn == PumpInv => ReturnIsHonest
BY DEF PumpInv, PumpTypeOK, SinkInv, ReturnIsHonest, Returns

(***************************************************************************)
(* The main thread of the attempt.                                         *)
(***************************************************************************)
(* Init establishes the invariant. *)
LEMMA InitInv == Init => AttemptInv
<1> SUFFICES ASSUME Init PROVE AttemptInv
  OBVIOUS
<1>1. PumpInv
  BY PumpInitInv DEF Init
<1>2. TypeOK
  BY <1>1 DEF Init, TypeOK, PumpInv, Phases
<1>3. PhaseInv
  BY DEF Init, PhaseInv, Before, BeforeDirectory, Leaving, AfterPi, Judged
<1> QED BY <1>1, <1>2, <1>3 DEF AttemptInv

(* While Pi runs nothing is judged. *)
LEMMA PipedStep == AttemptInv /\ Piped(PumpNext) => AttemptInv'
<1> SUFFICES ASSUME AttemptInv, Piped(PumpNext) PROVE AttemptInv'
  OBVIOUS
<1>1. PumpInv'
  BY PumpStep DEF Piped, AttemptInv
<1>2. TypeOK'
  BY <1>1 DEF Piped, AttemptInv, TypeOK, PumpInv, attemptVars, fileVars
<1>3. PhaseInv'
  BY DEF Piped, AttemptInv, PhaseInv, attemptVars, fileVars, Before, BeforeDirectory, Leaving, AfterPi, Judged
<1> QED BY <1>1, <1>2, <1>3 DEF AttemptInv

(* Somebody else takes a path. *)
LEMMA ForeignStep == ASSUME NEW kind \in Kinds, AttemptInv, ForeignCreates(kind) PROVE AttemptInv'
<1>1. PumpInv'
  BY PumpStutter DEF AttemptInv, ForeignCreates
<1>2. TypeOK'
  BY <1>1 DEF AttemptInv, TypeOK, PumpInv, ForeignCreates
<1>3. PhaseInv'
  BY DEF AttemptInv, TypeOK, PhaseInv, ForeignCreates, pumpVars, Before, BeforeDirectory, Leaving, AfterPi, Judged
<1> QED BY <1>1, <1>2, <1>3 DEF AttemptInv

(* The checks fail before anything is there.                               *)
LEMMA CheckStep == AttemptInv /\ Check => AttemptInv'
<1> SUFFICES ASSUME AttemptInv, Check PROVE AttemptInv'
  OBVIOUS
<1> USE DEF AttemptInv, Check, At, Moves, FailsCleanly, Fails, fileVars
<1>1. PumpInv' /\ main' = main /\ transcript' = transcript
  BY PumpStutter DEF pumpVars
<1>2. TypeOK'
  BY <1>1, AttemptAssumption DEF TypeOK, PumpInv, Phases, Leftovers, Kinds
<1>3. PhaseInv'
  BY <1>1 DEF TypeOK, PhaseInv, Before, BeforeDirectory, Leaving, AfterPi, Judged, Returns, Kinds
<1> QED BY <1>1, <1>2, <1>3

(* Nothing is taken yet.                                                   *)
LEMMA PrepareStep == AttemptInv /\ Prepare => AttemptInv'
<1> SUFFICES ASSUME AttemptInv, Prepare PROVE AttemptInv'
  OBVIOUS
<1> USE DEF AttemptInv, Prepare, At, Moves, FailsCleanly, Fails, fileVars
<1>1. PumpInv' /\ main' = main /\ transcript' = transcript
  BY PumpStutter DEF pumpVars
<1>2. TypeOK'
  BY <1>1, AttemptAssumption DEF TypeOK, PumpInv, Phases, Leftovers, Kinds
<1>3. PhaseInv'
  BY <1>1 DEF TypeOK, PhaseInv, Before, BeforeDirectory, Leaving, AfterPi, Judged, Returns, Kinds
<1> QED BY <1>1, <1>2, <1>3

(* The transcript is created where nothing was.                            *)
LEMMA PinDestinationsStep == AttemptInv /\ PinDestinations => AttemptInv'
<1> SUFFICES ASSUME AttemptInv, PinDestinations PROVE AttemptInv'
  OBVIOUS
<1> USE DEF AttemptInv, PinDestinations, At, Moves, FailsCleanly, Fails, fileVars
<1>1. PumpInv' /\ main' = main /\ transcript' = transcript
  BY PumpStutter DEF pumpVars
<1>2. TypeOK'
  BY <1>1, AttemptAssumption DEF TypeOK, PumpInv, Phases, Leftovers, Kinds
<1>3. PhaseInv'
  BY <1>1 DEF TypeOK, PhaseInv, Before, BeforeDirectory, Leaving, AfterPi, Judged, Returns, Kinds
<1> QED BY <1>1, <1>2, <1>3

(* From here on there is a directory to remove.                            *)
LEMMA MakeDirectoryStep == AttemptInv /\ MakeDirectory => AttemptInv'
<1> SUFFICES ASSUME AttemptInv, MakeDirectory PROVE AttemptInv'
  OBVIOUS
<1> USE DEF AttemptInv, MakeDirectory, At, Moves, FailsCleanly, Fails, fileVars
<1>1. PumpInv' /\ main' = main /\ transcript' = transcript
  BY PumpStutter DEF pumpVars
<1>2. TypeOK'
  BY <1>1, AttemptAssumption DEF TypeOK, PumpInv, Phases, Leftovers, Kinds
<1>3. PhaseInv'
  BY <1>1 DEF TypeOK, PhaseInv, Before, BeforeDirectory, Leaving, AfterPi, Judged, Returns, Kinds
<1> QED BY <1>1, <1>2, <1>3

(* The contract is frozen.                                                 *)
LEMMA FreezeStep == AttemptInv /\ Freeze => AttemptInv'
<1> SUFFICES ASSUME AttemptInv, Freeze PROVE AttemptInv'
  OBVIOUS
<1> USE DEF AttemptInv, Freeze, At, Moves, FailsCleanly, Fails, fileVars
<1>1. PumpInv' /\ main' = main /\ transcript' = transcript
  BY PumpStutter DEF pumpVars
<1>2. TypeOK'
  BY <1>1, AttemptAssumption DEF TypeOK, PumpInv, Phases, Leftovers, Kinds
<1>3. PhaseInv'
  BY <1>1 DEF TypeOK, PhaseInv, Before, BeforeDirectory, Leaving, AfterPi, Judged, Returns, Kinds
<1> QED BY <1>1, <1>2, <1>3

(* Pi is started.                                                          *)
LEMMA StartStep == AttemptInv /\ Start => AttemptInv'
<1> SUFFICES ASSUME AttemptInv, Start PROVE AttemptInv'
  OBVIOUS
<1> USE DEF AttemptInv, Start, At, Moves, FailsCleanly, Fails, fileVars
<1>1. PumpInv' /\ main' = main /\ transcript' = transcript
  BY PumpStutter DEF pumpVars
<1>2. TypeOK'
  BY <1>1, AttemptAssumption DEF TypeOK, PumpInv, Phases, Leftovers, Kinds
<1>3. PhaseInv'
  BY <1>1 DEF TypeOK, PhaseInv, Before, BeforeDirectory, Leaving, AfterPi, Judged, Returns, Kinds
<1> QED BY <1>1, <1>2, <1>3

(* What run() returned decides how it goes on.                             *)
LEMMA PiReturnsStep == AttemptInv /\ PiReturns => AttemptInv'
<1> SUFFICES ASSUME AttemptInv, PiReturns PROVE AttemptInv'
  OBVIOUS
<1> USE DEF AttemptInv, PiReturns, At, Moves, FailsCleanly, Fails, fileVars
<1>1. PumpInv' /\ main' = main /\ transcript' = transcript
  BY PumpStutter DEF pumpVars
<1>2. TypeOK'
  BY <1>1, AttemptAssumption DEF TypeOK, PumpInv, Phases, Leftovers, Kinds
<1>3. PhaseInv'
  BY <1>1 DEF TypeOK, PhaseInv, Before, BeforeDirectory, Leaving, AfterPi, Judged, Returns, Kinds
<1> QED BY <1>1, <1>2, <1>3

(* The transcript is told to reach the disk.                               *)
LEMMA SyncStep == AttemptInv /\ Sync => AttemptInv'
<1> SUFFICES ASSUME AttemptInv, Sync PROVE AttemptInv'
  OBVIOUS
<1> USE DEF AttemptInv, Sync, At, Moves, FailsCleanly, Fails, fileVars
<1>1. PumpInv' /\ main' = main /\ transcript' = transcript
  BY PumpStutter DEF pumpVars
<1>2. TypeOK'
  BY <1>1, AttemptAssumption DEF TypeOK, PumpInv, Phases, Leftovers, Kinds
<1>3. PhaseInv'
  BY <1>1 DEF TypeOK, PhaseInv, Before, BeforeDirectory, Leaving, AfterPi, Judged, Returns, Kinds
<1> QED BY <1>1, <1>2, <1>3

(* The transcript is closed.                                               *)
LEMMA CloseStep == AttemptInv /\ Close => AttemptInv'
<1> SUFFICES ASSUME AttemptInv, Close PROVE AttemptInv'
  OBVIOUS
<1> USE DEF AttemptInv, Close, At, Moves, FailsCleanly, Fails, fileVars
<1>1. PumpInv' /\ main' = main /\ transcript' = transcript
  BY PumpStutter DEF pumpVars
<1>2. TypeOK'
  BY <1>1, AttemptAssumption DEF TypeOK, PumpInv, Phases, Leftovers, Kinds
<1>3. PhaseInv'
  BY <1>1 DEF TypeOK, PhaseInv, Before, BeforeDirectory, Leaving, AfterPi, Judged, Returns, Kinds
<1> QED BY <1>1, <1>2, <1>3

(* Without a change there is nothing to publish.                           *)
LEMMA DiffStep == AttemptInv /\ Diff => AttemptInv'
<1> SUFFICES ASSUME AttemptInv, Diff PROVE AttemptInv'
  OBVIOUS
<1> USE DEF AttemptInv, Diff, At, Moves, FailsCleanly, Fails, fileVars
<1>1. PumpInv' /\ main' = main /\ transcript' = transcript
  BY PumpStutter DEF pumpVars
<1>2. TypeOK'
  BY <1>1, AttemptAssumption DEF TypeOK, PumpInv, Phases, Leftovers, Kinds
<1>3. PhaseInv'
  BY <1>1 DEF TypeOK, PhaseInv, Before, BeforeDirectory, Leaving, AfterPi, Judged, Returns, Kinds
<1> QED BY <1>1, <1>2, <1>3

(* The temporary is there from now on.                                     *)
LEMMA CreateTemporaryStep == AttemptInv /\ CreateTemporary => AttemptInv'
<1> SUFFICES ASSUME AttemptInv, CreateTemporary PROVE AttemptInv'
  OBVIOUS
<1> USE DEF AttemptInv, CreateTemporary, At, Moves, FailsCleanly, Fails, fileVars
<1>1. PumpInv' /\ main' = main /\ transcript' = transcript
  BY PumpStutter DEF pumpVars
<1>2. TypeOK'
  BY <1>1, AttemptAssumption DEF TypeOK, PumpInv, Phases, Leftovers, Kinds
<1>3. PhaseInv'
  BY <1>1 DEF TypeOK, PhaseInv, Before, BeforeDirectory, Leaving, AfterPi, Judged, Returns, Kinds
<1> QED BY <1>1, <1>2, <1>3

(* Only a whole temporary is linked.                                       *)
LEMMA WriteTemporaryStep == AttemptInv /\ WriteTemporary => AttemptInv'
<1> SUFFICES ASSUME AttemptInv, WriteTemporary PROVE AttemptInv'
  OBVIOUS
<1> USE DEF AttemptInv, WriteTemporary, At, Moves, FailsCleanly, Fails, fileVars
<1>1. PumpInv' /\ main' = main /\ transcript' = transcript
  BY PumpStutter DEF pumpVars
<1>2. TypeOK'
  BY <1>1, AttemptAssumption DEF TypeOK, PumpInv, Phases, Leftovers, Kinds
<1>3. PhaseInv'
  BY <1>1 DEF TypeOK, PhaseInv, Before, BeforeDirectory, Leaving, AfterPi, Judged, Returns, Kinds
<1> QED BY <1>1, <1>2, <1>3

(* The patch appears, or the path is taken.                                *)
LEMMA LinkStep == AttemptInv /\ Link => AttemptInv'
<1> SUFFICES ASSUME AttemptInv, Link PROVE AttemptInv'
  OBVIOUS
<1> USE DEF AttemptInv, Link, At, Moves, FailsCleanly, Fails, fileVars
<1>1. PumpInv' /\ main' = main /\ transcript' = transcript
  BY PumpStutter DEF pumpVars
<1>2. TypeOK'
  BY <1>1, AttemptAssumption DEF TypeOK, PumpInv, Phases, Leftovers, Kinds
<1>3. PhaseInv'
  BY <1>1 DEF TypeOK, PhaseInv, Before, BeforeDirectory, Leaving, AfterPi, Judged, Returns, Kinds
<1> QED BY <1>1, <1>2, <1>3

(* The temporary goes, or is named.                                        *)
LEMMA UnlinkStep == AttemptInv /\ Unlink => AttemptInv'
<1> SUFFICES ASSUME AttemptInv, Unlink PROVE AttemptInv'
  OBVIOUS
<1> USE DEF AttemptInv, Unlink, At, Moves, FailsCleanly, Fails, fileVars
<1>1. PumpInv' /\ main' = main /\ transcript' = transcript
  BY PumpStutter DEF pumpVars
<1>2. TypeOK'
  BY <1>1, AttemptAssumption DEF TypeOK, PumpInv, Phases, Leftovers, Kinds
<1>3. PhaseInv'
  BY <1>1 DEF TypeOK, PhaseInv, Before, BeforeDirectory, Leaving, AfterPi, Judged, Returns, Kinds
<1> QED BY <1>1, <1>2, <1>3

(* Pi is judged when its artifacts are there.                              *)
LEMMA JudgeStep == AttemptInv /\ Judge => AttemptInv'
<1> SUFFICES ASSUME AttemptInv, Judge PROVE AttemptInv'
  OBVIOUS
<1> USE DEF AttemptInv, Judge, At, Moves, FailsCleanly, Fails, fileVars
<1>1. PumpInv' /\ main' = main /\ transcript' = transcript
  BY PumpStutter DEF pumpVars
<1>2. TypeOK'
  BY <1>1, AttemptAssumption DEF TypeOK, PumpInv, Phases, Leftovers, Kinds
<1>3. PhaseInv'
  BY <1>1 DEF TypeOK, PhaseInv, Before, BeforeDirectory, Leaving, AfterPi, Judged, Returns, Kinds
<1> QED BY <1>1, <1>2, <1>3

(* The directory goes, or is named and the attempt has failed.             *)
LEMMA TidyStep == AttemptInv /\ Tidy => AttemptInv'
<1> SUFFICES ASSUME AttemptInv, Tidy PROVE AttemptInv'
  OBVIOUS
<1> USE DEF AttemptInv, Tidy, At, Moves, FailsCleanly, Fails, fileVars
<1>1. PumpInv' /\ main' = main /\ transcript' = transcript
  BY PumpStutter DEF pumpVars
<1>2. TypeOK'
  BY <1>1, AttemptAssumption DEF TypeOK, PumpInv, Phases, Leftovers, Kinds
<1>3. PhaseInv'
  BY <1>1 DEF TypeOK, PhaseInv, Before, BeforeDirectory, Leaving, AfterPi, Judged, Returns, Kinds
<1> QED BY <1>1, <1>2, <1>3

(* Descriptors do not outlive the attempt.                                 *)
LEMMA UnpinStep == AttemptInv /\ Unpin => AttemptInv'
<1> SUFFICES ASSUME AttemptInv, Unpin PROVE AttemptInv'
  OBVIOUS
<1> USE DEF AttemptInv, Unpin, At, Moves, FailsCleanly, Fails, fileVars
<1>1. PumpInv' /\ main' = main /\ transcript' = transcript
  BY PumpStutter DEF pumpVars
<1>2. TypeOK'
  BY <1>1, AttemptAssumption DEF TypeOK, PumpInv, Phases, Leftovers, Kinds
<1>3. PhaseInv'
  BY <1>1 DEF TypeOK, PhaseInv, Before, BeforeDirectory, Leaving, AfterPi, Judged, Returns, Kinds
<1> QED BY <1>1, <1>2, <1>3

(* AttemptInv is inductive. *)
LEMMA AttemptStep == AttemptInv /\ [Next]_vars => AttemptInv'
<1> SUFFICES ASSUME AttemptInv, [Next]_vars PROVE AttemptInv'
  OBVIOUS
<1>1. CASE Piped(PumpNext)
  BY <1>1, PipedStep
<1>2. CASE Steps
  BY <1>2, CheckStep, PrepareStep, PinDestinationsStep, MakeDirectoryStep, FreezeStep, StartStep,
     PiReturnsStep, SyncStep, CloseStep, DiffStep, CreateTemporaryStep, WriteTemporaryStep, LinkStep,
     UnlinkStep, JudgeStep, TidyStep, UnpinStep DEF Steps
<1>3. CASE \E kind \in Kinds : ForeignCreates(kind)
  BY <1>3, ForeignStep
<1>4. CASE UNCHANGED vars
  <2>1. PumpInv'
    BY <1>4, PumpStutter DEF AttemptInv, vars
  <2>2. TypeOK'
    BY <1>4, <2>1 DEF AttemptInv, TypeOK, PumpInv, vars, attemptVars, fileVars
  <2>3. PhaseInv'
    BY <1>4 DEF AttemptInv, PhaseInv, vars, pumpVars, attemptVars, fileVars,
                Before, BeforeDirectory, Leaving, AfterPi, Judged
  <2> QED BY <2>1, <2>2, <2>3 DEF AttemptInv
<1> QED BY <1>1, <1>2, <1>3, <1>4 DEF Next

(***************************************************************************)
(* Theorems.                                                               *)
(***************************************************************************)
(* The invariant of an attempt holds in every reachable state, for any     *)
(* bounds and whatever artifacts are asked for.                            *)
THEOREM Invariance == Spec => []AttemptInv
BY InitInv, AttemptStep, PTL DEF Spec

(* Every variable of an attempt keeps its type. *)
THEOREM TypeCorrect == Spec => []TypeOK
<1>1. AttemptInv => TypeOK
  BY DEF AttemptInv
<1> QED BY Invariance, <1>1, PTL

(* attempt.py: a relayed write never lands in the middle of a line of Pi's. *)
THEOREM LinesAreWhole == Spec => []LinesStayTogether
<1>1. AttemptInv => LinesStayTogether
  BY DEF AttemptInv, PumpInv, HeadInv
<1> QED BY Invariance, <1>1, PTL

(* At most one forwarded line begins behind an unfinished piece of stderr. *)
THEOREM AtMostOneSpoilt == Spec => []OneLineSpoiltAtMost
<1>1. AttemptInv => OneLineSpoiltAtMost
  BY SpoiltOnce DEF AttemptInv
<1> QED BY Invariance, <1>1, PTL

(* What run() returns is true of Pi, of the transcript and of the wire. *)
THEOREM ReturnsAreHonest == Spec => []ReturnIsHonest
<1>1. AttemptInv => ReturnIsHonest
  BY HonestReturn DEF AttemptInv
<1> QED BY Invariance, <1>1, PTL

(* Pi is judged when every artifact asked for is there. *)
THEOREM ArtifactsBeforeVerdict == Spec => []ArtifactsPrecedeVerdict
<1>1. AttemptInv => ArtifactsPrecedeVerdict
  <2> SUFFICES ASSUME AttemptInv PROVE ArtifactsPrecedeVerdict
    OBVIOUS
  <2>1. ReturnIsHonest
    BY HonestReturn DEF AttemptInv
  <2> QED BY <2>1 DEF AttemptInv, PhaseInv, ArtifactsPrecedeVerdict, ReturnIsHonest, Judged,
                      Before, Leaving, AfterPi
<1> QED BY Invariance, <1>1, PTL

(* What an attempt leaves behind, its message names. *)
THEOREM LeftoversNamed == Spec => []LeftoversAreNamed
<1>1. AttemptInv => LeftoversAreNamed
  BY DEF AttemptInv, PhaseInv, LeftoversAreNamed, Leaving
<1> QED BY Invariance, <1>1, PTL

(* No step of an attempt takes a path that somebody else has, and no other *)
(* than a whole patch appears.                                             *)
THEOREM OnlyFreePathsTaken == Spec => TakesOnlyFreePaths
<1> DEFINE Free == \A kind \in Kinds : files'[kind] # files[kind] =>
                     /\ files[kind] = "absent"
                     /\ kind = "patch" /\ files'[kind] = "ours" => temporary = "whole"
<1>1. AttemptInv /\ [Next]_vars => [Free]_vars
  <2> SUFFICES ASSUME AttemptInv, Next PROVE Free
    BY DEF vars, attemptVars, fileVars
  <2> USE DEF AttemptInv, TypeOK
  <2>1. CASE Piped(PumpNext)
    BY <2>1 DEF Piped, attemptVars, fileVars
  <2>2. CASE PinDestinations
    BY <2>2 DEF PinDestinations, FailsCleanly, Fails, fileVars, Kinds
  <2>3. CASE Link
    BY <2>3 DEF Link, At, Moves, PhaseInv, fileVars, Kinds
  <2>4. CASE \E kind \in Kinds : ForeignCreates(kind)
    BY <2>4 DEF ForeignCreates, Kinds
  <2>5. CASE Steps /\ ~PinDestinations /\ ~Link
    BY <2>5 DEF Steps, Check, Prepare, MakeDirectory, Freeze, Start, PiReturns, Sync, Close, Diff,
                CreateTemporary, WriteTemporary, Unlink, Judge, Tidy, Unpin, FailsCleanly, fileVars
  <2> QED BY <2>1, <2>2, <2>3, <2>4, <2>5 DEF Next
<1> QED BY Invariance, <1>1, PTL DEF Spec, TakesOnlyFreePaths

(***************************************************************************)
(* The variant of an attempt: what Pi may still say, what waits in its     *)
(* pipes, how far each thread is in its round, how often deliver may still *)
(* stall, and the steps that the main thread has before it.                *)
(***************************************************************************)
PhasesLeft ==
  CASE phase = "check"  -> 17 [] phase = "prepare" -> 16 [] phase = "pin"    -> 15
    [] phase = "directory" -> 14 [] phase = "freeze" -> 13 [] phase = "start" -> 12
    [] phase = "pi"     -> 11 [] phase = "sync"    -> 10 [] phase = "close"  -> 9
    [] phase = "diff"   -> 8  [] phase = "create"  -> 7  [] phase = "write"  -> 6
    [] phase = "link"   -> 5  [] phase = "unlink"  -> 4  [] phase = "judge"  -> 3
    [] phase = "tidy"   -> 2  [] phase = "unpin"   -> 1  [] phase = "over"   -> 0

PiLeft     == 4 * (Lines - written) + 4 * unsaid + (IF pi = "running" THEN 2 ELSE 0) + (IF heir THEN 1 ELSE 0)
PumpLeft   == 3 * (written - taken)
                + (IF pump = "forward" THEN 3 ELSE IF pump = "rest" THEN 2 ELSE IF pump = "read" THEN 1 ELSE 0)
DrainLeft  == 3 * Len(stderr)
                + (IF drain = "relay" THEN 3 ELSE IF drain = "rest" THEN 2 ELSE IF drain = "read" THEN 1 ELSE 0)
ReaderLeft == 2 * (Stalls - stalls)
                + (IF reader = "stalled" THEN 2 ELSE IF reader = "reading" THEN 1 ELSE 0)
MainLeft   == IF main = "waiting" THEN 2 ELSE IF main = "draining" THEN 1 ELSE 0

StepsLeft == PiLeft + PumpLeft + DrainLeft + ReaderLeft + MainLeft + PhasesLeft

MostSteps == 4 * (Lines + Messages) + 2 * Stalls + 24

(* Every step of Pi, of deliver, of a thread or of the main thread leaves  *)
(* an attempt fewer steps; what others do to its paths leaves it as many.  *)
AttemptAdvances ==
  [][/\ StepsLeft \in 0..MostSteps
     /\ StepsLeft' < StepsLeft \/ UNCHANGED <<pumpVars, phase>>]_vars

(* While Pi's output is carried somebody can go on: a write under way ends *)
(* or fails or deliver reads on; the lock is free for who waits for it; or *)
(* the main thread, the pump, Pi or the relay has its next step open.      *)
NoCircularWait ==
  phase = "pi" /\ main \notin Returns =>
    \/ main = "draining"
    \/ pump = "rest" \/ drain = "rest"
    \/ lock = "free" /\ (pump = "forward" \/ drain = "relay")
    \/ pump = "done" /\ pi # "running"
    \/ pump = "read" /\ (taken < written \/ pi # "running")
    \/ /\ pi = "running"
       /\ \/ written < Lines /\ written - taken < Room
          \/ unsaid > 0 /\ Len(stderr) < Room
          \/ written = Lines /\ unsaid = 0
    \/ drain = "read" /\ stderr # <<>> /\ (Head(stderr) = "tail" => ~StderrOpen)

(* The relay does not end before the pipe it reads.                        *)
DrainInv == drain = "done" => stderr = <<>> /\ ~StderrOpen

LEMMA DrainStep == DrainInv /\ [Next]_vars => DrainInv'
<1> SUFFICES ASSUME DrainInv, [Next]_vars PROVE DrainInv'
  OBVIOUS
<1> USE DEF DrainInv, StderrOpen
<1>1. CASE Piped(PumpNext)
  <2>1. CASE WriteLine \/ Speak \/ PiEnds \/ HeirEnds
    BY <2>1 DEF WriteLine, Speak, PiEnds, HeirEnds
  <2>2. CASE Stall \/ Resume \/ Leave
    BY <2>2 DEF Stall, Resume, Leave, piVars
  <2>3. CASE PumpTakes(FALSE) \/ PumpTakes(TRUE) \/ ForwardBegins \/ ForwardEnds \/ ForwardFails \/ PumpEnds
    BY <2>3 DEF PumpTakes, ForwardBegins, ForwardEnds, ForwardFails, PumpEnds, piVars
  <2>4. CASE DrainTakes \/ RelayBegins \/ RelayEnds \/ RelayFails
    <3>1. drain' # "done" \/ drain' = drain
      BY <2>4 DEF DrainTakes, RelayBegins, RelayEnds, RelayFails
    <3>2. drain' # "done"
      BY <2>4, <3>1 DEF DrainTakes, RelayBegins, RelayEnds, RelayFails
    <3> QED BY <3>2
  <2>5. CASE DrainEnds
    BY <2>5 DEF DrainEnds, piVars
  <2>6. CASE Joins \/ RunReturns
    BY <2>6 DEF Joins, RunReturns, piVars
  <2> QED BY <1>1, <2>1, <2>2, <2>3, <2>4, <2>5, <2>6 DEF Piped, PumpNext
<1>2. ASSUME UNCHANGED pumpVars PROVE DrainInv'
  BY <1>2 DEF pumpVars, piVars
<1>3. CASE Steps
  <2>1. UNCHANGED pumpVars
    BY <1>3 DEF Steps, At, Check, Prepare, PinDestinations, MakeDirectory, Freeze, Start, PiReturns,
                Sync, Close, Diff, CreateTemporary, WriteTemporary, Link, Unlink, Judge, Tidy, Unpin
  <2> QED BY <1>2, <2>1
<1>4. CASE \E kind \in Kinds : ForeignCreates(kind)
  BY <1>2, <1>4 DEF ForeignCreates
<1>5. CASE UNCHANGED vars
  BY <1>2, <1>5 DEF vars
<1> QED BY <1>1, <1>3, <1>4, <1>5 DEF Next

LEMMA SomebodyGoesOn ==
  ASSUME AttemptInv, DrainInv
  PROVE  NoCircularWait
<1> SUFFICES ASSUME phase = "pi", main = "waiting", pump # "rest", drain # "rest",
                    ~ (lock = "free" /\ (pump = "forward" \/ drain = "relay")),
                    ~ (pump = "done" /\ pi # "running"),
                    ~ (pump = "read" /\ (taken < written \/ pi # "running")),
                    ~ (pi = "running" /\ written < Lines /\ written - taken < Room),
                    ~ (pi = "running" /\ unsaid > 0 /\ Len(stderr) < Room),
                    ~ (pi = "running" /\ written = Lines /\ unsaid = 0),
                    ~ (drain = "read" /\ stderr # <<>> /\ (Head(stderr) = "tail" => ~StderrOpen))
             PROVE  FALSE
  BY DEF NoCircularWait, AttemptInv, TypeOK, PumpTypeOK
<1> USE DEF AttemptInv, PumpInv, PumpTypeOK
<1>1. lock = "free"
  BY DEF LockInv
<1>2. pump = "read" /\ drain \in {"read", "done"}
  BY <1>1 DEF SinkInv
<1>3. taken = written /\ pi = "running"
  BY <1>2, Bounds
<1>4. written = Lines /\ unsaid > 0 /\ Len(stderr) >= Room
  BY <1>3, Bounds
<1>5. stderr # <<>> /\ Len(stderr) \in Nat /\ Len(stderr) >= 1
  BY <1>4, Bounds
<1>6. drain = "read"
  BY <1>2, <1>3 DEF DrainInv, StderrOpen
<1>7. Head(stderr) = "tail"
  BY <1>5, <1>6
<1>8. stderr[1] = "tail"
  BY <1>5, <1>7
<1>9. unsaid = 0
  BY <1>5, <1>8 DEF TailInv
<1> QED BY <1>4, <1>9, Bounds

(* Pi, the two threads of the attempt and deliver never wait for each      *)
(* other in a circle, for any sizes of the pipes.                          *)
THEOREM NobodyWaitsInACircle == Spec => []NoCircularWait
<1>1. Init => DrainInv
  BY DEF Init, PumpInit, DrainInv
<1> QED BY <1>1, DrainStep, SomebodyGoesOn, Invariance, PTL DEF Spec

LEMMA LeftTypes ==
  ASSUME AttemptInv
  PROVE  /\ PiLeft \in Nat /\ PumpLeft \in Nat /\ DrainLeft \in Nat /\ ReaderLeft \in Nat
         /\ MainLeft \in Nat /\ PhasesLeft \in Nat
<1> USE Bounds DEF AttemptInv, TypeOK, PumpTypeOK
<1>1. PiLeft \in Nat
  BY DEF PiLeft
<1>2. PumpLeft \in Nat
  BY DEF PumpLeft
<1>3. DrainLeft \in Nat
  <2>1. Len(stderr) \in Nat
    OBVIOUS
  <2> QED BY <2>1 DEF DrainLeft
<1>4. ReaderLeft \in Nat
  BY DEF ReaderLeft
<1>5. MainLeft \in Nat
  BY DEF MainLeft
<1>6. PhasesLeft \in 0..17
  <2>1. phase \in Phases
    OBVIOUS
  <2> QED BY ONLY <2>1 DEF PhasesLeft, Phases
<1> QED BY <1>1, <1>2, <1>3, <1>4, <1>5, <1>6

(* One part of the sum shrinks, and another by less grows.                 *)
LEMMA PumpLowers ==
  ASSUME AttemptInv, Piped(PumpNext)
  PROVE  StepsLeft' < StepsLeft
<1>0. /\ Lines \in Nat /\ Stalls \in Nat
      /\ written \in Int /\ taken \in Int /\ unsaid \in Nat /\ stalls \in Int
      /\ stalls <= Stalls /\ reader \in {"reading", "stalled", "gone"}
      /\ stderr \in Seq(Pieces) /\ heir \in BOOLEAN
  BY Bounds DEF AttemptInv, TypeOK, PumpTypeOK
<1>1. phase' = phase /\ PhasesLeft' = PhasesLeft
  BY DEF Piped, attemptVars, PhasesLeft
<1>2. /\ PiLeft \in Nat /\ PumpLeft \in Nat /\ DrainLeft \in Nat /\ ReaderLeft \in Nat /\ MainLeft \in Nat
      /\ PhasesLeft \in Nat /\ Len(stderr) \in Nat
  BY <1>0, LeftTypes
<1>3. CASE WriteLine
  <2>1. /\ DrainLeft' = DrainLeft /\ ReaderLeft' = ReaderLeft /\ MainLeft' = MainLeft
    BY <1>3 DEF WriteLine, DrainLeft, ReaderLeft, MainLeft, wireVars
  <2>2. PiLeft' = PiLeft - 4 /\ PumpLeft' = PumpLeft + 3
    BY <1>0, <1>3 DEF WriteLine, PiLeft, PumpLeft
  <2> QED BY <1>1, <1>2, <2>1, <2>2 DEF StepsLeft
<1>4. CASE Speak
  <2>1. /\ PumpLeft' = PumpLeft /\ ReaderLeft' = ReaderLeft /\ MainLeft' = MainLeft
    BY <1>4 DEF Speak, PumpLeft, ReaderLeft, MainLeft, wireVars, piVars
  <2>2. Len(stderr') = Len(stderr) + 1
    BY <1>0, <1>4 DEF Speak
  <2>3. PiLeft' <= PiLeft - 4 /\ PiLeft' \in Int
    BY <1>0, <1>4 DEF Speak, PiLeft
  <2>4. DrainLeft' = DrainLeft + 3
    BY <1>2, <1>4, <2>2 DEF Speak, DrainLeft
  <2>5. PICK n \in Int : n = PiLeft'
    BY <2>3
  <2>6. n <= PiLeft - 4
    BY <2>3, <2>5
  <2>7. n + PumpLeft + (DrainLeft + 3) + ReaderLeft + MainLeft + PhasesLeft < StepsLeft
    BY <1>2, <2>6 DEF StepsLeft
  <2>8. StepsLeft' = n + PumpLeft + (DrainLeft + 3) + ReaderLeft + MainLeft + PhasesLeft
    BY <1>1, <2>1, <2>4, <2>5 DEF StepsLeft
  <2> QED BY <2>7, <2>8
<1>5. CASE PiEnds \/ HeirEnds
  <2>1. /\ PumpLeft' = PumpLeft /\ DrainLeft' = DrainLeft /\ ReaderLeft' = ReaderLeft /\ MainLeft' = MainLeft
    BY <1>5 DEF PiEnds, HeirEnds, PumpLeft, DrainLeft, ReaderLeft, MainLeft, wireVars
  <2>2. PiLeft' < PiLeft /\ PiLeft' \in Int
    BY <1>0, <1>5 DEF PiEnds, HeirEnds, PiLeft
  <2>3. PICK n \in Int : n = PiLeft'
    BY <2>2
  <2>4. n < PiLeft
    BY <2>2, <2>3
  <2>5. n + PumpLeft + DrainLeft + ReaderLeft + MainLeft + PhasesLeft < StepsLeft
    BY <1>2, <2>4 DEF StepsLeft
  <2>6. StepsLeft' = n + PumpLeft + DrainLeft + ReaderLeft + MainLeft + PhasesLeft
    BY <1>1, <2>1, <2>3 DEF StepsLeft
  <2> QED BY <2>5, <2>6
<1>6. CASE Stall \/ Resume \/ Leave
  <2>1. /\ PiLeft' = PiLeft /\ PumpLeft' = PumpLeft /\ DrainLeft' = DrainLeft /\ MainLeft' = MainLeft
    BY <1>6 DEF Stall, Resume, Leave, PiLeft, PumpLeft, DrainLeft, MainLeft, piVars
  <2>2. ReaderLeft' < ReaderLeft /\ ReaderLeft' \in Int
    <3>1. CASE Stall
      BY <1>0, <3>1 DEF Stall, ReaderLeft
    <3>2. CASE Resume
      BY <1>0, <3>2 DEF Resume, ReaderLeft
    <3>3. CASE Leave
      <4>1. reader' = "gone" /\ stalls' = Stalls /\ reader # "gone"
        BY <3>3 DEF Leave
      <4>2. ReaderLeft' = 0
        BY <1>0, <4>1 DEF ReaderLeft
      <4>3. ReaderLeft > 0
        BY <1>0, <4>1 DEF ReaderLeft
      <4> QED BY <4>2, <4>3
    <3> QED BY <1>6, <3>1, <3>2, <3>3
  <2>3. PICK n \in Int : n = ReaderLeft'
    BY <2>2
  <2>4. n < ReaderLeft
    BY <2>2, <2>3
  <2>5. PiLeft + PumpLeft + DrainLeft + n + MainLeft + PhasesLeft < StepsLeft
    BY <1>2, <2>4 DEF StepsLeft
  <2>6. StepsLeft' = PiLeft + PumpLeft + DrainLeft + n + MainLeft + PhasesLeft
    BY <1>1, <2>1, <2>3 DEF StepsLeft
  <2> QED BY <2>5, <2>6
<1>7. CASE PumpTakes(FALSE) \/ PumpTakes(TRUE) \/ ForwardBegins \/ ForwardEnds \/ ForwardFails \/ PumpEnds
  <2>1. /\ PiLeft' = PiLeft /\ DrainLeft' = DrainLeft /\ ReaderLeft' = ReaderLeft /\ MainLeft' = MainLeft
    BY <1>7 DEF PumpTakes, ForwardBegins, ForwardEnds, ForwardFails, PumpEnds,
                PiLeft, DrainLeft, ReaderLeft, MainLeft, piVars, wireVars
  <2>2. PumpLeft' < PumpLeft /\ PumpLeft' \in Int
    <3>1. CASE PumpTakes(FALSE) \/ PumpTakes(TRUE)
      BY <1>0, <3>1 DEF PumpTakes, Onward, PumpLeft, piVars
    <3>2. CASE ForwardBegins \/ ForwardEnds
      BY <1>0, <3>2 DEF ForwardBegins, ForwardEnds, PumpLeft, piVars
    <3>3. CASE ForwardFails \/ PumpEnds
      BY <1>0, <3>3 DEF ForwardFails, PumpEnds, PumpLeft, piVars
    <3> QED BY <1>7, <3>1, <3>2, <3>3
  <2>3. PICK n \in Int : n = PumpLeft'
    BY <2>2
  <2>4. n < PumpLeft
    BY <2>2, <2>3
  <2>5. PiLeft + n + DrainLeft + ReaderLeft + MainLeft + PhasesLeft < StepsLeft
    BY <1>2, <2>4 DEF StepsLeft
  <2>6. StepsLeft' = PiLeft + n + DrainLeft + ReaderLeft + MainLeft + PhasesLeft
    BY <1>1, <2>1, <2>3 DEF StepsLeft
  <2> QED BY <2>5, <2>6
<1>8. CASE DrainTakes \/ RelayBegins \/ RelayEnds \/ RelayFails \/ DrainEnds
  <2>1. /\ PiLeft' = PiLeft /\ PumpLeft' = PumpLeft /\ ReaderLeft' = ReaderLeft /\ MainLeft' = MainLeft
    BY <1>8 DEF DrainTakes, RelayBegins, RelayEnds, RelayFails, DrainEnds,
                PiLeft, PumpLeft, ReaderLeft, MainLeft, piVars, wireVars
  <2>2. DrainLeft' < DrainLeft /\ DrainLeft' \in Int
    <3>1. CASE DrainTakes
      <4>1. Len(stderr') = Len(stderr) - 1
        BY <1>0, <3>1 DEF DrainTakes
      <4> QED BY <1>2, <3>1, <4>1 DEF DrainTakes, DrainLeft
    <3>2. CASE RelayBegins \/ RelayEnds
      BY <1>2, <3>2 DEF RelayBegins, RelayEnds, DrainLeft
    <3>3. CASE RelayFails \/ DrainEnds
      BY <1>2, <3>3 DEF RelayFails, DrainEnds, DrainLeft
    <3> QED BY <1>8, <3>1, <3>2, <3>3
  <2>3. PICK n \in Int : n = DrainLeft'
    BY <2>2
  <2>4. n < DrainLeft
    BY <2>2, <2>3
  <2>5. PiLeft + PumpLeft + n + ReaderLeft + MainLeft + PhasesLeft < StepsLeft
    BY <1>2, <2>4 DEF StepsLeft
  <2>6. StepsLeft' = PiLeft + PumpLeft + n + ReaderLeft + MainLeft + PhasesLeft
    BY <1>1, <2>1, <2>3 DEF StepsLeft
  <2> QED BY <2>5, <2>6
<1>9. CASE Joins \/ RunReturns
  <2>1. /\ PiLeft' = PiLeft /\ PumpLeft' = PumpLeft /\ DrainLeft' = DrainLeft /\ ReaderLeft' = ReaderLeft
    BY <1>9 DEF Joins, RunReturns, PiLeft, PumpLeft, DrainLeft, ReaderLeft, piVars, wireVars
  <2>2. MainLeft' < MainLeft /\ MainLeft' \in Int
    BY <1>9 DEF Joins, RunReturns, Raised, MainLeft
  <2>3. PICK n \in Int : n = MainLeft'
    BY <2>2
  <2>4. n < MainLeft
    BY <2>2, <2>3
  <2>5. PiLeft + PumpLeft + DrainLeft + ReaderLeft + n + PhasesLeft < StepsLeft
    BY <1>2, <2>4 DEF StepsLeft
  <2>6. StepsLeft' = PiLeft + PumpLeft + DrainLeft + ReaderLeft + n + PhasesLeft
    BY <1>1, <2>1, <2>3 DEF StepsLeft
  <2> QED BY <2>5, <2>6
<1> QED BY <1>3, <1>4, <1>5, <1>6, <1>7, <1>8, <1>9 DEF Piped, PumpNext

(* The main thread goes from one phase to a later one. *)
LEMMA PhaseLowers ==
  ASSUME AttemptInv, Steps
  PROVE  StepsLeft' < StepsLeft
<1>1. UNCHANGED pumpVars
  BY DEF Steps, At, Check, Prepare, PinDestinations, MakeDirectory, Freeze, Start, PiReturns,
         Sync, Close, Diff, CreateTemporary, WriteTemporary, Link, Unlink, Judge, Tidy, Unpin
<1>2. PhasesLeft' < PhasesLeft /\ PhasesLeft' \in Int
  <2> USE DEF At, Moves, FailsCleanly, Fails
  <2>1. CASE Check \/ Prepare \/ PinDestinations
    <3>1. \/ phase = "check" /\ phase' \in {"prepare", "over"}
          \/ phase = "prepare" /\ phase' \in {"pin", "tidy", "unpin"}
          \/ phase = "pin" /\ phase' \in {"directory", "tidy", "unpin"}
      BY <2>1 DEF Check, Prepare, PinDestinations
    <3> QED BY <3>1 DEF PhasesLeft
  <2>2. CASE MakeDirectory \/ Freeze \/ Start
    <3>1. \/ phase = "directory" /\ phase' \in {"freeze", "tidy", "unpin"}
          \/ phase = "freeze" /\ phase' \in {"start", "tidy", "unpin"}
          \/ phase = "start" /\ phase' \in {"pi", "tidy", "unpin"}
      BY <2>2 DEF MakeDirectory, Freeze, Start
    <3> QED BY <3>1 DEF PhasesLeft
  <2>3. CASE PiReturns \/ Sync \/ Close
    <3>1. \/ phase = "pi" /\ phase' \in {"sync", "close", "tidy", "unpin"}
          \/ phase = "sync" /\ phase' \in {"close", "tidy", "unpin"}
          \/ phase = "close" /\ phase' \in {"diff", "tidy", "unpin"}
      BY <2>3 DEF PiReturns, Sync, Close
    <3> QED BY <3>1 DEF PhasesLeft
  <2>4. CASE Diff \/ CreateTemporary \/ WriteTemporary
    <3>1. \/ phase = "diff" /\ phase' \in {"create", "judge", "tidy", "unpin"}
          \/ phase = "create" /\ phase' \in {"write", "tidy", "unpin"}
          \/ phase = "write" /\ phase' \in {"link", "unlink"}
      BY <2>4 DEF Diff, CreateTemporary, WriteTemporary
    <3> QED BY <3>1 DEF PhasesLeft
  <2>5. CASE Link \/ Unlink
    <3>1. \/ phase = "link" /\ phase' = "unlink"
          \/ phase = "unlink" /\ phase' \in {"judge", "tidy", "unpin"}
      BY <2>5 DEF Link, Unlink
    <3> QED BY <3>1 DEF PhasesLeft
  <2>6. CASE Judge \/ Tidy \/ Unpin
    <3>1. \/ phase = "judge" /\ phase' = "tidy"
          \/ phase = "tidy" /\ phase' = "unpin"
          \/ phase = "unpin" /\ phase' = "over"
      BY <2>6 DEF Judge, Tidy, Unpin
    <3> QED BY <3>1 DEF PhasesLeft
  <2> QED BY <2>1, <2>2, <2>3, <2>4, <2>5, <2>6 DEF Steps
<1>3. /\ PiLeft' = PiLeft /\ PumpLeft' = PumpLeft /\ DrainLeft' = DrainLeft
      /\ ReaderLeft' = ReaderLeft /\ MainLeft' = MainLeft
  BY <1>1 DEF pumpVars, piVars, wireVars, PiLeft, PumpLeft, DrainLeft, ReaderLeft, MainLeft
<1> QED BY <1>2, <1>3, LeftTypes DEF StepsLeft

LEMMA StepsAreNumbers == AttemptInv => StepsLeft \in Nat
BY LeftTypes DEF StepsLeft

LEMMA StepsAreBounded == Init => StepsLeft <= MostSteps
<1> SUFFICES ASSUME Init PROVE StepsLeft <= MostSteps
  OBVIOUS
<1>1. unsaid \in 0..Messages /\ Lines \in Nat /\ Messages \in Nat /\ Stalls \in Nat
  BY Bounds DEF Init, PumpInit
<1>2. PiLeft = 4 * Lines + 4 * unsaid + 2
  BY <1>1 DEF Init, PumpInit, PiLeft
<1>3. PumpLeft = 1 /\ DrainLeft = 1 /\ ReaderLeft = 2 * Stalls + 1 /\ MainLeft = 2
  BY <1>1 DEF Init, PumpInit, PumpLeft, DrainLeft, ReaderLeft, MainLeft
<1>4. PhasesLeft = 17
  BY DEF Init, PhasesLeft
<1> QED BY <1>1, <1>2, <1>3, <1>4 DEF StepsLeft, MostSteps

(* No attempt goes in circles: whichever sink fails, however deliver reads *)
(* and whatever Pi says, it has no more steps than it had at its start,    *)
(* four for a line or a piece of stderr, two for a stall, and 24.          *)
THEOREM AttemptsAdvance == Spec => AttemptAdvances
<1>1. ASSUME AttemptInv, [Next]_vars
      PROVE  StepsLeft' < StepsLeft \/ UNCHANGED <<pumpVars, phase>>
  <2>1. CASE Piped(PumpNext)
    BY <1>1, <2>1, PumpLowers
  <2>2. CASE Steps
    BY <1>1, <2>2, PhaseLowers
  <2>3. CASE \E kind \in Kinds : ForeignCreates(kind)
    BY <2>3 DEF ForeignCreates
  <2>4. CASE UNCHANGED vars
    BY <2>4 DEF vars, attemptVars
  <2> QED BY <1>1, <2>1, <2>2, <2>3, <2>4 DEF Next
<1>2. ASSUME UNCHANGED <<pumpVars, phase>> PROVE StepsLeft' = StepsLeft
  <2>1. /\ PiLeft' = PiLeft /\ PumpLeft' = PumpLeft /\ DrainLeft' = DrainLeft
        /\ ReaderLeft' = ReaderLeft /\ MainLeft' = MainLeft /\ PhasesLeft' = PhasesLeft
    BY <1>2 DEF pumpVars, piVars, wireVars, PiLeft, PumpLeft, DrainLeft, ReaderLeft, MainLeft, PhasesLeft
  <2> QED BY <2>1 DEF StepsLeft
<1>3. MostSteps \in Nat
  BY Bounds DEF MostSteps
<1>4. (AttemptInv => StepsLeft \in Nat)'
  BY StepsAreNumbers, PTL
<1>5. ASSUME AttemptInv, AttemptInv', [Next]_vars, StepsLeft <= MostSteps PROVE StepsLeft' <= MostSteps
  <2>1. StepsLeft \in Nat
    BY <1>5, StepsAreNumbers
  <2>2. StepsLeft' \in Nat
    BY <1>4, <1>5
  <2>3. MostSteps' = MostSteps
    BY DEF MostSteps
  <2> QED BY <1>1, <1>2, <1>3, <1>5, <2>1, <2>2, <2>3
<1>6. AttemptInv /\ StepsLeft <= MostSteps => StepsLeft \in 0..MostSteps
  BY StepsAreNumbers, <1>3
<1>7. Spec => [](AttemptInv /\ StepsLeft <= MostSteps)
  <2>1. AttemptInv /\ StepsLeft <= MostSteps /\ [Next]_vars => (AttemptInv /\ StepsLeft <= MostSteps)'
    BY <1>5, AttemptStep, <1>2, <1>3
  <2>2. Init => AttemptInv /\ StepsLeft <= MostSteps
    BY InitInv, StepsAreBounded
  <2> QED BY <2>1, <2>2, PTL DEF Spec
<1> QED BY <1>1, <1>6, <1>7, PTL DEF Spec, AttemptAdvances
=============================================================================
