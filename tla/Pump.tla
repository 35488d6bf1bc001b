-------------------------------- MODULE Pump --------------------------------
(***************************************************************************)
(* How an attempt carries Pi's output (SubprocessPiRunner.run in           *)
(* attempt.py).  One thread pumps Pi's stdout line by line into two sinks: *)
(* the transcript, and forward, the attempt's own stdout, which deliver    *)
(* reads live to count turns.  A second thread relays Pi's stderr to the   *)
(* attempt's stderr.  deliver starts the attempt with stderr=STDOUT, so    *)
(* forward and the relay end in one pipe, the wire; pipe_lock keeps their  *)
(* writes apart.  The main thread waits for Pi, then for both threads.     *)
(*                                                                         *)
(* A line is one write of two steps, its head and its rest, which carries  *)
(* the newline; what deliver takes for a line ends with a rest.            *)
(***************************************************************************)
EXTENDS Integers, Sequences

CONSTANTS Lines,      \* bound: lines on Pi's stdout
          Messages,   \* bound: pieces on Pi's stderr
          Room,       \* bound: lines or pieces a pipe of Pi's holds
          Stalls      \* bound: how often deliver lets the wire fill up

ASSUME PumpAssumption ==
  Lines \in Nat /\ Messages \in Nat /\ Room \in Nat \ {0} /\ Stalls \in Nat

VARIABLES
  pi,          \* "running", "exited"
  heir,        \* whether a process Pi left behind holds its stderr
  written,     \* lines written to Pi's stdout
  unsaid,      \* pieces still to come on Pi's stderr
  stderr,      \* the pieces in Pi's stderr pipe
  taken,       \* lines the pump has read
  transcript,  \* lines in the transcript
  pump, drain, \* where the two threads are
  piece,       \* what the drain relays
  lock,        \* who holds pipe_lock
  lost,        \* sink_errors
  mute,        \* stopped_relaying
  wire,        \* what the attempt has put on the pipe to deliver
  nonblocking, \* whether that pipe is in O_NONBLOCK mode
  reader,      \* deliver's end of it: "reading", "stalled", "gone"
  stalls,
  main         \* the main thread, at last what run() returns or raises

piVars   == <<pi, heir, written, unsaid>>
wireVars == <<nonblocking, reader, stalls>>
pumpVars == <<piVars, stderr, taken, transcript, pump, drain, piece, lock, lost,
              mute, wire, wireVars, main>>

Pieces  == {"line", "long", "tail"}
Returns == {"exit", "forward", "transcript"}
Tokens  == [from : {"pi"}, line : 1..Lines, part : {"head", "rest"}]
             \cup [from : {"stderr"}, part : {"head", "rest", "tail"}]

PumpTypeOK ==
  /\ pi \in {"running", "exited"} /\ heir \in BOOLEAN
  /\ written \in 0..Lines /\ unsaid \in 0..Messages
  /\ stderr \in Seq(Pieces)
  /\ taken \in 0..written
  /\ transcript \in 0..taken
  /\ pump \in {"read", "forward", "rest", "done"}
  /\ drain \in {"read", "relay", "rest", "done"}
  /\ piece \in Pieces
  /\ lock \in {"free", "pump", "drain"}
  /\ lost \subseteq {"transcript", "forward"}
  /\ mute \in BOOLEAN
  /\ wire \in Seq(Tokens)
  /\ nonblocking \in BOOLEAN
  /\ reader \in {"reading", "stalled", "gone"}
  /\ stalls \in 0..Stalls
  /\ main \in {"waiting", "draining"} \cup Returns

(* Popen has succeeded, both threads are running. *)
PumpInit ==
  /\ pi = "running" /\ heir = FALSE /\ written = 0 /\ unsaid \in 0..Messages
  /\ stderr = <<>> /\ taken = 0 /\ transcript = 0
  /\ pump = "read" /\ drain = "read" /\ piece = "line"
  /\ lock = "free" /\ lost = {} /\ mute = FALSE
  /\ wire = <<>> /\ nonblocking \in BOOLEAN /\ reader = "reading" /\ stalls = 0
  /\ main = "waiting"

(***************************************************************************)
(* Pi and what it leaves behind.  A full pipe makes the writer wait.       *)
(***************************************************************************)
StderrOpen == pi = "running" \/ heir

WriteLine ==
  /\ pi = "running" /\ written < Lines /\ written - taken < Room
  /\ written' = written + 1
  /\ UNCHANGED <<pi, heir, unsaid, stderr, taken, transcript, pump, drain, piece, lock, lost,
                 mute, wire, wireVars, main>>

(* A tail ends without newline: anything after it would make it a line. *)
Speak ==
  /\ StderrOpen /\ unsaid > 0 /\ Len(stderr) < Room
  /\ \E p \in Pieces :
       /\ stderr' = Append(stderr, p)
       /\ unsaid' = IF p = "tail" THEN 0 ELSE unsaid - 1
  /\ UNCHANGED <<pi, heir, written, taken, transcript, pump, drain, piece, lock, lost,
                 mute, wire, wireVars, main>>

(* Pi ends when it has said everything, or before that, on a signal. *)
PiEnds ==
  /\ pi = "running" /\ pi' = "exited"
  /\ heir' \in BOOLEAN
  /\ unsaid' = IF heir' THEN unsaid ELSE 0
  /\ UNCHANGED <<written, stderr, taken, transcript, pump, drain, piece, lock, lost,
                 mute, wire, wireVars, main>>

HeirEnds ==
  /\ heir /\ heir' = FALSE /\ unsaid' = 0
  /\ UNCHANGED <<pi, written, stderr, taken, transcript, pump, drain, piece, lock, lost,
                 mute, wire, wireVars, main>>

(***************************************************************************)
(* deliver at the other end of the wire.                                   *)
(***************************************************************************)
Stall ==
  /\ reader = "reading" /\ stalls < Stalls
  /\ reader' = "stalled" /\ stalls' = stalls + 1
  /\ UNCHANGED <<piVars, stderr, taken, transcript, pump, drain, piece, lock, lost, mute, wire,
                 nonblocking, main>>

Resume ==
  /\ reader = "stalled" /\ reader' = "reading"
  /\ UNCHANGED <<piVars, stderr, taken, transcript, pump, drain, piece, lock, lost, mute, wire,
                 nonblocking, stalls, main>>

Leave ==
  /\ reader # "gone" /\ reader' = "gone" /\ stalls' = Stalls
  /\ UNCHANGED <<piVars, stderr, taken, transcript, pump, drain, piece, lock, lost, mute, wire,
                 nonblocking, main>>

(* A write to a pipe nobody reads fails; to a full one it fails in         *)
(* O_NONBLOCK mode, and waits otherwise.                                   *)
Accepted == reader = "reading"
Refused  == reader = "gone" \/ (reader = "stalled" /\ nonblocking)

(***************************************************************************)
(* The pump thread: each line to each sink that has not failed.            *)
(***************************************************************************)
(* Mutant: a sink that fails ends the pump's reading. *)
OnwardQuits == IF lost' # {} THEN "stuck" ELSE "forward"

Onward == IF "forward" \in lost THEN "read" ELSE "forward"

(* The next line, and the transcript if that has not failed.  No other *)
(* thread sees the transcript. *)
PumpTakes(fails) ==
  /\ pump = "read" /\ taken < written
  /\ taken' = taken + 1
  /\ IF "transcript" \in lost \/ fails
     THEN lost' = lost \cup {"transcript"} /\ UNCHANGED transcript
     ELSE transcript' = transcript + 1 /\ UNCHANGED lost
  /\ pump' = Onward
  /\ UNCHANGED <<piVars, stderr, drain, piece, lock, mute, wire, wireVars, main>>

(* Mutant: the pump does not wait for the lock. *)
ForwardBeginsUnlocked ==
  /\ pump = "forward" /\ Accepted
  /\ wire' = Append(wire, [from |-> "pi", line |-> taken, part |-> "head"])
  /\ pump' = "rest" /\ UNCHANGED lock
  /\ UNCHANGED <<piVars, stderr, taken, transcript, drain, piece, lost, mute, wireVars, main>>

ForwardBegins ==
  /\ pump = "forward" /\ lock = "free" /\ Accepted
  /\ wire' = Append(wire, [from |-> "pi", line |-> taken, part |-> "head"])
  /\ pump' = "rest" /\ lock' = "pump"
  /\ UNCHANGED <<piVars, stderr, taken, transcript, drain, piece, lost, mute, wireVars, main>>

(* However many writes and retries it takes, the line ends as one. *)
ForwardEnds ==
  /\ pump = "rest" /\ Accepted
  /\ wire' = Append(wire, [from |-> "pi", line |-> taken, part |-> "rest"])
  /\ pump' = "read" /\ lock' = "free"
  /\ UNCHANGED <<piVars, stderr, taken, transcript, drain, piece, lost, mute, wireVars, main>>

(* The reader is gone, or the bound of the retries has passed. *)
ForwardFails ==
  /\ (pump = "forward" /\ lock = "free") \/ pump = "rest"
  /\ Refused
  /\ lost' = lost \cup {"forward"}
  /\ pump' = "read" /\ lock' = "free"
  /\ UNCHANGED <<piVars, stderr, taken, transcript, drain, piece, mute, wire, wireVars, main>>

PumpEnds ==
  /\ pump = "read" /\ taken = written /\ pi # "running"
  /\ pump' = "done"
  /\ UNCHANGED <<piVars, stderr, taken, transcript, drain, piece, lock, lost, mute, wire, wireVars, main>>

(***************************************************************************)
(* The drain thread: whole lines, the tail when the pipe has ended; after  *)
(* a failure nothing more is relayed, but the pipe is still read.          *)
(***************************************************************************)
DrainTakes ==
  /\ drain = "read" /\ stderr # <<>>
  /\ Head(stderr) = "tail" => ~StderrOpen
  /\ piece' = Head(stderr) /\ stderr' = Tail(stderr)
  /\ drain' = IF mute THEN "read" ELSE "relay"
  /\ UNCHANGED <<piVars, taken, transcript, pump, lock, lost, mute, wire, wireVars, main>>

(* A line of more than PIPE_BUF bytes takes two writes under one lock. *)
RelayBegins ==
  /\ drain = "relay" /\ lock = "free" /\ Accepted
  /\ wire' = Append(wire, [from |-> "stderr",
                           part |-> [line |-> "rest", long |-> "head", tail |-> "tail"][piece]])
  /\ IF piece = "long"
     THEN drain' = "rest" /\ lock' = "drain"
     ELSE drain' = "read" /\ UNCHANGED lock
  /\ UNCHANGED <<piVars, stderr, taken, transcript, pump, piece, lost, mute, wireVars, main>>

RelayEnds ==
  /\ drain = "rest" /\ Accepted
  /\ wire' = Append(wire, [from |-> "stderr", part |-> "rest"])
  /\ drain' = "read" /\ lock' = "free"
  /\ UNCHANGED <<piVars, stderr, taken, transcript, pump, piece, lost, mute, wireVars, main>>

(* Mutant: relaying goes on after a failure. *)
RelayFailsOften ==
  /\ (drain = "relay" /\ lock = "free") \/ drain = "rest"
  /\ Refused
  /\ drain' = "read" /\ lock' = "free"
  /\ UNCHANGED <<piVars, stderr, taken, transcript, pump, piece, lost, mute, wire, wireVars, main>>

RelayFails ==
  /\ (drain = "relay" /\ lock = "free") \/ drain = "rest"
  /\ Refused
  /\ mute' = TRUE
  /\ drain' = "read" /\ lock' = "free"
  /\ UNCHANGED <<piVars, stderr, taken, transcript, pump, piece, lost, wire, wireVars, main>>

DrainEnds ==
  /\ drain = "read" /\ stderr = <<>> /\ ~StderrOpen
  /\ drain' = "done"
  /\ UNCHANGED <<piVars, stderr, taken, transcript, pump, piece, lock, lost, mute, wire, wireVars, main>>

(***************************************************************************)
(* The main thread.  The drain is waited for five seconds at most, then    *)
(* abandoned: it may go on to relay.                                       *)
(***************************************************************************)
(* Mutant: only Pi is waited for. *)
JoinsPi ==
  /\ main = "waiting" /\ pi # "running"
  /\ main' = "draining"
  /\ UNCHANGED <<piVars, stderr, taken, transcript, pump, drain, piece, lock, lost, mute, wire, wireVars>>

Joins ==
  /\ main = "waiting" /\ pi # "running" /\ pump = "done"
  /\ main' = "draining"
  /\ UNCHANGED <<piVars, stderr, taken, transcript, pump, drain, piece, lock, lost, mute, wire, wireVars>>

Raised == IF "transcript" \in lost THEN "transcript"
          ELSE IF "forward" \in lost THEN "forward" ELSE "exit"

RunReturns ==
  /\ main = "draining"
  /\ main' = Raised
  /\ UNCHANGED <<piVars, stderr, taken, transcript, pump, drain, piece, lock, lost, mute, wire, wireVars>>

PumpNext ==
  \/ WriteLine \/ Speak \/ PiEnds \/ HeirEnds
  \/ Stall \/ Resume \/ Leave
  \/ PumpTakes(FALSE) \/ PumpTakes(TRUE) \/ ForwardBegins \/ ForwardEnds \/ ForwardFails \/ PumpEnds
  \/ DrainTakes \/ RelayBegins \/ RelayEnds \/ RelayFails \/ DrainEnds
  \/ Joins \/ RunReturns

PumpSpec == PumpInit /\ [][PumpNext]_pumpVars
=============================================================================
