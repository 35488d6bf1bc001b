------------------------------- MODULE Stream -------------------------------
(***************************************************************************)
(* _stream_implementer of src/satyrn_engine/delivery.py: reading a         *)
(* command's merged output through a pipe while its turn, token and time   *)
(* budget is enforced.  Three parties move independently: the engine, the  *)
(* command, and a descendant that inherited the pipe and may outlive it.   *)
(*                                                                         *)
(* Output is a sequence of halves of transcript lines: "turn" and "token"  *)
(* are the text of a line that counts one turn, or one output token, and   *)
(* "nl" the newline that ends it, so a read may split any line.            *)
(*                                                                         *)
(* Time is discrete.  It passes while the engine waits, where a wait that  *)
(* is not ended by output ends at its wake-up time or one tick later; and  *)
(* each turn of the loop takes no time or a tick, for reading and counting *)
(* a chunk or because the engine was kept from running.  Past the loop     *)
(* only the wait for a child that has not exited looks at the clock.       *)
(***************************************************************************)
EXTENDS Naturals, SequencesExt

CONSTANTS Budgets,   \* the budgets a delivery may declare
          Timeout,   \* --timeout
          NoLimit,   \* a limit that is not declared (None)
          MaxOutput, \* bound: halves of lines written
          MaxTime    \* bound: ticks

ASSUME StreamAssumption ==
  /\ Timeout \in Nat /\ MaxOutput \in Nat /\ MaxTime \in Nat
  /\ NoLimit \notin Nat
  /\ Budgets \subseteq [turn : Nat \cup {NoLimit}, token : Nat \cup {NoLimit},
                        deadline : Nat \cup {NoLimit}]

VARIABLES
  (* the operating system *)
  clock,    \* time.monotonic() - started
  child,    \* "running" or "exited"
  exitedAt, \* when the child exited
  left,     \* how many halves were unread then (history)
  open,     \* the child holds the write end of the pipe
  heir,     \* a descendant that inherited the write end: "none", "holds", "gone"
  pipe,     \* halves written and not yet read
  written,  \* everything ever written
  (* the engine *)
  pc,
  budget,
  wake,     \* when selector.select gives up
  spool,    \* the spool file
  tally,    \* the counter, with the unterminated tail (pending)
  verdict   \* how the stream ended

world  == <<child, exitedAt, left, open, heir, pipe, written>>
engine == <<pc, budget, wake, spool, tally, verdict>>
vars   == <<clock, world, engine>>

Halves == {"turn", "token", "nl"}

Tallies == [turns : 0..MaxOutput, tokens : 0..MaxOutput,
            tail : {"none", "turn", "token"}]

Exhausted == {"turn_exhausted", "token_exhausted", "deadline_exhausted"}

TypeOK ==
  /\ clock \in 0..MaxTime
  /\ child \in {"running", "exited"}
  /\ exitedAt \in 0..MaxTime
  /\ left \in 0..MaxOutput
  /\ open \in BOOLEAN
  /\ heir \in {"none", "holds", "gone"}
  /\ pipe \in Seq(Halves) /\ written \in Seq(Halves) /\ spool \in Seq(Halves)
  /\ pc \in {"top", "select", "poll", "read", "turn", "drain", "flush", "wait",
            "returned"}
  /\ budget \in Budgets
  /\ wake \in Nat
  /\ tally \in Tallies
  /\ verdict \in {"none", "exit", "timeout"} \cup Exhausted

Zero == [turns |-> 0, tokens |-> 0, tail |-> "none"]

Init ==
  /\ clock = 0
  /\ child = "running" /\ exitedAt = 0 /\ left = 0
  /\ open = TRUE /\ heir = "none"
  /\ pipe = <<>> /\ written = <<>>
  /\ pc = "top"
  /\ budget \in Budgets
  /\ wake = 0
  /\ spool = <<>>
  /\ tally = Zero
  /\ verdict = "none"

(* No write end is left, so a read returns what is there, then b"". *)
Closed == ~open /\ heir # "holds"
Ready  == pipe # <<>> \/ Closed

(* The command deadline: a longer budget deadline may still fire. *)
CommandDeadline ==
  IF budget.deadline # NoLimit /\ budget.deadline > Timeout
  THEN budget.deadline ELSE Timeout

Over(n, limit) == limit # NoLimit /\ n > limit

(* The limit a tally has crossed; turns are looked at first. *)
Crossed(t) ==
  IF Over(t.turns, budget.turn) THEN "turn_exhausted"
  ELSE IF Over(t.tokens, budget.token) THEN "token_exhausted" ELSE "none"

(* TurnCounter.feed on the line kept in the tail. *)
Feed(t) ==
  [turns  |-> t.turns + (IF t.tail = "turn" THEN 1 ELSE 0),
   tokens |-> t.tokens + (IF t.tail = "token" THEN 1 ELSE 0),
   tail   |-> "none"]

(* One half of a line joins the tail, or ends the line. *)
Join(t, half) == IF half = "nl" THEN Feed(t) ELSE [t EXCEPT !.tail = half]

Joined(t, halves) ==
  LET after[i \in 0..Len(halves)] ==
        IF i = 0 THEN t ELSE Join(after[i - 1], halves[i])
  IN  after[Len(halves)]

(* Past a crossed limit _consume_chunk has returned, and the rest of the   *)
(* chunk is only spooled.                                                  *)
Take(t, half) == IF Crossed(t) # "none" THEN t ELSE Join(t, half)

Taken(t, chunk) ==
  LET after[i \in 0..Len(chunk)] ==
        IF i = 0 THEN t ELSE Take(after[i - 1], chunk[i])
  IN  after[Len(chunk)]

(* count_spool: the same lines, read back from the spool to the end. *)
CountSpool(s) == Feed(Joined(Zero, s))

(***************************************************************************)
(* The engine.                                                             *)
(***************************************************************************)
Return(v) == pc' = "returned" /\ verdict' = v

(* Mutant: an undeclared deadline is taken for a number. *)
EarlierOfUnchecked(a, b) == b

EarlierOf(a, b) == IF b # NoLimit /\ b < a THEN b ELSE a

(* Mutant: at the deadline nobody looks whether the child is still there. *)
TopBlind ==
  /\ pc = "top"
  /\ IF Over(clock, budget.deadline)
     THEN Return("deadline_exhausted") /\ UNCHANGED wake
     ELSE IF clock >= CommandDeadline
     THEN Return("timeout") /\ UNCHANGED wake
     ELSE /\ pc' = "select"
          /\ wake' = EarlierOf(EarlierOf(clock + 1, CommandDeadline), budget.deadline)
          /\ UNCHANGED verdict
  /\ UNCHANGED <<clock, world, budget, spool, tally>>

(* Mutant: with a budget the command timeout is left to the deadline. *)
TopUntimed ==
  /\ pc = "top"
  /\ IF Over(clock, budget.deadline)
     THEN IF child = "exited"
          THEN pc' = "drain" /\ UNCHANGED <<wake, verdict>>
          ELSE Return("deadline_exhausted") /\ UNCHANGED wake
     ELSE /\ pc' = "select"
          /\ wake' = EarlierOf(clock + 1, budget.deadline)
          /\ UNCHANGED verdict
  /\ UNCHANGED <<clock, world, budget, spool, tally>>

(* The head of the loop: both clocks, then how long to wait for output. *)
Top ==
  /\ pc = "top"
  /\ IF Over(clock, budget.deadline)
     THEN IF child = "exited"
          THEN pc' = "drain" /\ UNCHANGED <<wake, verdict>>
          ELSE Return("deadline_exhausted") /\ UNCHANGED wake
     ELSE IF clock >= CommandDeadline
     THEN Return("timeout") /\ UNCHANGED wake
     ELSE /\ pc' = "select"
          /\ wake' = EarlierOf(EarlierOf(clock + 1, CommandDeadline), budget.deadline)
          /\ UNCHANGED verdict
  /\ UNCHANGED <<clock, world, budget, spool, tally>>

(* selector.select returns with output, or with nothing at its wake-up. *)
Select ==
  /\ pc = "select"
  /\ \/ Ready /\ pc' = "read"
     \/ ~Ready /\ clock >= wake /\ pc' = "poll"
  /\ UNCHANGED <<clock, world, budget, wake, spool, tally, verdict>>

(* Nothing came: process.poll() decides whether to go on.  Output written  *)
(* since select gave up is not looked at.                                  *)
PollChild ==
  /\ pc = "poll"
  /\ pc' = IF child = "exited" THEN "flush" ELSE "turn"
  /\ UNCHANGED <<clock, world, budget, wake, spool, tally, verdict>>

(* read1 returns some of what the pipe holds; _consume_chunk spools and    *)
(* counts it.                                                              *)
Consume(next) ==
  /\ \E n \in 1..Len(pipe) :
       LET chunk == SubSeq(pipe, 1, n)
           t     == Taken(tally, chunk)
       IN  /\ pipe' = SubSeq(pipe, n + 1, Len(pipe))
           /\ spool' = spool \o chunk
           /\ tally' = t
           /\ IF Crossed(t) = "none" THEN pc' = next /\ UNCHANGED verdict
                                     ELSE Return(Crossed(t))
  /\ UNCHANGED <<clock, child, exitedAt, left, open, heir, written, budget, wake>>

EndOfFile ==
  /\ pipe = <<>> /\ Closed
  /\ pc' = "flush"
  /\ UNCHANGED <<clock, world, budget, wake, spool, tally, verdict>>

ReadChunk == pc = "read" /\ (Consume("turn") \/ EndOfFile)

(* The loop begins again, at the same instant or a tick later.             *)
TurnEnds ==
  /\ pc = "turn" /\ pc' = "top"
  /\ clock' \in {clock, clock + 1} /\ clock' <= MaxTime
  /\ UNCHANGED <<world, budget, wake, spool, tally, verdict>>

(* Past the deadline the rest of an exited child's output is read to the   *)
(* end of the file, whoever still holds the pipe.                          *)
DrainChunk == pc = "drain" /\ (Consume("drain") \/ EndOfFile)

(* Mutant: the unterminated last line is counted but not judged. *)
FlushTailUnjudged ==
  /\ pc = "flush"
  /\ tally' = Feed(tally)
  /\ pc' = "wait"
  /\ UNCHANGED <<clock, world, budget, wake, spool, verdict>>

FlushTail ==
  /\ pc = "flush"
  /\ tally' = Feed(tally)
  /\ IF tally.tail # "none" /\ Crossed(Feed(tally)) # "none"
     THEN Return(Crossed(Feed(tally)))
     ELSE pc' = "wait" /\ UNCHANGED verdict
  /\ UNCHANGED <<clock, world, budget, wake, spool>>

(* Mutant: the child is waited for without a timeout. *)
WaitChildForever ==
  /\ pc = "wait"
  /\ child = "exited" /\ Return("exit")
  /\ UNCHANGED <<clock, world, budget, wake, spool, tally>>

(* process.wait with what is left until the command deadline. *)
WaitChild ==
  /\ pc = "wait"
  /\ \/ child = "exited" /\ Return("exit")
     \/ child = "running" /\ clock >= CommandDeadline /\ Return("timeout")
  /\ UNCHANGED <<clock, world, budget, wake, spool, tally>>

(***************************************************************************)
(* The command, its heir, and time.                                        *)
(***************************************************************************)
(* A half of a line: its text, or the newline that ends it. *)
Write ==
  /\ ~Closed
  /\ Len(written) < MaxOutput
  /\ \E half \in Halves :
       /\ half = "nl" <=> (written # <<>> /\ Last(written) # "nl")
       /\ pipe' = Append(pipe, half)
       /\ written' = Append(written, half)
  /\ UNCHANGED <<clock, child, exitedAt, left, open, heir, engine>>

(* The command leaves the pipe to a descendant, or lets go of it early. *)
Bequeath ==
  /\ open /\ heir = "none"
  /\ heir' = "holds"
  /\ UNCHANGED <<clock, child, exitedAt, left, open, pipe, written, engine>>

ChildCloses ==
  /\ child = "running" /\ open
  /\ open' = FALSE
  /\ UNCHANGED <<clock, child, exitedAt, left, heir, pipe, written, engine>>

ChildExits ==
  /\ child = "running"
  /\ child' = "exited"
  /\ exitedAt' = clock /\ left' = Len(pipe)
  /\ open' = FALSE
  /\ UNCHANGED <<clock, heir, pipe, written, engine>>

HeirCloses ==
  /\ heir = "holds"
  /\ heir' = "gone"
  /\ UNCHANGED <<clock, child, exitedAt, left, open, pipe, written, engine>>

(* The engine has nothing to do but wait. *)
Blocked ==
  \/ pc = "select" /\ ~Ready /\ clock <= wake
  \/ pc = "drain" /\ ~Ready
  \/ pc = "wait" /\ child = "running" /\ clock < CommandDeadline

Tick ==
  /\ Blocked
  /\ clock < MaxTime
  /\ clock' = clock + 1
  /\ UNCHANGED <<world, engine>>

Engine ==
  \/ Top \/ Select \/ PollChild \/ ReadChunk \/ TurnEnds
  \/ DrainChunk \/ FlushTail \/ WaitChild

Next ==
  \/ Engine
  \/ Write \/ Bequeath \/ ChildCloses \/ ChildExits \/ HeirCloses
  \/ Tick

Spec == Init /\ [][Next]_vars

(* The engine runs; time passes, also for a loop whose waits are zero long *)
(* (at the very instant of the deadline); a descendant of a trusted        *)
(* command does not hold the pipe for ever.  The command owes nothing.     *)
FairSpec == Spec /\ WF_vars(Engine) /\ SF_vars(Tick) /\ WF_vars(HeirCloses)

(***************************************************************************)
(* Properties.                                                             *)
(***************************************************************************)
(* The verdict agrees with what an honest count of the spool says: a       *)
(* command reported by its own exit is within its turns and tokens, and    *)
(* was counted exactly as count_spool would count it; one stopped for      *)
(* turns or tokens really crossed that limit.  However reads split lines.  *)
VerdictMatchesSpool ==
  pc = "returned" =>
    LET counted == CountSpool(spool) IN
      /\ verdict = "exit" => tally = counted /\ Crossed(counted) = "none"
      /\ verdict = "turn_exhausted" => Over(counted.turns, budget.turn)
      /\ verdict = "token_exhausted" => Over(counted.tokens, budget.token)

(* A command that finished before its deadline is never stopped for the    *)
(* deadline: the child is polled there.  At the command deadline it is     *)
(* not, so one that finished before may still be taken for timed out, but  *)
(* only while what it left is being read: unless a descendant kept the     *)
(* pipe, within a tick for the turn under way and one for each half read.  *)
FinishedIsBelieved ==
  pc = "returned" /\ child = "exited" =>
    /\ verdict = "deadline_exhausted" => exitedAt > budget.deadline
    /\ verdict = "timeout" =>
         \/ heir # "none"
         \/ CommandDeadline <= exitedAt + 1 + (left - Len(pipe))

(* The engine never waits past the command deadline for a command that is  *)
(* still running, however it spaces its output: a late end of the last     *)
(* wait and the turn after it aside, past it only the output of a command  *)
(* that has exited is still read to its end.                               *)
StopsOnTime ==
  clock > CommandDeadline + 2 =>
    child = "exited" /\ pc \in {"drain", "flush", "wait", "returned"}

(* The stream always comes to a verdict. *)
StreamReturns == <>(pc = "returned")

(* The docstring: "a deadline trips on a monotonic clock, so a quiet       *)
(* process is still stopped once its time is spent."  A late end of the    *)
(* last wait and the turn after it are granted.                            *)
DeadlineEnforced ==
  pc = "returned" /\ verdict = "exit" /\ budget.deadline # NoLimit =>
    exitedAt <= budget.deadline + 2

(* The docstring: "a child that has already exited is drained to EOF and   *)
(* reported by its own exit, so [...] its spool tail is not lost."         *)
TailKept ==
  pc = "returned" /\ verdict = "exit" => spool = written \/ heir # "none"
=============================================================================
