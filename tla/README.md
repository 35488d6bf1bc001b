# Satyrn Engine in TLA+

Satyrn Engine runs one untrusted-by-result command in a disposable git
worktree, turns the tree it leaves into a candidate commit and publishes that
commit under `refs/satyrn/candidates/<id>/head`. A Python core
(`src/satyrn_engine/`) does the work; a TypeScript package
(`packages/engine/`) drives it from the Pi coding agent (`/implement`) and
steers the Pi child that `attempt` starts. What is hard about it is not data
but order: processes that outlive their parents, signals that arrive between
two statements, cleanup that must come before publication, timers that race
late answers, and a model that may stop, repeat itself or change files behind
the Engine's back. These modules model that order.

Paths below are relative to the repository root, except that the README,
`docs/` and the two packages are meant when no directory is given.

## Inventory

Each component: the state it keeps, its operations, how it interacts, what is
hard about it, what makes it correct, and where that is modelled.

| Component | State | Operations and interactions | Hard behaviours | Correct when | Module |
|---|---|---|---|---|---|
| Delivery pipeline, `delivery.py` (`deliver`, `_preflight`, `_attempt`, `_run_and_commit`, `_validated`, `_cleanup_attempt`, `_publish`) | `_AttemptState` (registration, cleanup gate), the receipt built so far; in the repository: worktree list and refs | check, preflight, allocate, add worktree, run, commit, validate, clean up, publish; starts the command and the test runs, shares the repository with other deliveries | any step fails; SIGTERM between any two statements; two deliveries and the caller race for one ref | cleanup precedes publication, a receipt tells the truth, leftovers are named, it ends | `Delivery`, `CandidateStore` |
| Command line, `cli.py` (`deliver`, `attempt`) | a SIGTERM handler, stdout | turns SIGTERM into one exception, writes the receipt | signal in the windows around the handler; closed stdout | exit 143 or a written receipt, never both | `Delivery`, `Termination` |
| Budget stream, `_stream_implementer`, `budget.py` | counter with an unterminated tail, spool, clock | select, read, count, poll, drain, wait; shares a pipe with the command and its descendants | lines split anywhere; exit between two system calls; heirs of the pipe | verdict and spool agree, a finished command is believed, the stream returns | `Stream` |
| Group teardown, `_teardown_process_group` | group answer, reaped flag | SIGTERM, grace, SIGKILL, reap, probe | system calls that fail, members that outlive SIGKILL | "safe" means gone | `Termination` |
| `attempt`, `attempt.py` (`SubprocessPiRunner`) | recorded signal, the Pi process, a pump thread and a relay thread with one lock, the sinks that failed | start Pi in a session of its own, forward SIGTERM, pump its stdout into transcript and stdout, relay its stderr, wait, join | signal before, during and after the start of Pi; tool that holds Pi's stdout; two writers on one pipe; a reader that stalls or leaves; a sink that fails | no Pi is left behind, lines stay whole, what it returns is honest | `Termination` (signals), `Pump` (output) |
| Attempt workspace and artifacts, `attempt.py` (`attempt`, `_prepare`, `_run`, `_publish`) | pinned parents of the destinations, a private directory, transcript and patch | check, pin, create the transcript, freeze the context, run Pi, sync, diff, write and link the patch, judge, tidy | any step fails; others create the destinations meanwhile | artifacts before the verdict, nothing overwritten, leftovers named, it ends | `Attempt` |
| `/implement`, `orchestrator.ts` | the closures of `collect` and `runDelivery` | derive, confirm, locate git, deliver; event handlers, timers and probes of one loop | every order of spawn, error, close, deadline, timer | a refusal is told, and only when nothing runs | `Adapter` |
| Self-test gates, `runner.ts` (`registerRunner`) | ten closure variables (generations, beliefs, counters) | run, detect, steer, completion gate, red-stop gate, resume; follow-ups keep the session going | the model stops after any sequence of events | stops are judged, the model is told once, follow-ups are bounded | `Gate` |
| Loop breaker, `engine.ts` | window of admitted keys, counts of refusals, revision map, consecutive refusals | inspect every tool call, note landed changes | window, counts and revisions drift apart | repeats are refused honestly and end the turn | `LoopBreaker` |
| Bounded replacement, `mutator.ts`, `mutation.py` | revision map, poisoned flag; the file | request with the captured revision, check, replace in memory, rename, answer | stale revisions, lost answers, other writers | nothing is replaced unseen, revisions stay true | `Editing` |
| Self-test exchange, `runner.py` (`run_tests`, `restore_carried`, `_run_once`), `orchestrator.ts` (`exchange`, `collect`), `protocol.py` (test request) | a process, its deadline, the timeout that its runs share | start, restore the carried files, run the command up to three times, answer or be cut | a start that hangs, runs that hang, restores that fail, tests the model edited | a pass was earned on the base's files, the runs do not lose the answer, it is answered | `TestRuns`, `Session` |
| Scope, bounds, paths (`scope.ts`, `bounds.ts`, `paths.ts`) | one flag | refuse a tool call by its input | spelling of paths and commands | input space, not order | not modelled |
| Protocol messages, contracts, check, derive, exits | none | one request, one answer | parsing | input space | not modelled |
| `tools/` | none | development scripts | | | not modelled |

How they interact: Pi runs `/implement` (`Adapter`), which starts `deliver`
(`Delivery`), which runs `attempt` (`Attempt`) under a budget (`Stream`)
and tears its group down when it must (`Termination`). `attempt` starts a second
Pi and carries its output (`Pump`); that Pi's
tool calls pass the loop breaker (`LoopBreaker`), its edits are exchanges with a
Python process (`Editing`), and its stops are judged by the gates (`Gate`) over
self-test exchanges (`TestRuns`, `Session`).
The result comes back as a receipt, which `Adapter` reads.

`PROJECT.json` lists the same components with their sources, and the hazards,
each at its line and with the properties that cover it.

## Modules

**`CandidateStore`** is the abstract specification: what a caller may rely on,
with every process and file hidden. A ref is created at most once, only by a
delivery that was still working; a candidate is announced only after its
creation; a refusal means that this delivery created nothing; a delivery may
die silently; anyone else may create or remove refs. `Delivery` implements it
(checked and proved), and `Adapter` does as seen through what the developer is
told.

**`Delivery`** has one action per statement of the pipeline that can fail or be
observed, named after the function it stands for: `Check`,
`InspectRepository` and `InspectRef` (`_preflight`), `AllocateParent`,
`EnterAttempt`, `AddWorktree`, `OpenSpool`, `StartCommand`, the ends of a
command (`CommandFinished`, `TripLimit`, `TearDownCommand`), `InspectHead`,
`CommitTree`, the validation runs, `CleanupFails` and its success,
`Publish`, `Explain` and the write of the receipt. `Sigterm` raises the
termination exception at any statement of `deliver` and follows the `finally`
blocks the exception passes; `Kill` ends the process with no cleanup. The
shared `refs` and `wt` are what other deliveries see. Receipts are records of
the fields the properties tell apart.

**`Stream`** has three parties: the engine (`Top`, `Select`, `PollChild`,
`ReadChunk`, `DrainChunk`, `FlushTail`, `WaitChild`, the statements of the
loop), the command (`Write`, `Bequeath`, `ChildCloses`, `ChildExits`) and a
descendant that inherited the pipe (`HeirCloses`). Output is halves of lines,
so that a read can end inside a line. Time passes while the engine waits, and
between two turns of the loop (`TurnEnds`): a turn, with what it reads and counts,
takes no time or a tick, so output that is ready does not stop the clock. A read of
the drain takes no time, since nothing after it looks at the clock but a wait for a
child that has not exited.

**`Termination`** composes both sides of the signal: `_teardown_process_group`
in `deliver`, and `SubprocessPiRunner.run` with its handler in `attempt`. The
handler's read of the Pi process and its kill, the interpreter's boot, the
start of Pi, the joined pump and the publication are separate steps; Pi is in
a session of its own, so that only the handler, not the group signal, reaches it.

**`Adapter`** is the promise machinery of `orchestrator.ts`: `collect` for the
short children and `runDelivery` for the delivery. The fields of `run` are the
closure variables. `posix` chooses between group and direct-child control.
The engine behind the pipe is the store's protocol: it can create, print,
lose the pipe and die at any time.

**`Pump`** is the time while Pi runs, as seen by the three threads of
`SubprocessPiRunner.run`: the pump (`PumpTakes`, `ForwardBegins`, `ForwardEnds`,
`ForwardFails`), the stderr relay (`DrainTakes`, `RelayBegins`, `RelayEnds`,
`RelayFails`) and the main thread (`Joins`, `RunReturns`). A line is written in two
steps, so that the other thread can come between; `pipe_lock` is `lock`, and
`wire` is what arrives at `deliver`, which may stall (a full pipe) or leave.
**`Attempt`** extends it with what `attempt` does before and after, one action per
step that can fail, and with a rival (`ForeignCreates`) who creates the files the
attempt was told to write. Left out: a last line of Pi without newline, what a
failed `BufferedWriter` flushes when the interpreter ends, and a stdout that cannot
be read (the third kind of sink error). An abandoned relay thread is followed no
further than `run`. SIGKILL of the attempt and a tool that holds Pi's stdout are
in `Termination`; a signal is an exit of Pi here. `git diff` names only tracked
files, so "the patch" is a patch of those.

**`Gate`** has the ten closure variables of `registerRunner`, one action per event
(`Mutate`, `BashTested`, `Bash`, `SelfTest`, `FinalTurn`, `BrokenTurn`), and
whether the suite passes as a variable that shell commands change unseen. An
exchange is one step with a free outcome there, so `Gate` is the abstract
specification of a session, and **`Session`** the detailed one: the same gates
over **`TestRuns`**, where an exchange is a process that starts, restores the
carried files, runs the command one to three times on a shared timeout, and
answers, dies, or is cut by the adapter's deadline. `Session` implements `Gate`
(proved) and adds what only the detail can say: that a pass was earned, that
the runs leave the deadline to the start-up, and that every asker is answered.
What `TestRuns` assumes: a process that a timed-out test run leaves running
(`_run_once` kills only the direct child) leaves tree and carried files alone during
later exchanges; after `late` the clock is not counted; "carried" means the
tracked carried files, which is what `restore_carried` restores. Git calls during
start-up end, or are cut with their process at the deadline.

**`LoopBreaker`** is the guard: `Admit` and `Refuse` are the two ways out of
`inspect`, with the consecutive refusals of the `tool_call` listener;
`NoteChange` is what both `tool_result` branches do. **`Editing`** extends it
with the calls themselves: reads, shell commands, `write`, and `edit` as a
four-step exchange (`Edit`, `Prepare`, `Publish`, `Answer`) that can be lost at
every step (`LoseAnswer`) while others write (`ForeignWrite`). A replacement is
a pair of contents: the anchor is in the first, and what replaces it makes the
second. `After` is what `replace_many` makes of a sequence of them.

`MC*` modules give the constants values, `*Proofs` modules hold the theorems.
Definitions whose comment says "Mutant" are plausible bugs that no
specification uses; each property is shown to notice one of them.

## Runs

| Run | Question | Bounds |
|---|---|---|
| `delivery_solo` | Whatever fails or interrupts one delivery: `PublishedOnlyAfterCleanup`, `LeftoverReported`, `VerdictSound`, `NoRemovalUnderCommand`, `EvidenceKept`, `EveryDeliveryEnds` | one delivery, contracts with and without budget and with 0 to 3 validation runs; others create and remove the ref |
| `delivery_race` | Two deliveries for one id: `AnnouncedIffPublished`, `ImplementsStore` | no validation runs, at most one delivery signalled or killed, no effects on HEAD (`RaceBounds`) |
| `stream` | `TypeOK`, `VerdictMatchesSpool`, `FinishedIsBelieved`, `StopsOnTime`, `StreamReturns` | every combination of limits, deadline before and after the timeout, four halves of lines, eight ticks |
| `termination` | `SafeMeansGone`, `NoPiLeftBehind`, `SignalReachesPi`, `TeardownEnds` | three probes within the grace period |
| `adapter` | `TypeOK`, `RefusedMeansOver`, `ImplementsStore`, `RefusalIsTold` | none: the module is finite |
| `attempt` | `LinesStayTogether`, `OneLineSpoiltAtMost`, `ReturnIsHonest`, `ArtifactsPrecedeVerdict`, `LeftoversAreNamed`, `TakesOnlyFreePaths`, `AttemptEnds` | two lines on stdout, two pieces on stderr, pipes that hold one, one stall; both artifacts wanted |
| `session` | `EndsJudged`, `FollowUpsBounded`, `ToldOncePerGeneration`, `SteerIsDeserved`, `PassIsEarned`, `DeadlineIsForStartup`, `AskedIsAnswered` | one mutation, one resume; zero to two further runs, timeout 2, floor 1, deadline 5 |
| `editing` | `WindowHolds`, `RepeatsEndTheTurn`, `RevisionIsTrue`, `RefusalsAreHonest`, `NoBlindOverwrite` | two paths, one writable; two contents and absence; window 3, threshold 2, two consecutive refusals; replacements that apply, and ones whose second part fails |
| `delivery_test_teardown`, `stream_deadline`, `stream_tail`, `termination_pi` | one statement each of the documentation that the code does not keep (see Findings) | as above; `stream_deadline` with the timeout at 4 |

Why the bounds are enough. Deliveries share nothing but refs and the worktree
list, and meet only at `update-ref`, so two racing for one id and a third
party (`Meddle`) show every order of creation and removal. The statements a
delivery executes do not depend on how many validation runs there are beyond
"none, the last, one more". In `Stream` the loop has no memory but the tally,
the spool and the clock; one limit of 1 is crossed by the first, met by the
second line, and a read of any length splits the four halves everywhere. Eight ticks
are two more than the latest instant at which the loop may still look at the clock
for a running command (command deadline 4, a late end of the last wait, one turn). The
grace loop of `Termination` only asks whether another probe is left. In `Pump`
two lines and two pieces meet at every point of each other, and a pipe of one is
full at once. In `Session` one mutation and one resume are what fits beside the
clock: there is a generation that was never checked, one checked, steered,
enforced and red-stopped, and shell commands change the tree under all of them;
that nothing else happens at later generations is what the proofs about `Gate` and
`Session` show, which hold for every bound. Timeout, floor and deadline
leave one tick between what the runs may take and what the exchange has.
The window of the loop breaker is compared with the threshold only; 3 and 2
have evictions with and without a copy left in the window, which 20 and 5
have too. Symmetry is used for the racing deliveries and for the two contents,
which no definition names; no liveness property is checked there.

The deliveries, sessions and streams stop by design, so deadlock is not an
error in these runs; that they stop only where they should is what
`EveryDeliveryEnds`, `StreamReturns`, `TeardownEnds` and `RefusalIsTold` say.

## Fairness

* `Delivery`: the engine process of each delivery goes on (weak fairness of its
  steps); survivors of a trusted command's group end. Nobody is obliged to signal,
  kill or meddle. The waits for the command and its tests have timeouts; three kinds
  have none, and `EveryDeliveryEnds` assumes that they end: the git calls (`_git`), the
  reads of the drain (`delivery.py:1306`, while a descendant holds the pipe) and
  `communicate()` after a timed-out test command.
* `Stream`: the engine goes on, time passes (strong fairness, because at the very
  instant of the deadline the loop spins with waits of length zero, and time passes
  between two of them), and an heir of the pipe does not hold it for ever. The
  command owes nothing: it may run on and say nothing.
* `Termination`: both engine processes go on, a signal sent is delivered, a
  killed process dies. Pi, helpers and tools owe nothing.
* `Adapter`: the event loop serves events and timers, a killed child ends, and
  a probe of an empty group says so now and then (strong fairness, because
  probes may fail in between). Nothing is assumed of the children: `RefusalIsTold`
  exempts waiting for a process that lives on, by name.
* `Attempt`: the engine's threads and the steps of `attempt` go on; Pi and what it
  leaves behind end (a Pi that does not is stopped by `deliver`, see `Termination`);
  a stalled reader resumes or leaves. The first write of a line needs the lock and
  room in the pipe, which come and go with the other thread and the reader, hence
  strong fairness for it.
* `Session`: time passes, timers fire, a process that was killed ends, an answer is
  taken. Nothing obliges the model, nor a test run, to end. `uv` and the Python it
  starts count as one process: when it is killed, both end.
* `Gate`, `Editing`: no fairness. Nothing obliges a model to do anything.

## Proofs

TLAPS checks these for every value of the constants that satisfies the named
assumptions. Every safety property of a run that passes is stated by a theorem.

* `DeliveryProofs`. The inductive invariant `IInv` adds to `TypeOK`: `RunsLeft` (a run
  is only started while one is left), `GateVouches` (an open cleanup gate vouches for
  the command), `RegistrationSound` (the engine never believes a worktree
  absent that is there), `CleanedBeforePublished` (the directory goes last,
  publication after it) and `ClaimsMatch` (a receipt claims a candidate iff it
  was published). Without `RegistrationSound`, "cleaned" would only be the
  engine's belief, and without `GateVouches` nothing ties a removal to the
  command. From it: `TypeOK`, `PublishedOnlyAfterCleanup`,
  `AnnouncedIffPublished`, `NoRemovalUnderCommand`, and that every step of the
  pipeline is a step of the store or none (`ImplementsStore`). A second invariant
  on top of it, `EInv`, says per delivery what a termination rules out
  (`TerminationFits`), what is on disk when no cleanup comes any more
  (`LeftoverFits`) and what the receipt holds at each statement (`EvidenceFits`):
  the three properties speak of written receipts, which were built many steps
  earlier. From it: `LeftoverReported`, `VerdictSound`, `EvidenceKept`.
  `DeliveriesEndInThirtySteps` gives each delivery a number that its own steps lower
  and no other step touches. Assumed: contracts have zero to three runs; `NoCommit`,
  `Foreign` and deliveries differ.
* `TerminationProofs`. `IInv` ties the engine's answers about the group to
  the group, and each place of the attempt to what it has started, recorded and
  published. From it: `TypeOK`, `SafeMeansGone`, `NoPiLeftBehind`, for any number of
  probes in the grace period. `SignalsAreForwarded` is the safety core of
  `SignalReachesPi` (a Pi that is watched was told of each recorded signal), and
  `TeardownsAdvance` a number that every step of a teardown lowers.
* `Recursion` has what the next modules need of functions that are defined by
  recursion over a prefix of the naturals: induction from well-foundedness, and that
  a function that is given step by step exists. The library's induction theorems take
  an operator and cannot be used.
* `StreamProofs`. `ClockInv` bounds the clock at each statement by the wait that led
  there and, once the child has exited without an heir, by what of its output has been
  read: the clock moves between two turns only, and each of them has read something
  (`LoopFits`). From it: `StopsOnTime`, `FinishedIsBelieved`, for any budgets, timeout and
  amount of output. `SpoolInv` relates the running tally of `TurnCounter` to a recount
  of the spool. It rests on `TakenIsCounted`: counting a chunk that crosses no limit
  from the state the earlier chunks left gives the count of all of it, wherever the
  reads split the lines; once a limit is crossed the tally only lags behind. From it:
  `TypeOK`, `VerdictMatchesSpool`, and `NothingIsLost` (what the command wrote is the
  spool followed by what is in the pipe).
* `AttemptProofs`. `AttemptInv` = the types, who holds the lock and what the wire
  then ends with, which lines are in which sink, and per phase what is on disk. From
  it: all six safety properties of the run `attempt`, for any amounts of output and
  sizes of the pipes and any wanted artifacts. Two more theorems carry `AttemptEnds`:
  `NobodyWaitsInACircle` (Pi, the two threads, the main thread and `deliver` are
  joined by three pipes, a lock and two joins, and somebody always has something
  to go on with, at the latest the reader, who may be stalled for a while) and `AttemptsAdvance` (a number that every step
  of the attempt lowers).
* `SessionProofs` has the gates and the session. For `Gate`, `IInv` = `TypeOK`,
  `BeliefsFit` (the last exchange is never newer than the tree, `checked` is at most
  one refusal ahead of it, a red last run is believed), `TellingFits` (the model was
  told of no later generation, and of this one only if it was noted) and `EndsJudged`
  itself. From it: `TypeOK`, `EndsJudged`, `FollowUpsBounded`,
  `ToldOncePerGeneration`, `SteerIsDeserved`, for any bounds.
  `SessionImplementsGate` shows that a step of a session is a step of `Gate` or leaves
  its variables alone, so these five carry over. `RunsInv` says what an exchange has
  restored, what it has spent and what its exit codes add up to; from it
  `PassIsEarned` and `DeadlineIsForStartup`, for any timeout, floor and deadline with
  floor <= timeout and timeout + 2 floors <= deadline (in the code 120 s, 0.1 s and
  the adapter's margin). `ExchangesEnd` carries `AskedIsAnswered`: a number, at most the
  deadline and nine, falls with every step of an exchange, and until it is answered
  the guard of a step that has to happen holds.
* `EditingProofs` has the exchanges and the guard. `IInv` = the types of the data,
  `ExchangeFits` (an exchange in flight carries the revision the mutator holds, what
  it prepared can be applied, and what it read is still there unless somebody raced
  it) and `MapsFit` (both revision maps are what the file holds, except between the
  rename and the answer). It is needed because the three properties speak of
  quiescent moments or of one step, and an exchange takes four. From it:
  `RevisionIsTrue`, `RefusalsAreHonest`, `NoBlindOverwrite`, for any replacements,
  window and limits. `AllOrNothing` says what `replace_many` makes of a content: a
  content exactly when each replacement applies in its turn, and then what the last
  one makes; with `IInv`, `NoEditIsHalved`: an edit that lands has turned the content
  whose revision was sent by all of its replacements. `BreakerInv` relates the streak
  of one call to its copies in the window and to the consecutive refusals; the
  counting of copies rests on lemmas about appending to and evicting from a sequence.
  From it: `WindowHolds`, `RepeatsEndTheTurn`, `TypeOK`, and `CountsAreBounded` (the
  refusal counts, which only evictions delete, are for calls of the window and never
  outgrow it), for any window, threshold and limit that the assumption allows.
* `AdapterProofs`. The inductive invariant says which child belongs to the run, what
  was told of it and which timers and probes are outstanding. From it: `TypeOK`,
  `RefusedMeansOver`, and that every step of the adapter is a step of the store or
  none (`ImplementsStore`). A second one, `DriveInv`, follows a decided refusal through
  the closures; from it `RefusalsAreDriven`: until it is told, an event, the timer, a
  probe or a killed child that will act on it is outstanding, or it waits for a process
  that lives on. A promise with none of these would never settle.

The type invariants of the modules with proofs are proved; those of `Stream` and
`Adapter` are run as well.

Only model-checked: liveness and `ENABLED`, which are out of the prover's reach. What
can be proved of a liveness property without them is its variant, a number that
falls, and that some guard holds until it is at an end: the theorems
named above have the variants of `EveryDeliveryEnds`, `TeardownEnds`, `AttemptEnds` and
`AskedIsAnswered`, and for the last two that somebody always has something to go on
with. That the steps are then taken is fairness, and TLC's. `StreamReturns` and
`RefusalIsTold` have no such number: at the deadline the loop of the stream spins on
waits of length zero until time passes, and a probe of a group may fail any number of
times; both rest on strong fairness. That a refusal is never left with nothing
to drive it is proved (`RefusalsAreDriven`).

## Findings

Statements of the documentation or of comments that a run refutes:

1. `delivery_test_teardown` (`NoRemovalUnderTimedOutTest`): the result of
   tearing down a timed-out self-test is dropped (`delivery.py:1486`); the
   worktree is then removed although part of the group may live.
2. `stream_deadline` (`DeadlineEnforced`): a command that closes its output is
   not stopped by its budget's deadline any more.
3. `stream_tail` (`TailKept`): what a command writes between an empty `select`
   and the `poll` that sees its exit is neither spooled nor counted.
4. `termination_pi` (`SafeMeansPiGone`): the grace period is the attempt's, not
   Pi's; a Pi that needs longer outlives a teardown reported as safe. TLC's shortest
   trace ends the grace period by a probe that cannot tell; running it out leads to
   the same.

Noticed on the way and not made a run:

* Receipts after the command say `command_exit=0` also for a command that was
  accepted with another status after its budget was crossed (`delivery.py:1212`;
  `docs/usage.md:175` says "direct command status").
* A refused self-test inside a turn makes the red-stop gate forget an earlier red
  one of the same generation (`runner.ts:436`); and a later run of one exchange that
  cannot be started refuses the exchange although an earlier run failed
  (`runner.py:357`, and `delivery.py:1647` for the delivery's own validation).
* A timed-out self-test run kills its direct child only (`runner.py:262`).
* At the budget's deadline the child is polled (`delivery.py:1302`), at the command
  deadline it is not (`delivery.py:1321`): a command that finished just before it, with
  output or the end of the file unread, is discarded as timed out.
  `FinishedIsBelieved` says how long before that can be: a tick for the turn under way
  and one for each half that was still to be read (longer only if a descendant kept
  the pipe).
* `run_tests` says that the whole self-test stays under its timeout (`runner.py:306`);
  since every run gets at least the floor of 0.1 s, it may take up to two floors more
  (`DeadlineIsForStartup` counts them).
* A refusal after the destinations were pinned leaves an empty transcript, so that
  a retry with the same path is refused (`attempt.py:1431`). After a lost forward the
  transcript is not synced, and a failing close of it is only a note.
* SIGTERM between `mkdtemp` and the `try` block leaves a directory that nothing names
  (`delivery.py:757`; `EnterAttempt` and `LeaveAtOnce` have it).
* An anchor that overlaps itself ("aa" in "aaa") is accepted as unique, since
  `bytes.count` does not count overlaps (`mutation.py:389`), and the span of a
  replacement that a later one overlaps is not shifted (`mutation.py:570`): the shown
  region may then miss part of it.
* `edit` announces "relative or absolute" paths (`mutator.ts`, `EditParameters`), while
  `mutation.py` refuses absolute ones; `docs/usage.md` describes the loop breaker's
  key without the revision that `engine.ts` puts into it.
* `mutation.py` has no lock between the check of a revision and the rename, so a
  process the model left running can lose a write (`Editing` has the race, and
  `NoBlindOverwrite` exempts it by name).

## Assumptions about what is not in the repository

* git creates a ref with an expected old value atomically; `worktree remove`
  and `prune` remove what they report removed.
* Pi runs one tool call at a time, listeners included, and calls every
  `tool_result` listener. The repository relies on it and does not say it.
* Process and group numbers are not reused while the Engine still signals them.
* A git child that outlives a SIGKILLed engine is not told from it: `Kill` comes before
  or after `update-ref` has taken effect, and the store sees the same either way.
* An attempt gets no signal but SIGTERM and SIGKILL, and its reader threads start: a
  `KeyboardInterrupt`, or a thread that cannot be started, could part it from Pi too.
* A digest stands for the content.

## Not modelled

The text of receipts, prompts and notifications; the region an edit shows to
the model; parsing of contracts, protocol messages and command lines; spelling
of paths; the audit of git configuration inside `_preflight` (one refusal);
the restoring of carried files in `deliver` (an outcome; that of the self-test
exchange is in `TestRuns`); the receipt file of `/implement`, which is named by the
contract id and which no operation reads (`orchestrator.ts:916`); development tools. These are input
spaces without order or state, which unit tests cover better.

## Plan

Done: `CandidateStore`, `Delivery`; `Stream`; `Termination`; `Adapter`; `Pump`,
`Attempt`; `Gate`, `TestRuns`, `Session`; `LoopBreaker`, `Editing`; and proofs of the
safety of all of them, with the variants of four liveness properties.

Next, in this order:

1. Composing `Pump` with `Termination`, so that a signal and a pipe that a tool holds
   meet the two threads.
2. `Gate`'s generation fed by `Editing`'s landed changes instead of by a free choice,
   so that a lost answer counts as no mutation; the turn ended by the loop breaker as
   a stop the gates judge.
3. The text of a replacement: anchors, the shift of earlier spans, the merged
   windows of the region shown to the model, against a reference definition.
4. Receipt files of `/implement` for repeated dispatches of one id in `Adapter`.
5. The open guards of `EveryDeliveryEnds` and `TeardownEnds` (some fair step is possible
   until the end), as there are for attempts and exchanges; and a well-founded pair for
   `StreamReturns` (ticks left, then reads left), with the zero waits as stutters.
