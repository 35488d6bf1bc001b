------------------------------- MODULE Adapter -------------------------------
(***************************************************************************)
(* The `/implement` command of the Pi package                              *)
(* (packages/engine/orchestrator.ts): a child that derives a contract, the *)
(* developer's consent, a child that locates the git directory, and the    *)
(* `deliver` child in a process group of its own, each watched by event    *)
(* handlers and timers of one event loop.  `collect` waits for a child's   *)
(* close event and escalates from SIGTERM to SIGKILL; `runDelivery` sends  *)
(* the group of `deliver` one SIGTERM and reports no refusal before that   *)
(* group is gone.                                                          *)
(*                                                                         *)
(* What the engine does in the meantime is CandidateStore's protocol,      *)
(* which Delivery implements; here it is one process that may outlive the  *)
(* child, keep or lose the pipe, print anything, and die.                  *)
(***************************************************************************)
EXTENDS Naturals

VARIABLES
  posix,   \* ProcessControl: "posix-group", else "direct-child"
  stage,   \* which child /implement is at
  told,    \* what the developer was told in the end
  run,     \* the variables of the promise that watches the child
  (* the child and what it started *)
  child,   \* the direct child; "closed": exited, and Node emitted "close"
  killed,  \* what became of the SIGKILL sent to it
  engine,  \* the rest of its group; "mute" has lost the pipe
  said,    \* what came out of the pipe
  work,    \* how far the delivery got
  ref      \* the candidate ref of the contract

adapter == <<stage, told, run>>
others  == <<child, killed, engine, said, work, ref>>
vars    == <<posix, adapter, others>>

Delivering == stage = "deliver"
Grouped    == Delivering /\ posix

Runs ==
  [spawned : BOOLEAN, failed : BOOLEAN, pending : BOOLEAN, closed : BOOLEAN,
   stopping : BOOLEAN, settled : BOOLEAN, timer : BOOLEAN, polling : BOOLEAN,
   group : {"unset", "present", "unknown", "gone"}]

TypeOK ==
  /\ posix \in BOOLEAN
  /\ stage \in {"derive", "confirm", "git", "deliver"}
  /\ told \in {"nothing", "undispatched", "refusal", "receipt", "candidate"}
  /\ run \in Runs
  /\ child \in {"unborn", "starting", "failed", "running", "ended", "closed"}
  /\ killed \in {"no", "sent", "failed"}
  /\ engine \in {"none", "alive", "mute", "gone"}
  /\ said \in {"nothing", "garbage", "refusal", "candidate"}
  /\ work \in {"none", "working", "created", "refused", "announced"}
  /\ ref \in {"none", "foreign", "own"}
  /\ run.settled => ~run.timer   \* a promise leaves no SIGKILL behind

Fresh ==
  [spawned |-> FALSE, failed |-> FALSE, pending |-> FALSE, closed |-> FALSE,
   stopping |-> FALSE, settled |-> FALSE, timer |-> FALSE, polling |-> FALSE,
   group |-> "unset"]

Init ==
  /\ posix \in BOOLEAN
  /\ stage \in {"derive", "git"}   \* /implement <request>, /implement --go <id>
  /\ told = "nothing"
  /\ run = Fresh
  /\ child = "unborn" /\ killed = "no" /\ engine = "none"
  /\ said = "nothing" /\ work = "none" /\ ref \in {"none", "foreign"}

(***************************************************************************)
(* The group.                                                              *)
(***************************************************************************)
Members == engine \in {"alive", "mute"}

(* kill(-pgid, ...); an exited leader counts until Node has collected it.  *)
Answers ==
  {"unknown"} \cup (IF Members \/ child # "closed" THEN {"present"} ELSE {})
              \cup (IF ~Members /\ child \in {"ended", "closed"} THEN {"gone"} ELSE {})

(***************************************************************************)
(* The closures of runDelivery and collect: from the variables of the      *)
(* promise to what they may be afterwards.                                 *)
(***************************************************************************)
(* Mutant: the timer outlives the promise. *)
SettledTimed(r) == [r EXCEPT !.settled = TRUE]

Settled(r) == [r EXCEPT !.settled = TRUE, !.timer = FALSE]

(* Mutant: the child has closed, so its group must be gone. *)
FinishPendingRefusalAtClose(r) ==
  IF r.settled \/ ~r.pending \/ ~r.closed \/ (posix /\ r.group = "unset" /\ ~r.failed)
  THEN {r}
  ELSE {Settled(r)}

(* Mutant: a group that cannot be asked is taken for gone. *)
FinishPendingRefusalUnasked(r) ==
  IF r.settled \/ ~r.pending \/ ~r.closed \/ (posix /\ r.group = "unset" /\ ~r.failed)
  THEN {r}
  ELSE IF r.group \in {"unset", "gone"}
  THEN {Settled(r)}
  ELSE {IF g = "present" THEN [r EXCEPT !.group = g, !.polling = TRUE]
        ELSE Settled([r EXCEPT !.group = g]) : g \in Answers}

(* Mutant: the probe is not repeated. *)
FinishPendingRefusalOnce(r) ==
  IF r.settled \/ ~r.pending \/ ~r.closed \/ (posix /\ r.group = "unset" /\ ~r.failed)
  THEN {r}
  ELSE IF r.group \in {"unset", "gone"}
  THEN {Settled(r)}
  ELSE {IF g = "gone" THEN Settled([r EXCEPT !.group = g]) ELSE [r EXCEPT !.group = g]
          : g \in Answers}

FinishPendingRefusal(r) ==
  IF r.settled \/ ~r.pending \/ ~r.closed \/ (posix /\ r.group = "unset" /\ ~r.failed)
  THEN {r}
  ELSE IF r.group \in {"unset", "gone"}
  THEN {Settled(r)}
  ELSE {IF g = "gone" THEN Settled([r EXCEPT !.group = g])
        ELSE [r EXCEPT !.group = g, !.polling = TRUE] : g \in Answers}

BeginTermination(r) ==
  IF r.settled \/ ~r.pending \/ r.stopping \/ (~r.spawned /\ ~r.failed)
  THEN {r}
  ELSE UNION {FinishPendingRefusal(s) :
         s \in IF r.failed /\ ~r.spawned
               THEN {[r EXCEPT !.stopping = TRUE]}
               ELSE IF posix
               THEN {[r EXCEPT !.stopping = TRUE, !.group = g] : g \in Answers}
               ELSE {[r EXCEPT !.stopping = TRUE, !.timer = TRUE]}}

RequestTermination(r) ==
  IF r.settled \/ r.pending
  THEN {r}
  ELSE IF Delivering
  THEN BeginTermination([r EXCEPT !.pending = TRUE])
  ELSE {[r EXCEPT !.pending = TRUE, !.timer = TRUE]}

(* A handler ran; a rejected promise is told in the same turn of the loop. *)
React(outcomes) ==
  /\ run' \in outcomes
  /\ told' = IF run'.settled /\ ~run.settled THEN "refusal" ELSE told
  /\ UNCHANGED stage

(***************************************************************************)
(* The adapter's event loop.                                               *)
(***************************************************************************)
(* The spawner throws, writing to the new child throws, or neither. *)
Spawn ==
  /\ told = "nothing" /\ stage # "confirm" /\ child = "unborn"
  /\ \/ told' = "refusal" /\ run' = Settled(run) /\ UNCHANGED <<child, stage>>
     \/ child' = "starting" /\ React({run})
     \/ child' = "starting" /\ React(RequestTermination(run))
  /\ UNCHANGED <<posix, killed, engine, said, work, ref>>

OnSpawn ==
  /\ child = "starting"
  /\ child' = "running"
  /\ React(IF Delivering THEN BeginTermination([run EXCEPT !.spawned = TRUE]) ELSE {run})
  /\ UNCHANGED <<posix, killed, engine, said, work, ref>>

(* There is no child after all. *)
OnError ==
  /\ child = "starting"
  /\ child' = "failed"
  /\ React(IF Delivering
           THEN UNION {BeginTermination(r) :
                  r \in RequestTermination([run EXCEPT !.failed = TRUE, !.closed = TRUE])}
           ELSE RequestTermination(run))
  /\ UNCHANGED <<posix, killed, engine, said, work, ref>>

(* The deadline, an error on a stream or of the child, a diagnostic that   *)
(* could not be forwarded.                                                 *)
Interrupted ==
  /\ child \in {"starting", "running", "ended"} /\ ~run.pending /\ ~run.settled
  /\ React(RequestTermination(run))
  /\ UNCHANGED <<posix, others>>

OnKillTimer ==
  /\ run.timer
  /\ run' = [run EXCEPT !.timer = FALSE]
  /\ killed' = IF child \in {"starting", "running"} THEN "sent" ELSE killed
  /\ UNCHANGED <<posix, stage, told, child, engine, said, work, ref>>

(* child.kill threw. *)
OnKillTimerInVain ==
  /\ run.timer /\ child \in {"starting", "running"}
  /\ run' = [run EXCEPT !.timer = FALSE]
  /\ killed' = "failed"
  /\ UNCHANGED <<posix, stage, told, child, engine, said, work, ref>>

OnPoll ==
  /\ run.polling
  /\ React(FinishPendingRefusal([run EXCEPT !.polling = FALSE]))
  /\ UNCHANGED <<posix, others>>

(* Node emits "close" when the child has exited and its pipes are closed.  *)
Closes ==
  /\ \/ child = "ended" /\ engine # "alive"
     \/ child = "failed"
  /\ child' = "closed"
  /\ UNCHANGED <<posix, killed, engine, said, work, ref>>

(* A receipt settles, unless a refusal is pending; anything else refuses.  *)
(* A receipt is written to a file, which may fail, and then told.          *)
OnDeliveryClose ==
  /\ Delivering /\ Closes
  /\ \/ run.settled /\ UNCHANGED adapter
     \/ /\ ~run.settled /\ run.pending
        /\ React(FinishPendingRefusal([run EXCEPT !.closed = TRUE]))
     \/ /\ ~run.settled /\ ~run.pending /\ said \in {"nothing", "garbage"}
        /\ React(RequestTermination([run EXCEPT !.closed = TRUE]))
     \/ /\ ~run.settled /\ ~run.pending /\ said \in {"refusal", "candidate"}
        /\ run' = Settled([run EXCEPT !.closed = TRUE])
        /\ told' = IF said = "candidate" THEN "candidate" ELSE "receipt"
        /\ UNCHANGED stage

(* The next child of /implement. *)
Proceed(next) ==
  /\ stage' = next /\ run' = Fresh
  /\ child' = "unborn" /\ killed' = "no" /\ engine' = "none"
  /\ UNCHANGED told

(* collect settles: refused, failed by its exit code, or good. *)
OnCollectClose ==
  /\ ~Delivering /\ ~run.settled
  /\ \/ child = "ended" /\ engine # "alive"
     \/ child = "failed"
  /\ \/ /\ child' = "closed" /\ run' = Settled(run) /\ told' = "refusal"
        /\ UNCHANGED <<stage, killed, engine>>
     \/ /\ ~run.pending /\ child = "ended"
        /\ \/ stage = "git" /\ Proceed("deliver")
           \/ stage = "derive" /\ Proceed("confirm")
           \/ /\ stage = "derive"   \* no UI to ask for consent
              /\ child' = "closed" /\ run' = Settled(run) /\ told' = "undispatched"
              /\ UNCHANGED <<stage, killed, engine>>
  /\ UNCHANGED <<posix, said, work, ref>>

Confirm ==
  /\ stage = "confirm" /\ told = "nothing"
  /\ \/ stage' = "git" /\ UNCHANGED told
     \/ told' \in {"undispatched", "refusal"} /\ UNCHANGED stage
  /\ UNCHANGED <<posix, run, others>>

(***************************************************************************)
(* The child, the engine and everybody else.                               *)
(***************************************************************************)
EngineStarts ==
  /\ child = "running" /\ engine = "none"
  /\ engine' = "alive"
  /\ work' = IF Delivering THEN "working" ELSE work
  /\ UNCHANGED <<posix, adapter, child, killed, said, ref>>

EngineCreates ==
  /\ Members /\ work = "working" /\ ref = "none"
  /\ ref' = "own" /\ work' = "created"
  /\ UNCHANGED <<posix, adapter, child, killed, engine, said>>

(* The receipt, or the part of it that came through. *)
EnginePrints ==
  /\ Members /\ work \in {"working", "created"}
  /\ work' = IF work = "created" THEN "announced" ELSE "refused"
  /\ said' \in IF engine = "mute" THEN {said}
               ELSE {"garbage", IF work = "created" THEN "candidate" ELSE "refusal"}
  /\ UNCHANGED <<posix, adapter, child, killed, engine, ref>>

EngineMoves ==
  /\ \/ engine = "alive" /\ engine' = "mute"
     \/ Members /\ engine' = "gone"
  /\ UNCHANGED <<posix, adapter, child, killed, said, work, ref>>

ChildEnds ==
  /\ child = "running"
  /\ child' = "ended"
  /\ UNCHANGED <<posix, adapter, killed, engine, said, work, ref>>

KilledChildEnds == killed = "sent" /\ ChildEnds

Meddle ==
  /\ ref' = IF ref = "none" THEN "foreign" ELSE "none"
  /\ UNCHANGED <<posix, adapter, child, killed, engine, said, work>>

Loop ==
  \/ Spawn \/ OnSpawn \/ OnError \/ OnKillTimer \/ OnKillTimerInVain
  \/ OnDeliveryClose \/ OnCollectClose

Next ==
  \/ Loop \/ Interrupted \/ OnPoll \/ Confirm
  \/ EngineStarts \/ EngineCreates \/ EnginePrints \/ EngineMoves
  \/ ChildEnds \/ Meddle

Spec == Init /\ [][Next]_vars

(* Events and timers are served, what is killed ends, and probes tell the  *)
(* truth now and then.  Nothing is assumed of the children: they may run   *)
(* and ignore SIGTERM for ever.                                            *)
FairSpec ==
  /\ Spec
  /\ WF_vars(Loop) /\ WF_vars(OnPoll) /\ WF_vars(KilledChildEnds)
  /\ SF_vars(OnPoll /\ run'.group = "gone")

(***************************************************************************)
(* Properties.                                                             *)
(***************************************************************************)
(* On POSIX nothing of a delivery runs any more when the developer is told *)
(* of a refusal of the adapter's own; elsewhere at least the direct child  *)
(* has ended (usage.md, "only after the direct delivery child closes and   *)
(* [...] the detached outer delivery group is gone").                      *)
RefusedMeansOver ==
  told = "refusal" =>
    /\ child \in {"unborn", "failed", "ended", "closed"}
    /\ Grouped => ~Members

(* End to end: seen through what the developer is told, /implement is      *)
(* still a client of the create-once store.  A candidate it reports was    *)
(* created by its own delivery, a refusal receipt means that this delivery *)
(* created nothing, and after any word to the developer it creates nothing.*)
Status ==
  CASE told = "candidate"                    -> "announced"
    [] told = "receipt"                      -> "refused"
    [] told \in {"refusal", "undispatched"}  -> "silent"
    [] OTHER -> IF work \in {"created", "announced"} THEN "created" ELSE "working"

Store == INSTANCE CandidateStore
  WITH Deliveries <- {"own"}, Ids <- {"id"}, NoCommit <- "none", Foreign <- "foreign",
       claim  <- [d \in {"own"} |-> "id"],
       refs   <- [i \in {"id"} |-> ref],
       status <- [d \in {"own"} |-> Status]

ImplementsStore ==
  Store!Init /\ [][posix => Store!Next \/ UNCHANGED Store!vars]_vars

(* A refusal that is decided is told, however the spawn, the close, the    *)
(* timers and the probes are ordered, unless the adapter is kept waiting   *)
(* by a process that lives on.                                             *)
WaitsForSomebody ==
  \/ Members
  \/ child = "running" /\ (Grouped \/ killed = "failed")

RefusalIsTold == []<>(run.pending => told # "nothing" \/ WaitsForSomebody)
=============================================================================
