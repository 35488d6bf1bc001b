---------------------------- MODULE AdapterProofs ----------------------------
(***************************************************************************)
(* Proofs about Adapter: what a settled promise knows of the processes it  *)
(* watched, and that /implement, seen through what the developer is told,  *)
(* is a client of the create-once store.                                   *)
(***************************************************************************)
EXTENDS Adapter, TLAPS

(***************************************************************************)
(* The promise.                                                            *)
(***************************************************************************)
(* What the variables r of the promise say of a child c and its group e.   *)
RunFits(r, c, e) ==
  /\ r \in Runs
  /\ r.settled => ~r.timer
  /\ r.spawned => c \in {"running", "ended", "closed"}
  /\ r.failed => c \in {"failed", "closed"} /\ e = "none"
  /\ r.closed => c \in {"failed", "closed"}
  /\ r.group = "gone" => c \in {"ended", "closed"} /\ e \in {"none", "gone"}
  /\ r.group # "unset" => posix

(* A promise that was r and is s is settled with a refusal only when       *)
(* nothing runs any more.                                                  *)
OverWhenSettled(r, s, c) ==
  s.settled /\ ~r.settled => c \in {"failed", "closed"} /\ (posix => ~Members)

(* The handlers look at the child as it is before the event that makes it  *)
(* c; a child that has ended does not come back.                           *)
Later(c) == child \in {"ended", "closed"} => c \in {"ended", "closed"}

LEMMA SettledFits ==
  ASSUME NEW r, NEW c, RunFits(r, c, engine)
  PROVE  /\ RunFits(Settled(r), c, engine) /\ Settled(r).settled
         /\ Settled(r).group = r.group
BY DEF RunFits, Settled, Runs

(* An answer about the group is noted.                                     *)
LEMMA AnsweredFits ==
  ASSUME NEW r, NEW c, RunFits(r, c, engine), posix, Later(c),
         engine \in {"none", "alive", "mute", "gone"}, NEW g \in Answers
  PROVE  /\ RunFits([r EXCEPT !.group = g], c, engine)
         /\ RunFits([r EXCEPT !.group = g, !.polling = TRUE], c, engine)
         /\ RunFits([r EXCEPT !.stopping = TRUE, !.group = g], c, engine)
         /\ g = "gone" => c \in {"ended", "closed"} /\ ~Members
<1>1. /\ g \in {"present", "unknown", "gone"}
      /\ g = "gone" => ~Members /\ child \in {"ended", "closed"}
  BY DEF Answers
<1>2. g = "gone" => c \in {"ended", "closed"} /\ engine \in {"none", "gone"} /\ ~Members
  BY <1>1 DEF Members, Later
<1> QED BY <1>1, <1>2 DEF RunFits, Runs

(* Whatever a closure of runDelivery makes of its variables fits the       *)
(* processes, settles only over dead ones and settles nothing twice.       *)
Sound(r, s, c) ==
  /\ RunFits(s, c, engine)
  /\ OverWhenSettled(r, s, c)
  /\ r.settled => s = r

LEMMA FinishSound ==
  ASSUME NEW r, NEW c, RunFits(r, c, engine), Later(c),
         engine \in {"none", "alive", "mute", "gone"},
         NEW s \in FinishPendingRefusal(r)
  PROVE  Sound(r, s, c)
<1> DEFINE Idle == r.settled \/ ~r.pending \/ ~r.closed
                     \/ (posix /\ r.group = "unset" /\ ~r.failed)
<1>1. CASE Idle
  <2>1. s = r
    BY <1>1 DEF FinishPendingRefusal
  <2> QED BY <2>1 DEF Sound, OverWhenSettled
<1>2. CASE ~Idle /\ r.group \in {"unset", "gone"}
  <2>1. s = Settled(r)
    BY <1>2 DEF FinishPendingRefusal
  <2>2. RunFits(s, c, engine)
    BY <2>1, SettledFits
  <2>3. c \in {"failed", "closed"} /\ (posix => ~Members)
    BY <1>2 DEF RunFits, Members
  <2> QED BY <1>2, <2>2, <2>3 DEF Sound, OverWhenSettled
<1>3. CASE ~Idle /\ r.group \notin {"unset", "gone"}
  <2>1. PICK g \in Answers : s = IF g = "gone" THEN Settled([r EXCEPT !.group = g])
                                 ELSE [r EXCEPT !.group = g, !.polling = TRUE]
    BY <1>3 DEF FinishPendingRefusal
  <2>2. posix /\ c \in {"failed", "closed"} /\ ~r.settled
    BY <1>3 DEF RunFits
  <2>3. /\ RunFits([r EXCEPT !.group = g], c, engine)
        /\ RunFits([r EXCEPT !.group = g, !.polling = TRUE], c, engine)
        /\ g = "gone" => ~Members
    BY <2>2, AnsweredFits
  <2>4. CASE g = "gone"
    <3>1. RunFits(s, c, engine)
      BY <2>1, <2>3, <2>4, SettledFits
    <3> QED BY <2>2, <2>3, <2>4, <3>1 DEF Sound, OverWhenSettled
  <2>5. CASE g # "gone"
    <3>1. s = [r EXCEPT !.group = g, !.polling = TRUE]
      BY <2>1, <2>5
    <3>2. ~s.settled
      BY <2>2, <3>1 DEF RunFits, Runs
    <3> QED BY <2>2, <2>3, <3>1, <3>2 DEF Sound, OverWhenSettled
  <2> QED BY <2>4, <2>5
<1> QED BY <1>1, <1>2, <1>3

LEMMA BeginSound ==
  ASSUME NEW r, NEW c, RunFits(r, c, engine), Later(c),
         engine \in {"none", "alive", "mute", "gone"},
         NEW s \in BeginTermination(r)
  PROVE  Sound(r, s, c)
<1> DEFINE Idle == r.settled \/ ~r.pending \/ r.stopping \/ (~r.spawned /\ ~r.failed)
           Stopped(q) == RunFits(q, c, engine) /\ ~q.settled
<1>1. CASE Idle
  <2>1. s = r
    BY <1>1 DEF BeginTermination
  <2> QED BY <2>1 DEF Sound, OverWhenSettled
<1>2. CASE ~Idle
  <2>1. PICK q \in IF r.failed /\ ~r.spawned
                   THEN {[r EXCEPT !.stopping = TRUE]}
                   ELSE IF posix
                   THEN {[r EXCEPT !.stopping = TRUE, !.group = g] : g \in Answers}
                   ELSE {[r EXCEPT !.stopping = TRUE, !.timer = TRUE]} :
             s \in FinishPendingRefusal(q)
    BY <1>2 DEF BeginTermination
  <2>2. RunFits(q, c, engine) /\ ~q.settled
    <3>1. r \in Runs /\ ~r.settled
      BY <1>2 DEF RunFits
    <3>2. CASE q = [r EXCEPT !.stopping = TRUE]
      BY <3>1, <3>2 DEF RunFits, Runs
    <3>3. CASE q = [r EXCEPT !.stopping = TRUE, !.timer = TRUE]
      BY <3>1, <3>3 DEF RunFits, Runs
    <3>4. CASE posix /\ \E g \in Answers : q = [r EXCEPT !.stopping = TRUE, !.group = g]
      <4>1. PICK g \in Answers : q = [r EXCEPT !.stopping = TRUE, !.group = g]
        BY <3>4
      <4>2. RunFits(q, c, engine)
        BY <3>4, <4>1, AnsweredFits
      <4> QED BY <3>1, <4>1, <4>2 DEF Runs
    <3> QED BY <2>1, <3>2, <3>3, <3>4
  <2>3. Sound(q, s, c)
    BY <2>1, <2>2, FinishSound
  <2> QED BY <1>2, <2>2, <2>3 DEF Sound, OverWhenSettled
<1> QED BY <1>1, <1>2

LEMMA RequestSound ==
  ASSUME NEW r, NEW c, RunFits(r, c, engine), Later(c),
         engine \in {"none", "alive", "mute", "gone"},
         NEW s \in RequestTermination(r)
  PROVE  Sound(r, s, c)
<1>1. CASE r.settled \/ r.pending
  <2>1. s = r
    BY <1>1 DEF RequestTermination
  <2> QED BY <2>1 DEF Sound, OverWhenSettled
<1>2. CASE ~(r.settled \/ r.pending) /\ Delivering
  <2> DEFINE q == [r EXCEPT !.pending = TRUE]
  <2>1. RunFits(q, c, engine) /\ ~q.settled
    BY <1>2 DEF RunFits, Runs
  <2>2. s \in BeginTermination(q)
    BY <1>2 DEF RequestTermination
  <2> HIDE DEF q
  <2>3. Sound(q, s, c)
    BY <2>1, <2>2, BeginSound
  <2> QED BY <1>2, <2>1, <2>3 DEF Sound, OverWhenSettled
<1>3. CASE ~(r.settled \/ r.pending) /\ ~Delivering
  <2>1. s = [r EXCEPT !.pending = TRUE, !.timer = TRUE]
    BY <1>3 DEF RequestTermination
  <2>2. RunFits(s, c, engine) /\ ~s.settled
    BY <1>3, <2>1 DEF RunFits, Runs
  <2> QED BY <1>3, <2>2 DEF Sound, OverWhenSettled
<1> QED BY <1>1, <1>2, <1>3

(***************************************************************************)
(* The inductive invariant.                                                *)
(***************************************************************************)
(* A child that has not started, or never did, has started nothing, and    *)
(* one that is closed has nobody left who holds its pipes.                 *)
ChildFits ==
  /\ child \in {"unborn", "starting", "failed"} => engine = "none"
  /\ child = "closed" => engine # "alive"

(* Only `deliver` has the variables of runDelivery.                        *)
StageFits ==
  /\ ~Delivering =>
       /\ ~run.spawned /\ ~run.failed /\ ~run.closed
       /\ ~run.stopping /\ ~run.polling /\ run.group = "unset"
       /\ work = "none" /\ said = "nothing"
  /\ stage = "confirm" => child = "unborn" /\ ~run.settled

(* The promise is settled exactly when the developer has been told.        *)
ToldFits ==
  /\ run.settled => told # "nothing"
  /\ told # "nothing" => run.settled \/ stage = "confirm"

(* What is told, and what came out of the pipe, is what the engine did.    *)
WordFits ==
  /\ work # "none" => engine # "none"
  /\ said = "refusal" => work = "refused"
  /\ said = "candidate" => work = "announced"
  /\ told = "receipt" => work = "refused"
  /\ told = "candidate" => work = "announced"
  /\ told = "undispatched" => ~Delivering

AdapterInv ==
  /\ TypeOK
  /\ RunFits(run, child, engine)
  /\ ChildFits
  /\ StageFits
  /\ ToldFits
  /\ WordFits
  /\ RefusedMeansOver

(***************************************************************************)
(* The steps.                                                              *)
(***************************************************************************)
LEMMA InitInv == Init => AdapterInv
BY DEF Init, Fresh, Runs, AdapterInv, TypeOK, RunFits, ChildFits, StageFits, ToldFits,
       WordFits, RefusedMeansOver, Delivering, Grouped, Members

LEMMA StutterInv == AdapterInv /\ UNCHANGED vars => AdapterInv'
BY DEF vars, adapter, others, AdapterInv, TypeOK, RunFits, ChildFits, StageFits, ToldFits,
       WordFits, RefusedMeansOver, Delivering, Grouped, Members

(* How far an event handler moves the child.                               *)
Moves ==
  \/ child' = child
  \/ child = "unborn" /\ child' = "starting" /\ told = "nothing"
  \/ child = "starting" /\ child' \in {"running", "failed"}
  \/ child \in {"failed", "ended"} /\ engine # "alive" /\ child' = "closed"

(* The fields that only runDelivery touches.                               *)
Collecting(r) ==
  /\ ~r.spawned /\ ~r.failed /\ ~r.closed /\ ~r.stopping /\ ~r.polling
  /\ r.group = "unset"

(* What all the handlers have in common: r are the variables of the        *)
(* promise once the event is noted, run' what the closures make of them.   *)
Handled(r) ==
  /\ r.settled = run.settled
  /\ Sound(r, run', child')
  /\ stage # "confirm"
  /\ Delivering \/ Collecting(run')
  /\ Moves
  /\ told' = IF run'.settled /\ ~run.settled THEN "refusal" ELSE told
  /\ UNCHANGED <<stage, posix, engine, said, work, ref>>
  /\ killed' \in {"no", "sent", "failed"}

LEMMA HandledInv ==
  ASSUME AdapterInv, NEW r, Handled(r)
  PROVE  AdapterInv'
<1> USE DEF AdapterInv
<1>1. /\ run' \in Runs /\ run.settled \in BOOLEAN /\ run'.settled \in BOOLEAN
      /\ RunFits(run', child', engine)
      /\ run.settled => run'.settled
      /\ run'.settled /\ ~run.settled
           => child' \in {"failed", "closed"} /\ (posix => ~Members)
  BY DEF Handled, Sound, OverWhenSettled, RunFits, Runs
<1>2. TypeOK'
  BY <1>1 DEF Handled, Moves, TypeOK, RunFits
<1>3. RunFits(run, child, engine)'
  BY <1>1 DEF Handled, RunFits
<1>4. ChildFits'
  BY DEF Handled, Moves, ChildFits
<1>5. StageFits'
  BY DEF Handled, Collecting, StageFits, Delivering
<1>6. ToldFits'
  BY <1>1 DEF Handled, ToldFits
<1>7. WordFits'
  BY DEF Handled, WordFits, Delivering
<1>8. RefusedMeansOver'
  BY <1>1 DEF Handled, Moves, RefusedMeansOver, Grouped, Delivering, Members
<1> QED BY <1>2, <1>3, <1>4, <1>5, <1>6, <1>7, <1>8

LEMMA SoundTransitive ==
  ASSUME NEW r, NEW q, NEW s, NEW c, Sound(r, q, c), Sound(q, s, c)
  PROVE  Sound(r, s, c)
BY DEF Sound, OverWhenSettled

(* Asking for termination while a child is collected arms the timer.       *)
LEMMA CollectRequest ==
  ASSUME NEW r, r \in Runs, ~Delivering, Collecting(r), NEW s \in RequestTermination(r)
  PROVE  Collecting(s)
BY DEF RequestTermination, Collecting, Runs

LEMMA SpawnInv == AdapterInv /\ Spawn => AdapterInv'
<1> SUFFICES ASSUME AdapterInv, Spawn PROVE AdapterInv'
  OBVIOUS
<1>0. /\ RunFits(run, child, engine) /\ RunFits(run, "starting", engine)
      /\ run \in Runs /\ ~run.settled
      /\ ~Delivering => Collecting(run)
      /\ engine \in {"none", "alive", "mute", "gone"}
      /\ told = "nothing" /\ stage # "confirm" /\ child = "unborn"
  BY DEF Spawn, AdapterInv, RunFits, ToldFits, StageFits, Collecting, TypeOK
<1>1. CASE /\ told' = "refusal" /\ run' = Settled(run) /\ UNCHANGED <<child, stage>>
           /\ UNCHANGED <<posix, killed, engine, said, work, ref>>
  <2>1. RunFits(run', child, engine) /\ run'.settled
    BY <1>0, <1>1, SettledFits
  <2>2. TypeOK'
    BY <1>1, <2>1 DEF AdapterInv, TypeOK, RunFits
  <2>3. RunFits(run, child, engine)'
    BY <1>1, <2>1 DEF RunFits
  <2>4. StageFits'
    BY <1>0, <1>1 DEF AdapterInv, StageFits, Delivering, Settled, Runs
  <2> QED BY <1>0, <1>1, <2>1, <2>2, <2>3, <2>4
          DEF AdapterInv, ChildFits, ToldFits, WordFits, RefusedMeansOver, Delivering, Grouped,
              Members
<1>2. CASE /\ child' = "starting" /\ (React({run}) \/ React(RequestTermination(run)))
           /\ UNCHANGED <<posix, killed, engine, said, work, ref>>
  <2>1. Sound(run, run, "starting")
    BY <1>0 DEF Sound, OverWhenSettled
  <2>2. Later("starting")
    BY <1>0 DEF Later
  <2>3. run' = run \/ run' \in RequestTermination(run)
    BY <1>2 DEF React
  <2>4. Sound(run, run', child')
    BY <1>0, <1>2, <2>1, <2>2, <2>3, RequestSound
  <2>5. Delivering \/ Collecting(run')
    BY <1>0, <2>3, CollectRequest
  <2>6. Handled(run)
    BY <1>0, <1>2, <2>4, <2>5 DEF Handled, React, Moves, AdapterInv, TypeOK
  <2> QED BY <2>6, HandledInv
<1> QED BY <1>1, <1>2 DEF Spawn

LEMMA OnSpawnInv == AdapterInv /\ OnSpawn => AdapterInv'
<1> SUFFICES ASSUME AdapterInv, OnSpawn PROVE AdapterInv'
  OBVIOUS
<1> DEFINE r == [run EXCEPT !.spawned = TRUE]
<1>0. /\ RunFits(run, "running", engine) /\ RunFits(r, "running", engine)
      /\ r.settled = run.settled
      /\ ~Delivering => Collecting(run)
      /\ Later("running") /\ child = "starting" /\ child' = "running"
      /\ engine \in {"none", "alive", "mute", "gone"} /\ stage # "confirm"
  BY DEF OnSpawn, AdapterInv, RunFits, Runs, StageFits, Collecting, TypeOK, Later
<1>1. CASE Delivering
  <2>1. run' \in BeginTermination(r)
    BY <1>1 DEF OnSpawn, React
  <2> HIDE DEF r
  <2>2. Sound(r, run', child')
    BY <1>0, <2>1, BeginSound
  <2>3. Handled(r)
    BY <1>0, <1>1, <2>2 DEF Handled, Moves, OnSpawn, React, AdapterInv, TypeOK
  <2> QED BY <2>3, HandledInv
<1>2. CASE ~Delivering
  <2>1. run' = run
    BY <1>2 DEF OnSpawn, React
  <2>2. Sound(run, run', child')
    BY <1>0, <2>1 DEF Sound, OverWhenSettled
  <2>3. Handled(run)
    BY <1>0, <1>2, <2>1, <2>2 DEF Handled, Moves, OnSpawn, React, AdapterInv, TypeOK
  <2> QED BY <2>3, HandledInv
<1> QED BY <1>1, <1>2

LEMMA OnErrorInv == AdapterInv /\ OnError => AdapterInv'
<1> SUFFICES ASSUME AdapterInv, OnError PROVE AdapterInv'
  OBVIOUS
<1> DEFINE r == [run EXCEPT !.failed = TRUE, !.closed = TRUE]
<1>0. /\ RunFits(run, "failed", engine) /\ RunFits(r, "failed", engine)
      /\ run \in Runs /\ r.settled = run.settled
      /\ ~Delivering => Collecting(run)
      /\ Later("failed") /\ child = "starting" /\ child' = "failed"
      /\ engine \in {"none", "alive", "mute", "gone"} /\ stage # "confirm"
  BY DEF OnError, AdapterInv, RunFits, Runs, StageFits, ChildFits, Collecting, TypeOK, Later
<1>1. CASE Delivering
  <2>1. PICK q \in RequestTermination(r) : run' \in BeginTermination(q)
    BY <1>1 DEF OnError, React
  <2> HIDE DEF r
  <2>2. Sound(r, q, "failed")
    BY <1>0, RequestSound
  <2>3. Sound(q, run', "failed")
    BY <1>0, <2>1, <2>2, BeginSound DEF Sound
  <2>4. Sound(r, run', child')
    BY <1>0, <2>2, <2>3, SoundTransitive
  <2>5. Handled(r)
    BY <1>0, <1>1, <2>4 DEF Handled, Moves, OnError, React, AdapterInv, TypeOK
  <2> QED BY <2>5, HandledInv
<1>2. CASE ~Delivering
  <2>1. run' \in RequestTermination(run)
    BY <1>2 DEF OnError, React
  <2>2. Sound(run, run', child')
    BY <1>0, <2>1, RequestSound
  <2>3. Collecting(run')
    BY <1>0, <1>2, <2>1, CollectRequest
  <2>4. Handled(run)
    BY <1>0, <1>2, <2>2, <2>3 DEF Handled, Moves, OnError, React, AdapterInv, TypeOK
  <2> QED BY <2>4, HandledInv
<1> QED BY <1>1, <1>2

LEMMA InterruptedInv == AdapterInv /\ Interrupted => AdapterInv'
<1> SUFFICES ASSUME AdapterInv, Interrupted PROVE AdapterInv'
  OBVIOUS
<1>1. /\ RunFits(run, child, engine) /\ run \in Runs
      /\ ~Delivering => Collecting(run)
      /\ Later(child) /\ child' = child /\ run' \in RequestTermination(run)
      /\ engine \in {"none", "alive", "mute", "gone"} /\ stage # "confirm"
  BY DEF Interrupted, AdapterInv, RunFits, StageFits, Collecting, TypeOK, Later, React, others
<1>2. Sound(run, run', child')
  BY <1>1, RequestSound
<1>3. Delivering \/ Collecting(run')
  BY <1>1, CollectRequest
<1>4. Handled(run)
  BY <1>1, <1>2, <1>3 DEF Handled, Moves, Interrupted, React, others, AdapterInv, TypeOK
<1> QED BY <1>4, HandledInv

LEMMA OnPollInv == AdapterInv /\ OnPoll => AdapterInv'
<1> SUFFICES ASSUME AdapterInv, OnPoll PROVE AdapterInv'
  OBVIOUS
<1> DEFINE r == [run EXCEPT !.polling = FALSE]
<1>1. /\ RunFits(r, child, engine) /\ r.settled = run.settled /\ Delivering
      /\ Later(child) /\ child' = child /\ run' \in FinishPendingRefusal(r)
      /\ engine \in {"none", "alive", "mute", "gone"} /\ stage # "confirm"
  BY DEF OnPoll, AdapterInv, RunFits, Runs, StageFits, TypeOK, Later, React, others, Delivering
<1> HIDE DEF r
<1>2. Sound(r, run', child')
  BY <1>1, FinishSound
<1>3. Handled(r)
  BY <1>1, <1>2 DEF Handled, Moves, OnPoll, React, others, AdapterInv, TypeOK
<1> QED BY <1>3, HandledInv

LEMMA OnDeliveryCloseInv == AdapterInv /\ OnDeliveryClose => AdapterInv'
<1> SUFFICES ASSUME AdapterInv, OnDeliveryClose PROVE AdapterInv'
  OBVIOUS
<1> DEFINE r == [run EXCEPT !.closed = TRUE]
<1>0. /\ Delivering /\ child \in {"ended", "failed"} /\ engine # "alive" /\ child' = "closed"
      /\ UNCHANGED <<posix, killed, engine, said, work, ref>>
      /\ RunFits(run, "closed", engine) /\ RunFits(r, "closed", engine)
      /\ r.settled = run.settled /\ Later("closed")
      /\ engine \in {"none", "alive", "mute", "gone"} /\ stage # "confirm"
  BY DEF OnDeliveryClose, Closes, AdapterInv, RunFits, Runs, ChildFits, Later, TypeOK, Delivering
<1> HIDE DEF r
<1>1. CASE run.settled /\ UNCHANGED adapter
  <2>1. Sound(run, run', child')
    BY <1>0, <1>1 DEF adapter, Sound, OverWhenSettled
  <2>2. Handled(run)
    BY <1>0, <1>1, <2>1 DEF adapter, Handled, Moves, AdapterInv, TypeOK
  <2> QED BY <2>2, HandledInv
<1>2. CASE React(FinishPendingRefusal(r)) \/ React(RequestTermination(r))
  <2>1. Sound(r, run', child')
    BY <1>0, <1>2, FinishSound, RequestSound DEF React
  <2>2. Handled(r)
    BY <1>0, <1>2, <2>1 DEF React, Handled, Moves, AdapterInv, TypeOK
  <2> QED BY <2>2, HandledInv
<1>3. CASE /\ ~run.settled /\ said \in {"refusal", "candidate"}
           /\ run' = Settled(r)
           /\ told' = IF said = "candidate" THEN "candidate" ELSE "receipt"
           /\ UNCHANGED stage
  <2>1. RunFits(run', "closed", engine) /\ run'.settled
    BY <1>0, <1>3, SettledFits
  <2>2. TypeOK'
    BY <1>0, <1>3, <2>1 DEF AdapterInv, TypeOK, RunFits
  <2>3. RunFits(run, child, engine)'
    BY <1>0, <2>1 DEF RunFits
  <2>4. WordFits'
    BY <1>0, <1>3 DEF AdapterInv, WordFits
  <2> QED BY <1>0, <1>3, <2>1, <2>2, <2>3, <2>4
          DEF AdapterInv, ChildFits, StageFits, ToldFits, RefusedMeansOver, Delivering
<1> QED BY <1>1, <1>2, <1>3 DEF OnDeliveryClose, r

LEMMA OnCollectCloseInv == AdapterInv /\ OnCollectClose => AdapterInv'
<1> SUFFICES ASSUME AdapterInv, OnCollectClose PROVE AdapterInv'
  OBVIOUS
<1>0. /\ ~Delivering /\ ~run.settled /\ child \in {"ended", "failed"} /\ engine # "alive"
      /\ UNCHANGED <<posix, said, work, ref>>
      /\ run \in Runs /\ RunFits(run, "closed", engine) /\ Collecting(run)
      /\ work = "none" /\ said = "nothing" /\ stage # "confirm" /\ told = "nothing"
  BY DEF OnCollectClose, AdapterInv, RunFits, ChildFits, StageFits, ToldFits, TypeOK, Collecting
<1>1. CASE /\ child' = "closed" /\ run' = Settled(run)
           /\ told' \in {"refusal", "undispatched"} /\ UNCHANGED <<stage, killed, engine>>
  <2>1. RunFits(run', "closed", engine) /\ run'.settled
    BY <1>0, <1>1, SettledFits
  <2>2. TypeOK'
    BY <1>0, <1>1, <2>1 DEF AdapterInv, TypeOK, RunFits
  <2>3. RunFits(run, child, engine)'
    BY <1>0, <1>1, <2>1 DEF RunFits
  <2>4. StageFits'
    BY <1>0, <1>1 DEF StageFits, Collecting, Settled, Runs
  <2> QED BY <1>0, <1>1, <2>1, <2>2, <2>3, <2>4
          DEF AdapterInv, ChildFits, ToldFits, WordFits, RefusedMeansOver, Delivering, Grouped
<1>2. CASE Proceed("deliver") \/ Proceed("confirm")
  <2>1. /\ stage' \in {"deliver", "confirm"} /\ run' = Fresh /\ told' = "nothing"
        /\ child' = "unborn" /\ killed' = "no" /\ engine' = "none"
        /\ posix' = posix /\ said' = "nothing" /\ work' = "none" /\ ref' = ref
    BY <1>0, <1>2 DEF Proceed
  <2>2. TypeOK'
    BY <2>1 DEF AdapterInv, TypeOK, Fresh, Runs
  <2>3. RunFits(run, child, engine)'
    BY <2>1 DEF RunFits, Fresh, Runs
  <2>4. StageFits' /\ ToldFits'
    BY <2>1 DEF StageFits, ToldFits, Fresh
  <2> QED BY <2>1, <2>2, <2>3, <2>4 DEF AdapterInv, ChildFits, WordFits, RefusedMeansOver
<1> QED BY <1>1, <1>2 DEF OnCollectClose

LEMMA ConfirmInv == AdapterInv /\ Confirm => AdapterInv'
<1> SUFFICES ASSUME AdapterInv, Confirm PROVE AdapterInv'
  OBVIOUS
<1>1. /\ stage = "confirm" /\ stage' \in {"confirm", "git"} /\ told = "nothing"
      /\ told' \in {"nothing", "undispatched", "refusal"}
      /\ stage' = "confirm" \/ told' = "nothing"
      /\ UNCHANGED <<posix, run, child, killed, engine, said, work, ref>>
  BY DEF Confirm, others
<1> QED BY <1>1 DEF AdapterInv, TypeOK, RunFits, ChildFits, StageFits, ToldFits, WordFits,
                    RefusedMeansOver, Delivering, Grouped, Members

LEMMA OnKillTimerInv == AdapterInv /\ (OnKillTimer \/ OnKillTimerInVain) => AdapterInv'
<1> SUFFICES ASSUME AdapterInv, OnKillTimer \/ OnKillTimerInVain PROVE AdapterInv'
  OBVIOUS
<1>1. /\ run' = [run EXCEPT !.timer = FALSE] /\ killed' \in {"no", "sent", "failed"}
      /\ UNCHANGED <<posix, stage, told, child, engine, said, work, ref>>
  BY DEF OnKillTimer, OnKillTimerInVain, AdapterInv, TypeOK
<1>2. /\ run' \in Runs
      /\ \A f \in {"spawned", "failed", "closed", "stopping", "settled", "polling", "group"} :
           run'[f] = run[f]
      /\ ~run'.timer
  BY <1>1 DEF AdapterInv, RunFits, Runs
<1>3. /\ run'.spawned = run.spawned /\ run'.failed = run.failed /\ run'.closed = run.closed
      /\ run'.stopping = run.stopping /\ run'.settled = run.settled
      /\ run'.polling = run.polling /\ run'.group = run.group
  BY <1>2
<1> QED BY <1>1, <1>2, <1>3
        DEF AdapterInv, TypeOK, RunFits, ChildFits, StageFits, ToldFits, WordFits,
            RefusedMeansOver, Delivering, Grouped, Members

LEMMA EngineInv ==
  AdapterInv /\ (EngineStarts \/ EngineCreates \/ EnginePrints \/ EngineMoves) => AdapterInv'
<1> USE DEF AdapterInv, TypeOK, RunFits, ChildFits, StageFits, ToldFits, WordFits,
            RefusedMeansOver, Delivering, Grouped, Members, adapter
<1>1. AdapterInv /\ EngineStarts => AdapterInv'
  BY DEF EngineStarts
<1>2. AdapterInv /\ EngineCreates => AdapterInv'
  BY DEF EngineCreates
<1>3. AdapterInv /\ EnginePrints => AdapterInv'
  BY DEF EnginePrints
<1>4. AdapterInv /\ EngineMoves => AdapterInv'
  BY DEF EngineMoves
<1> QED BY <1>1, <1>2, <1>3, <1>4

LEMMA OutsideInv == AdapterInv /\ (ChildEnds \/ Meddle) => AdapterInv'
<1> USE DEF AdapterInv, TypeOK, RunFits, ChildFits, StageFits, ToldFits, WordFits,
            RefusedMeansOver, Delivering, Grouped, Members, adapter
<1>1. AdapterInv /\ ChildEnds => AdapterInv'
  BY DEF ChildEnds
<1>2. AdapterInv /\ Meddle => AdapterInv'
  BY DEF Meddle
<1> QED BY <1>1, <1>2

(* The inductive invariant holds in every reachable state: what the        *)
(* handlers and the timers of one event loop know of the child, its group  *)
(* and the pipe is never more than what is so.                             *)
THEOREM AdapterInvariance == Spec => []AdapterInv
<1>1. AdapterInv /\ [Next]_vars => AdapterInv'
  BY StutterInv, SpawnInv, OnSpawnInv, OnErrorInv, InterruptedInv, OnPollInv,
     OnDeliveryCloseInv, OnCollectCloseInv, ConfirmInv, OnKillTimerInv, EngineInv, OutsideInv
  DEF Next, Loop
<1> QED BY InitInv, <1>1, PTL DEF Spec

(* The variables of /implement keep their types; a settled promise leaves  *)
(* no SIGKILL timer behind that could hit a process of somebody else.      *)
THEOREM AdapterTypes == Spec => []TypeOK
<1>1. AdapterInv => TypeOK
  BY DEF AdapterInv
<1> QED BY <1>1, AdapterInvariance, PTL

(* A refusal is told only over a child that has ended and, on POSIX, over  *)
(* a group of `deliver` that is gone (finishPendingRefusal): no candidate  *)
(* can appear behind the developer's back.                                 *)
THEOREM RefusalsAreOver == Spec => []RefusedMeansOver
<1>1. AdapterInv => RefusedMeansOver
  BY DEF AdapterInv
<1> QED BY <1>1, AdapterInvariance, PTL

(***************************************************************************)
(* The create-once store, seen through what the developer is told.         *)
(***************************************************************************)
(* The steps of CandidateStore for the one delivery of /implement.         *)
StoreMove ==
  \/ Status = "working" /\ Status' = "created" /\ ref = "none" /\ ref' = "own"
  \/ Status = "created" /\ Status' = "announced" /\ ref' = ref
  \/ Status = "working" /\ Status' = "refused" /\ ref' = ref
  \/ Status \in {"working", "created"} /\ Status' = "silent" /\ ref' = ref
  \/ Status' = Status /\ ref' = IF ref = "none" THEN "foreign" ELSE "none"
  \/ Status' = Status /\ ref' = ref

LEMMA MoveIsStoreStep == StoreMove => Store!Next \/ UNCHANGED Store!vars
<1>1. CASE Status = "working" /\ Status' = "created" /\ ref = "none" /\ ref' = "own"
  BY <1>1 DEF Store!Next, Store!Create
<1>2. CASE Status = "created" /\ Status' = "announced" /\ ref' = ref
  BY <1>2 DEF Store!Next, Store!Announce
<1>3. CASE Status = "working" /\ Status' = "refused" /\ ref' = ref
  BY <1>3 DEF Store!Next, Store!Refuse
<1>4. CASE Status \in {"working", "created"} /\ Status' = "silent" /\ ref' = ref
  BY <1>4 DEF Store!Next, Store!Die
<1>5. CASE Status' = Status /\ ref' = IF ref = "none" THEN "foreign" ELSE "none"
  BY <1>5 DEF Store!Next, Store!Meddle
<1>6. CASE Status' = Status /\ ref' = ref
  BY <1>6 DEF Store!vars
<1> QED BY <1>1, <1>2, <1>3, <1>4, <1>5, <1>6 DEF StoreMove

(* A handler that leaves the developer uninformed, or says that nothing    *)
(* will come, takes at most the step of a delivery that ends in silence.   *)
LEMMA SilenceMove ==
  ASSUME TypeOK, UNCHANGED <<work, ref>>,
         told' = told \/ (told = "nothing" /\ told' \in {"refusal", "undispatched"})
  PROVE  StoreMove
BY DEF TypeOK, StoreMove, Status

LEMMA ReactMove ==
  ASSUME AdapterInv, stage # "confirm", NEW outcomes, React(outcomes), UNCHANGED <<work, ref>>
  PROVE  StoreMove
<1>1. told' = told \/ (told = "nothing" /\ told' = "refusal")
  BY DEF React, AdapterInv, ToldFits
<1> QED BY <1>1, SilenceMove DEF AdapterInv

LEMMA HandlerMove ==
  AdapterInv /\ (Spawn \/ OnSpawn \/ OnError \/ Interrupted \/ OnPoll) => StoreMove
<1> SUFFICES ASSUME AdapterInv, Spawn \/ OnSpawn \/ OnError \/ Interrupted \/ OnPoll
             PROVE  StoreMove
  OBVIOUS
<1>1. stage # "confirm"
  BY DEF AdapterInv, StageFits, TypeOK, Delivering, Spawn, OnSpawn, OnError, Interrupted, OnPoll
<1>2. UNCHANGED <<work, ref>>
  BY DEF Spawn, OnSpawn, OnError, Interrupted, OnPoll, others
<1>3. CASE told = "nothing" /\ told' = "refusal"
  BY <1>2, <1>3, SilenceMove DEF AdapterInv
<1>4. CASE \E outcomes : React(outcomes)
  BY <1>1, <1>2, <1>4, ReactMove
<1> QED BY <1>3, <1>4 DEF Spawn, OnSpawn, OnError, Interrupted, OnPoll

LEMMA DeliveryCloseMove == AdapterInv /\ OnDeliveryClose => StoreMove
<1> SUFFICES ASSUME AdapterInv, OnDeliveryClose PROVE StoreMove
  OBVIOUS
<1>1. UNCHANGED <<work, ref>> /\ stage # "confirm"
  BY DEF OnDeliveryClose, Closes, Delivering
<1>2. CASE UNCHANGED adapter
  BY <1>1, <1>2, SilenceMove DEF adapter, AdapterInv
<1>3. CASE \E outcomes : React(outcomes)
  BY <1>1, <1>3, ReactMove
<1>4. CASE /\ ~run.settled /\ said \in {"refusal", "candidate"}
           /\ told' = IF said = "candidate" THEN "candidate" ELSE "receipt"
  <2>1. told = "nothing"
    BY <1>1, <1>4 DEF AdapterInv, ToldFits
  <2>2. CASE said = "candidate"
    BY <1>1, <1>4, <2>1, <2>2 DEF AdapterInv, WordFits, StoreMove, Status
  <2>3. CASE said = "refusal"
    BY <1>1, <1>4, <2>1, <2>3 DEF AdapterInv, WordFits, StoreMove, Status
  <2> QED BY <1>4, <2>2, <2>3
<1> QED BY <1>2, <1>3, <1>4 DEF OnDeliveryClose

LEMMA OtherMove ==
  AdapterInv /\ (OnCollectClose \/ Confirm \/ OnKillTimer \/ OnKillTimerInVain \/ EngineMoves
                 \/ ChildEnds \/ UNCHANGED vars) => StoreMove
<1> SUFFICES ASSUME AdapterInv,
                    OnCollectClose \/ Confirm \/ OnKillTimer \/ OnKillTimerInVain \/ EngineMoves
                      \/ ChildEnds \/ UNCHANGED vars
             PROVE  StoreMove
  OBVIOUS
<1>1. UNCHANGED <<work, ref>>
  BY DEF OnCollectClose, Confirm, OnKillTimer, OnKillTimerInVain, EngineMoves, ChildEnds, vars,
         others
<1>2. told' = told \/ (told = "nothing" /\ told' \in {"refusal", "undispatched"})
  BY DEF OnCollectClose, Proceed, Confirm, OnKillTimer, OnKillTimerInVain, EngineMoves,
         ChildEnds, vars, adapter, AdapterInv, ToldFits, StageFits, TypeOK
<1> QED BY <1>1, <1>2, SilenceMove DEF AdapterInv

LEMMA EngineMove ==
  AdapterInv /\ posix /\ (EngineStarts \/ EngineCreates \/ EnginePrints \/ Meddle) => StoreMove
<1> USE DEF adapter, StoreMove, Status
<1>1. AdapterInv /\ EngineStarts => StoreMove
  BY DEF EngineStarts, AdapterInv, TypeOK, WordFits
<1>2. AdapterInv /\ posix /\ EngineCreates => StoreMove
  <2> SUFFICES ASSUME AdapterInv, posix, EngineCreates PROVE StoreMove
    OBVIOUS
  <2>1. Members /\ work = "working" /\ Delivering
    BY DEF EngineCreates, AdapterInv, StageFits
  <2>2. told = "nothing"
    BY <2>1 DEF AdapterInv, TypeOK, WordFits, RefusedMeansOver, Grouped
  <2> QED BY <2>1, <2>2 DEF EngineCreates
<1>3. AdapterInv /\ EnginePrints => StoreMove
  BY DEF EnginePrints, AdapterInv, TypeOK
<1>4. AdapterInv /\ Meddle => StoreMove
  BY DEF Meddle, AdapterInv, TypeOK
<1> QED BY <1>1, <1>2, <1>3, <1>4

(* With process groups /implement is a client of the create-once store: it *)
(* reports a candidate only when its own delivery created it, a refusal    *)
(* receipt only when that delivery created nothing, and whatever it tells, *)
(* nothing is created afterwards.                                          *)
THEOREM ImplementIsStoreClient == Spec => ImplementsStore
<1>1. Init => Store!Init
  BY DEF Init, Store!Init, Status
<1>2. AdapterInv /\ [Next]_vars => [posix => Store!Next \/ UNCHANGED Store!vars]_vars
  BY MoveIsStoreStep, HandlerMove, DeliveryCloseMove, OtherMove, EngineMove DEF Next, Loop
<1> QED BY <1>1, <1>2, AdapterInvariance, PTL DEF Spec, ImplementsStore

(***************************************************************************)
(* A refusal that is decided is not stranded: until it is told, an event,  *)
(* a timer or a probe that will act on it is outstanding.                  *)
(***************************************************************************)
(* How far the promise r has come with a refusal, for a child c and the    *)
(* fate k of the SIGKILL sent to it.  Begun: it is stopping the group or   *)
(* the child; Driven: if the child has closed as well, a probe is set.     *)
Begun(r, c, k) ==
  /\ ~(r.spawned \/ r.failed) => ~r.stopping
  /\ r.stopping => r.pending
  /\ ~r.settled /\ r.pending /\ (r.spawned \/ r.failed) =>
       /\ r.stopping
       /\ posix => r.group # "unset" \/ r.failed
       /\ ~posix /\ c = "running" => r.timer \/ k # "no"

Driven(r, c, k) ==
  /\ Begun(r, c, k)
  /\ ~r.settled /\ r.pending /\ (r.spawned \/ r.failed) /\ r.closed => r.polling

(* The closures do not touch what the events noted.                        *)
Noted(r, s) == s.spawned = r.spawned /\ s.failed = r.failed /\ s.closed = r.closed

LEMMA FinishDrives ==
  ASSUME NEW r \in Runs, NEW c, NEW k, Begun(r, c, k), NEW s \in FinishPendingRefusal(r)
  PROVE  Driven(s, c, k) /\ Noted(r, s) /\ s \in Runs /\ s.pending = r.pending
<1> DEFINE Idle == r.settled \/ ~r.pending \/ ~r.closed
                     \/ (posix /\ r.group = "unset" /\ ~r.failed)
<1>1. CASE Idle
  <2>1. s = r
    BY <1>1 DEF FinishPendingRefusal
  <2> QED BY <1>1, <2>1 DEF Driven, Begun, Noted
<1>2. CASE ~Idle /\ s = Settled(r)
  BY <1>2 DEF Settled, Runs, Driven, Begun, Noted
<1>3. CASE ~Idle /\ s # Settled(r)
  <2>1. PICK g \in Answers : s = IF g = "gone" THEN Settled([r EXCEPT !.group = g])
                                 ELSE [r EXCEPT !.group = g, !.polling = TRUE]
    BY <1>3 DEF FinishPendingRefusal
  <2>2. g \in {"present", "unknown", "gone"}
    BY DEF Answers
  <2>3. CASE g = "gone"
    BY <2>1, <2>3 DEF Settled, Runs, Driven, Begun, Noted
  <2>4. CASE g # "gone"
    BY <2>1, <2>2, <2>4 DEF Runs, Driven, Begun, Noted
  <2> QED BY <2>3, <2>4
<1> QED BY <1>1, <1>2, <1>3

LEMMA BeginDrives ==
  ASSUME NEW r \in Runs, NEW c, NEW k,
         r.failed => c # "running",
         ~(r.spawned \/ r.failed) => ~r.stopping,
         r.stopping => r.pending,
         r.stopping /\ ~r.settled => Driven(r, c, k),
         NEW s \in BeginTermination(r)
  PROVE  Driven(s, c, k) /\ Noted(r, s) /\ s \in Runs /\ s.pending = r.pending
<1> DEFINE Idle == r.settled \/ ~r.pending \/ r.stopping \/ (~r.spawned /\ ~r.failed)
<1>1. CASE Idle
  <2>1. s = r
    BY <1>1 DEF BeginTermination
  <2>2. Driven(r, c, k)
    BY <1>1 DEF Driven, Begun
  <2> QED BY <2>1, <2>2 DEF Noted
<1>2. CASE ~Idle
  <2>1. PICK q \in IF r.failed /\ ~r.spawned
                   THEN {[r EXCEPT !.stopping = TRUE]}
                   ELSE IF posix
                   THEN {[r EXCEPT !.stopping = TRUE, !.group = g] : g \in Answers}
                   ELSE {[r EXCEPT !.stopping = TRUE, !.timer = TRUE]} :
             s \in FinishPendingRefusal(q)
    BY <1>2 DEF BeginTermination
  <2>2. q \in Runs /\ Begun(q, c, k) /\ Noted(r, q) /\ q.pending = r.pending
    <3>1. CASE r.failed /\ ~r.spawned
      BY <1>2, <2>1, <3>1 DEF Runs, Begun, Noted
    <3>2. CASE ~(r.failed /\ ~r.spawned) /\ posix
      <4>1. PICK g \in Answers : q = [r EXCEPT !.stopping = TRUE, !.group = g]
        BY <2>1, <3>2
      <4>2. g \in {"present", "unknown", "gone"}
        BY DEF Answers
      <4> QED BY <1>2, <3>2, <4>1, <4>2 DEF Runs, Begun, Noted
    <3>3. CASE ~(r.failed /\ ~r.spawned) /\ ~posix
      BY <1>2, <2>1, <3>3 DEF Runs, Begun, Noted
    <3> QED BY <3>1, <3>2, <3>3
  <2>3. Driven(s, c, k) /\ Noted(q, s) /\ s \in Runs /\ s.pending = q.pending
    BY <2>1, <2>2, FinishDrives
  <2> QED BY <2>2, <2>3 DEF Noted
<1> QED BY <1>1, <1>2

LEMMA RequestDrives ==
  ASSUME NEW r \in Runs, NEW c, NEW k, Delivering,
         r.failed => c # "running", ~r.settled, ~r.pending, ~r.stopping,
         NEW s \in RequestTermination(r)
  PROVE  Driven(s, c, k) /\ Noted(r, s) /\ s \in Runs /\ s.pending
<1> DEFINE q == [r EXCEPT !.pending = TRUE]
<1>1. s \in BeginTermination(q)
  BY DEF RequestTermination
<1>2. /\ q \in Runs /\ q.failed = r.failed /\ ~q.stopping /\ q.pending /\ Noted(r, q)
  BY DEF Runs, Noted
<1> HIDE DEF q
<1>3. Driven(s, c, k) /\ Noted(q, s) /\ s \in Runs /\ s.pending = q.pending
  BY <1>1, <1>2, BeginDrives
<1> QED BY <1>2, <1>3 DEF Noted

(* What the promise of `deliver` has been told of its child.               *)
Arrived(r, c) ==
  ~r.settled =>
    /\ c \in {"running", "ended"} => r.spawned
    /\ c = "failed" => r.failed
    /\ c = "closed" => r.closed /\ r.pending /\ (r.spawned \/ r.failed)

(* The promise of a short child ends at its close event at the latest.     *)
Collected(r, c, k) ==
  /\ ~r.settled => c # "closed"
  /\ ~r.settled /\ r.pending /\ c \in {"starting", "running"} => r.timer \/ k # "no"

DriveInv ==
  /\ Delivering => Driven(run, child, killed) /\ Arrived(run, child)
  /\ ~Delivering => Collected(run, child, killed)
  /\ run.pending => child # "unborn"

LEMMA InitDrives == Init => DriveInv
BY DEF Init, Fresh, DriveInv, Delivering, Driven, Begun, Arrived, Collected

(* What the child does by itself, and everybody else, strands nothing.     *)
LEMMA QuietDrives ==
  ASSUME DriveInv, UNCHANGED <<posix, stage, run, killed>>,
         child' = child \/ (child = "running" /\ child' = "ended")
  PROVE  DriveInv'
BY DEF DriveInv, Delivering, Driven, Begun, Arrived, Collected

LEMMA SpawnDrives == AdapterInv /\ DriveInv /\ Spawn => DriveInv'
<1> SUFFICES ASSUME AdapterInv, DriveInv, Spawn PROVE DriveInv'
  OBVIOUS
<1>1. /\ run \in Runs /\ ~run.settled /\ ~run.pending /\ child = "unborn" /\ told = "nothing"
      /\ ~run.spawned /\ ~run.failed /\ ~run.stopping
      /\ UNCHANGED <<posix, killed, stage>>
  BY DEF Spawn, React, AdapterInv, RunFits, ToldFits, DriveInv, Driven, Begun, StageFits
<1>2. CASE run' = Settled(run) /\ UNCHANGED child
  BY <1>1, <1>2 DEF Settled, Runs, DriveInv, Delivering, Driven, Begun, Arrived, Collected
<1>3. CASE run' = run /\ child' = "starting"
  BY <1>1, <1>3 DEF DriveInv, Delivering, Driven, Begun, Arrived, Collected
<1>4. CASE run' \in RequestTermination(run) /\ child' = "starting"
  <2>1. CASE Delivering
    <3>1. Driven(run', child', killed) /\ Noted(run, run')
      BY <1>1, <1>4, <2>1, RequestDrives
    <3> QED BY <1>1, <1>4, <2>1, <3>1 DEF DriveInv, Delivering, Driven, Begun, Arrived
  <2>2. CASE ~Delivering
    <3>1. run' = [run EXCEPT !.pending = TRUE, !.timer = TRUE]
      BY <1>1, <1>4, <2>2 DEF RequestTermination
    <3> QED BY <1>1, <1>4, <2>2, <3>1 DEF Runs, DriveInv, Delivering, Collected
  <2> QED BY <2>1, <2>2
<1> QED BY <1>2, <1>3, <1>4 DEF Spawn, React

LEMMA OnSpawnDrives == AdapterInv /\ DriveInv /\ OnSpawn => DriveInv'
<1> SUFFICES ASSUME AdapterInv, DriveInv, OnSpawn PROVE DriveInv'
  OBVIOUS
<1> DEFINE r == [run EXCEPT !.spawned = TRUE]
<1>1. /\ run \in Runs /\ child = "starting" /\ child' = "running"
      /\ ~run.spawned /\ ~run.failed /\ ~run.closed
      /\ UNCHANGED <<posix, killed, stage>>
  BY DEF OnSpawn, React, AdapterInv, RunFits
<1>2. CASE Delivering
  <2>1. run' \in BeginTermination(r)
    BY <1>2 DEF OnSpawn, React
  <2>2. r \in Runs /\ r.spawned /\ ~r.failed /\ ~r.closed /\ ~r.stopping
    BY <1>1, <1>2 DEF Runs, DriveInv, Driven, Begun
  <2> HIDE DEF r
  <2>3. Driven(run', child', killed) /\ Noted(r, run')
    BY <2>1, <2>2, BeginDrives
  <2> QED BY <1>1, <1>2, <2>2, <2>3 DEF DriveInv, Delivering, Driven, Begun, Arrived, Noted
<1>3. CASE ~Delivering
  <2>1. run' = run
    BY <1>3 DEF OnSpawn, React
  <2> QED BY <1>1, <1>3, <2>1 DEF DriveInv, Delivering, Collected
<1> QED BY <1>2, <1>3

LEMMA OnErrorDrives == AdapterInv /\ DriveInv /\ OnError => DriveInv'
<1> SUFFICES ASSUME AdapterInv, DriveInv, OnError PROVE DriveInv'
  OBVIOUS
<1> DEFINE r == [run EXCEPT !.failed = TRUE, !.closed = TRUE]
<1>1. /\ run \in Runs /\ child = "starting" /\ child' = "failed"
      /\ ~run.spawned /\ ~run.failed
      /\ UNCHANGED <<posix, killed, stage>>
  BY DEF OnError, React, AdapterInv, RunFits
<1>2. CASE Delivering
  <2>1. PICK q \in RequestTermination(r) : run' \in BeginTermination(q)
    BY <1>2 DEF OnError, React
  <2>2. r \in Runs /\ ~r.spawned /\ r.failed /\ ~r.stopping
    BY <1>1, <1>2 DEF Runs, DriveInv, Driven, Begun
  <2> HIDE DEF r
  <2>3. /\ q \in Runs /\ Noted(r, q)
        /\ q.stopping => q.pending
        /\ q.stopping => Driven(q, child', killed)
    <3>1. CASE r.settled \/ r.pending
      <4>1. q = r
        BY <2>1, <3>1 DEF RequestTermination
      <4> QED BY <2>2, <4>1 DEF Noted
    <3>2. CASE ~(r.settled \/ r.pending)
      BY <1>1, <1>2, <2>1, <2>2, <3>2, RequestDrives
    <3> QED BY <3>1, <3>2
  <2>4. ~q.spawned /\ q.failed /\ child' # "running"
    BY <1>1, <2>2, <2>3 DEF Noted
  <2>5. Driven(run', child', killed) /\ Noted(q, run')
    BY <2>1, <2>3, <2>4, BeginDrives
  <2> QED BY <1>1, <1>2, <2>2, <2>3, <2>5 DEF DriveInv, Delivering, Driven, Begun, Arrived, Noted
<1>3. CASE ~Delivering
  BY <1>1, <1>3 DEF DriveInv, Delivering, Collected
<1> QED BY <1>2, <1>3

LEMMA InterruptedDrives == AdapterInv /\ DriveInv /\ Interrupted => DriveInv'
<1> SUFFICES ASSUME AdapterInv, DriveInv, Interrupted PROVE DriveInv'
  OBVIOUS
<1>1. /\ run \in Runs /\ ~run.settled /\ ~run.pending /\ run' \in RequestTermination(run)
      /\ child \in {"starting", "running", "ended"}
      /\ run.failed => child # "running"
      /\ UNCHANGED <<posix, killed, stage, child>>
  BY DEF Interrupted, React, others, AdapterInv, RunFits
<1>2. CASE Delivering
  <2>1. ~run.stopping
    BY <1>1, <1>2 DEF DriveInv, Driven, Begun
  <2>2. Driven(run', child', killed) /\ Noted(run, run')
    BY <1>1, <1>2, <2>1, RequestDrives
  <2> QED BY <1>1, <1>2, <2>2 DEF DriveInv, Delivering, Driven, Begun, Arrived, Noted
<1>3. CASE ~Delivering
  <2>1. run' = [run EXCEPT !.pending = TRUE, !.timer = TRUE]
    BY <1>1, <1>3 DEF RequestTermination
  <2> QED BY <1>1, <1>3, <2>1 DEF Runs, DriveInv, Delivering, Collected
<1> QED BY <1>2, <1>3

(* The timer hands over to the SIGKILL it sends.                           *)
LEMMA OnKillTimerDrives == AdapterInv /\ DriveInv /\ (OnKillTimer \/ OnKillTimerInVain) => DriveInv'
<1> SUFFICES ASSUME AdapterInv, DriveInv, OnKillTimer \/ OnKillTimerInVain PROVE DriveInv'
  OBVIOUS
<1>1. /\ run \in Runs /\ run' = [run EXCEPT !.timer = FALSE]
      /\ child \in {"starting", "running"} => killed' # "no"
      /\ child \notin {"starting", "running"} => killed' = killed
      /\ UNCHANGED <<posix, stage, child>>
  BY DEF OnKillTimer, OnKillTimerInVain, AdapterInv, RunFits
<1>2. /\ run'.settled = run.settled /\ run'.pending = run.pending /\ run'.spawned = run.spawned
      /\ run'.failed = run.failed /\ run'.closed = run.closed /\ run'.stopping = run.stopping
      /\ run'.group = run.group /\ run'.polling = run.polling
  BY <1>1 DEF Runs
<1> QED BY <1>1, <1>2 DEF DriveInv, Delivering, Driven, Begun, Arrived, Collected

LEMMA OnPollDrives == AdapterInv /\ DriveInv /\ OnPoll => DriveInv'
<1> SUFFICES ASSUME AdapterInv, DriveInv, OnPoll PROVE DriveInv'
  OBVIOUS
<1> DEFINE r == [run EXCEPT !.polling = FALSE]
<1>1. /\ Delivering /\ run' \in FinishPendingRefusal(r)
      /\ UNCHANGED <<posix, killed, stage, child>>
  BY DEF OnPoll, React, others, AdapterInv, StageFits
<1>2. r \in Runs /\ Begun(r, child, killed) /\ Noted(run, r) /\ r.pending = run.pending
      /\ r.settled = run.settled
  BY <1>1 DEF AdapterInv, RunFits, Runs, DriveInv, Driven, Begun, Noted
<1> HIDE DEF r
<1>3. /\ Driven(run', child, killed) /\ Noted(r, run') /\ run'.pending = r.pending
      /\ r.settled => run' = r
  BY <1>1, <1>2, FinishDrives DEF FinishPendingRefusal
<1> QED BY <1>1, <1>2, <1>3 DEF DriveInv, Delivering, Driven, Begun, Arrived, Noted

LEMMA OnDeliveryCloseDrives == AdapterInv /\ DriveInv /\ OnDeliveryClose => DriveInv'
<1> SUFFICES ASSUME AdapterInv, DriveInv, OnDeliveryClose PROVE DriveInv'
  OBVIOUS
<1> DEFINE r == [run EXCEPT !.closed = TRUE]
<1>1. /\ Delivering /\ child \in {"ended", "failed"} /\ child' = "closed" /\ run \in Runs
      /\ UNCHANGED <<posix, killed, stage>>
  BY DEF OnDeliveryClose, Closes, React, adapter, AdapterInv, RunFits
<1>2. ~run.settled => run.spawned \/ run.failed
  BY <1>1 DEF DriveInv, Arrived
<1>3. /\ r \in Runs /\ r.closed /\ r.settled = run.settled /\ r.pending = run.pending
      /\ r.spawned = run.spawned /\ r.failed = run.failed /\ r.stopping = run.stopping
      /\ Begun(r, "closed", killed)
  BY <1>1 DEF Runs, DriveInv, Driven, Begun
<1>4. CASE run.settled /\ UNCHANGED adapter
  BY <1>1, <1>4 DEF adapter, DriveInv, Delivering, Driven, Begun, Arrived
<1>5. CASE ~run.settled /\ run.pending /\ run' \in FinishPendingRefusal(r)
  <2> HIDE DEF r
  <2>1. Driven(run', "closed", killed) /\ Noted(r, run') /\ run'.pending
    BY <1>3, <1>5, FinishDrives
  <2> QED BY <1>1, <1>2, <1>3, <1>5, <2>1 DEF DriveInv, Delivering, Driven, Begun, Arrived, Noted
<1>6. CASE ~run.settled /\ ~run.pending /\ run' \in RequestTermination(r)
  <2> HIDE DEF r
  <2>1. ~r.stopping
    BY <1>3, <1>6 DEF Begun
  <2>2. Driven(run', "closed", killed) /\ Noted(r, run') /\ run'.pending
    BY <1>1, <1>3, <1>6, <2>1, RequestDrives
  <2> QED BY <1>1, <1>2, <1>3, <1>6, <2>2 DEF DriveInv, Delivering, Driven, Begun, Arrived, Noted
<1>7. CASE ~run.settled /\ ~run.pending /\ run' = Settled(r)
  BY <1>1, <1>3, <1>7 DEF Settled, Runs, DriveInv, Delivering, Driven, Begun, Arrived
<1> QED BY <1>4, <1>5, <1>6, <1>7 DEF OnDeliveryClose, React

LEMMA OnCollectCloseDrives == AdapterInv /\ DriveInv /\ OnCollectClose => DriveInv'
<1> SUFFICES ASSUME AdapterInv, DriveInv, OnCollectClose PROVE DriveInv'
  OBVIOUS
<1>1. run \in Runs /\ ~Delivering /\ UNCHANGED posix /\ child \in {"ended", "failed"}
  BY DEF OnCollectClose, AdapterInv, RunFits
<1>2. CASE child' = "closed" /\ run' = Settled(run) /\ UNCHANGED stage
  BY <1>1, <1>2 DEF Settled, Runs, DriveInv, Delivering, Collected
<1>3. CASE \E next \in {"deliver", "confirm"} : Proceed(next)
  BY <1>3 DEF Proceed, Fresh, DriveInv, Delivering, Driven, Begun, Arrived, Collected
<1> QED BY <1>2, <1>3 DEF OnCollectClose

LEMMA DriveStep == AdapterInv /\ DriveInv /\ [Next]_vars => DriveInv'
<1> SUFFICES ASSUME AdapterInv, DriveInv, [Next]_vars PROVE DriveInv'
  OBVIOUS
<1>1. CASE UNCHANGED vars
  BY <1>1, QuietDrives DEF vars, adapter, others
<1>2. CASE Spawn \/ OnSpawn \/ OnError
  BY <1>2, SpawnDrives, OnSpawnDrives, OnErrorDrives
<1>3. CASE OnKillTimer \/ OnKillTimerInVain \/ OnPoll \/ Interrupted
  BY <1>3, OnKillTimerDrives, OnPollDrives, InterruptedDrives
<1>4. CASE OnDeliveryClose \/ OnCollectClose
  BY <1>4, OnDeliveryCloseDrives, OnCollectCloseDrives
<1>5. CASE Confirm
  BY <1>5 DEF Confirm, others, AdapterInv, StageFits, DriveInv, Delivering, Collected
<1>6. CASE EngineStarts \/ EngineCreates \/ EnginePrints \/ EngineMoves \/ ChildEnds \/ Meddle
  BY <1>6, QuietDrives
     DEF EngineStarts, EngineCreates, EnginePrints, EngineMoves, ChildEnds, Meddle, adapter
<1> QED BY <1>1, <1>2, <1>3, <1>4, <1>5, <1>6 DEF Next, Loop

(* What will move a pending refusal: the spawn or error event, the close   *)
(* event, the SIGKILL timer, a probe, or the end of a killed child.        *)
SomethingComes ==
  \/ child \in {"starting", "failed"}
  \/ child = "ended" /\ engine # "alive"
  \/ run.timer \/ run.polling
  \/ killed = "sent" /\ child = "running"

PendingIsDriven == run.pending /\ told = "nothing" => SomethingComes \/ WaitsForSomebody

(* No order of spawn, error, close, deadline, timers and probes leaves a   *)
(* refusal pending with nothing outstanding that would tell it             *)
(* (orchestrator.ts, collect and runDelivery).                             *)
THEOREM RefusalsAreDriven == Spec => []PendingIsDriven
<1>1. AdapterInv /\ DriveInv => PendingIsDriven
  <2> SUFFICES ASSUME AdapterInv, DriveInv, run.pending, told = "nothing"
               PROVE  SomethingComes \/ WaitsForSomebody
    BY DEF PendingIsDriven
  <2>1. /\ ~run.settled /\ killed \in {"no", "sent", "failed"} /\ run \in Runs
        /\ child \in {"starting", "failed", "running", "ended", "closed"}
        /\ child = "ended" => SomethingComes \/ Members
    BY DEF AdapterInv, ToldFits, TypeOK, DriveInv, SomethingComes, Members
  <2>2. CASE Delivering
    BY <2>1, <2>2 DEF DriveInv, Driven, Begun, Arrived, SomethingComes, WaitsForSomebody, Grouped
  <2>3. CASE ~Delivering
    BY <2>1, <2>3 DEF DriveInv, Collected, SomethingComes, WaitsForSomebody
  <2> QED BY <2>2, <2>3
<1>2. Init /\ [][Next]_vars /\ []AdapterInv => []DriveInv
  BY InitDrives, DriveStep, PTL
<1> QED BY <1>1, <1>2, AdapterInvariance, PTL DEF Spec
=============================================================================
