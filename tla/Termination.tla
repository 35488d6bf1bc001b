----------------------------- MODULE Termination -----------------------------
(***************************************************************************)
(* Stopping an attempt.  `deliver` (src/satyrn_engine/delivery.py) runs    *)
(* `attempt` (src/satyrn_engine/attempt.py) as the leader of a process     *)
(* group and tears that group down: SIGTERM, a grace period, SIGKILL, reap,*)
(* probe.  `attempt` runs Pi in a session of its own, forwards the SIGTERM *)
(* to it and leaves only after Pi did, to publish what Pi produced.  All   *)
(* of them, a helper in the attempt's group (a git child) and a tool that  *)
(* holds Pi's stdout, move independently.                                  *)
(***************************************************************************)
EXTENDS Naturals

CONSTANT Grace   \* bound: probes that fit into the five seconds of grace

ASSUME GraceAssumption == Grace \in Nat

VARIABLES
  (* deliver *)
  epc,      \* where _teardown_process_group is
  group,    \* what the last signal or probe said of the attempt's group
  reaped,   \* _reap_direct_child's answer
  polls,    \* probes made during the grace period
  (* attempt *)
  apc,      \* where attempt is; "zombie" has exited, "reaped" is gone
  termSent, \* a SIGTERM is on its way to it
  recorded, \* SubprocessPiRunner._termination_signal is set
  killed,   \* it was sent SIGKILL
  finalized,\* it got to publish what Pi left
  (* the others *)
  helper,   \* another member of the attempt's group
  pi,       \* Pi
  told,     \* Pi's group was sent the signal
  tool      \* a descendant of Pi that holds Pi's stdout

deliver == <<epc, group, reaped, polls>>
attempt == <<apc, termSent, recorded, killed, finalized>>
others  == <<helper, pi, told, tool>>
vars    == <<deliver, attempt, others>>

Alive == {"booting", "preparing", "spawning", "spawned", "watching", "joining",
          "publishing", "leaving"}

TypeOK ==
  /\ epc \in {"watching", "grace", "kill", "reap", "reap_kill", "reap_again",
              "probe", "done", "finished"}
  /\ group \in {"PRESENT", "GONE", "UNKNOWN"}
  /\ reaped \in BOOLEAN
  /\ polls \in 0..Grace
  /\ apc \in Alive \cup {"zombie", "reaped"}
  /\ termSent \in BOOLEAN /\ recorded \in BOOLEAN /\ killed \in BOOLEAN
  /\ finalized \in BOOLEAN
  /\ helper \in {"none", "alive", "gone"}
  /\ pi \in {"none", "running", "gone"}
  /\ told \in BOOLEAN
  /\ tool \in {"none", "alive", "gone"}

Init ==
  /\ epc = "watching" /\ group = "PRESENT" /\ reaped = FALSE /\ polls = 0
  /\ apc = "booting"
  /\ termSent = FALSE /\ recorded = FALSE /\ killed = FALSE /\ finalized = FALSE
  /\ helper = "none" /\ pi = "none" /\ told = FALSE /\ tool = "none"

(* killpg finds the group while a member lives or its leader is unreaped. *)
GroupEmpty == apc = "reaped" /\ helper # "alive"

(* What killpg answers; any error but ESRCH leaves the group unknown. *)
Answers == (IF GroupEmpty THEN {"GONE"} ELSE {"PRESENT"}) \cup {"UNKNOWN"}

(* Popen.poll and Popen.wait collect a child that has exited. *)
Collected == IF apc = "zombie" THEN "reaped" ELSE apc

(***************************************************************************)
(* deliver.                                                                *)
(***************************************************************************)
(* The attempt ends by itself: no teardown. *)
Finish ==
  /\ epc = "watching" /\ apc \in {"zombie", "reaped"}
  /\ apc' = "reaped"
  /\ epc' = "finished"
  /\ UNCHANGED <<group, reaped, polls, termSent, recorded, killed, finalized, others>>

(* The budget stream polls the child while it goes on reading. *)
PollWhileReading ==
  /\ epc = "watching" /\ apc = "zombie"
  /\ apc' = "reaped"
  /\ UNCHANGED <<deliver, termSent, recorded, killed, finalized, others>>

(* Timeout, budget or SIGTERM: the teardown begins. *)
SendTerm ==
  /\ epc = "watching"
  /\ group' \in Answers
  /\ epc' = CASE group' = "PRESENT" -> "grace"
              [] group' = "UNKNOWN" -> "kill"
              [] group' = "GONE"    -> "reap"
  /\ termSent' = (group' = "PRESENT" /\ apc \in Alive)
  /\ UNCHANGED <<reaped, polls, apc, recorded, killed, finalized, others>>

(* Mutant: the deadline of the grace period is not looked at. *)
GraceProbeForever ==
  /\ epc = "grace"
  /\ apc' = Collected
  /\ group' \in (IF apc' = "reaped" /\ helper # "alive" THEN {"GONE"} ELSE {"PRESENT"})
                  \cup {"UNKNOWN"}
  /\ epc' = CASE group' = "PRESENT" -> "grace"
              [] group' = "UNKNOWN" -> "kill"
              [] group' = "GONE"    -> "reap"
  /\ polls' = (polls + 1) % Grace
  /\ UNCHANGED <<reaped, termSent, recorded, killed, finalized, others>>

(* Every 0.05 s of the grace period: poll the child, probe the group. *)
GraceProbe ==
  /\ epc = "grace" /\ polls < Grace
  /\ apc' = Collected
  /\ group' \in (IF apc' = "reaped" /\ helper # "alive" THEN {"GONE"} ELSE {"PRESENT"})
                  \cup {"UNKNOWN"}
  /\ epc' = CASE group' = "PRESENT" -> "grace"
              [] group' = "UNKNOWN" -> "kill"
              [] group' = "GONE"    -> "reap"
  /\ polls' = polls + 1
  /\ UNCHANGED <<reaped, termSent, recorded, killed, finalized, others>>

GraceOver ==
  /\ epc = "grace" /\ polls = Grace
  /\ epc' = "kill"
  /\ UNCHANGED <<group, reaped, polls, attempt, others>>

SendKill ==
  /\ epc = "kill"
  /\ group' \in Answers
  /\ epc' = "reap"
  /\ killed' = (killed \/ group' = "PRESENT")
  /\ UNCHANGED <<reaped, polls, apc, termSent, recorded, finalized, others>>

(* Popen.wait(timeout=1.0), once before and once after killing the child. *)
WaitForChild(now, orElse) ==
  /\ epc = now
  /\ \/ /\ apc \notin Alive
        /\ apc' = "reaped" /\ reaped' = TRUE /\ epc' = "probe"
     \/ apc \in Alive /\ epc' = orElse /\ UNCHANGED <<apc, reaped>>
     \/ epc' = "probe" /\ UNCHANGED <<apc, reaped>>   \* wait itself failed
  /\ UNCHANGED <<group, polls, termSent, recorded, killed, finalized, others>>

Reap      == WaitForChild("reap", "reap_kill")
ReapAgain == WaitForChild("reap_again", "probe")

KillChild ==
  /\ epc = "reap_kill"
  /\ \/ killed' = TRUE /\ epc' = "reap_again"
     \/ UNCHANGED killed /\ epc' = "probe"
  /\ UNCHANGED <<group, reaped, polls, apc, termSent, recorded, finalized, others>>

(* Mutant: nothing survives SIGKILL, so there is no need to ask. *)
ProbeTrusting ==
  /\ epc = "probe"
  /\ group' = "GONE"
  /\ epc' = "done"
  /\ UNCHANGED <<reaped, polls, attempt, others>>

Probe ==
  /\ epc = "probe"
  /\ group' \in Answers
  /\ epc' = "done"
  /\ UNCHANGED <<reaped, polls, attempt, others>>

(* _TeardownResult.cleanup_safe: the worktree may be removed. *)
CleanupSafe == epc = "done" /\ group = "GONE" /\ reaped

(***************************************************************************)
(* attempt; nothing of it runs once it was killed.                         *)
(***************************************************************************)
At(label) == apc = label /\ ~killed

(* Until main has installed its handlers SIGTERM simply ends it. *)
Boot ==
  /\ At("booting")
  /\ apc' = "preparing"
  /\ UNCHANGED <<deliver, termSent, recorded, killed, finalized, others>>

Prepare ==
  /\ At("preparing")
  /\ apc' \in {"spawning", "leaving"}
  /\ UNCHANGED <<deliver, termSent, recorded, killed, finalized, others>>

SpawnPi ==
  /\ At("spawning")
  /\ \/ apc' = "spawned" /\ pi' = "running"
     \/ apc' = "leaving" /\ UNCHANGED pi
  /\ UNCHANGED <<deliver, termSent, recorded, killed, finalized, helper, told, tool>>

(* Mutant: a signal that came before the child is forgotten. *)
WatchPiOnly ==
  /\ At("spawned")
  /\ apc' = "watching"
  /\ UNCHANGED <<deliver, termSent, recorded, killed, finalized, others>>

(* self._process is set and a signal that came earlier is forwarded now. *)
WatchPi ==
  /\ At("spawned")
  /\ apc' = "watching"
  /\ told' = (told \/ (recorded /\ pi = "running"))
  /\ UNCHANGED <<deliver, termSent, recorded, killed, finalized, helper, pi, tool>>

PiEnded ==
  /\ At("watching") /\ pi = "gone"
  /\ apc' = "joining"
  /\ UNCHANGED <<deliver, termSent, recorded, killed, finalized, others>>

(* reader.join: the pump ends with the end of Pi's output. *)
PumpEnded ==
  /\ At("joining") /\ tool # "alive"
  /\ apc' = "publishing"
  /\ UNCHANGED <<deliver, termSent, recorded, killed, finalized, others>>

Publish ==
  /\ At("publishing")
  /\ apc' = "leaving"
  /\ finalized' = TRUE
  /\ UNCHANGED <<deliver, termSent, recorded, killed, others>>

Leave ==
  /\ At("leaving")
  /\ apc' = "zombie"
  /\ UNCHANGED <<deliver, termSent, recorded, killed, finalized, others>>

(* Mutant: the handler unwinds the run it interrupts. *)
HandleTermUnwinds ==
  /\ termSent /\ apc \in Alive /\ ~killed
  /\ termSent' = FALSE
  /\ apc' = IF apc = "booting" THEN "zombie" ELSE "leaving"
  /\ recorded' = TRUE
  /\ told' = (told \/ (apc = "watching" /\ pi = "running"))
  /\ UNCHANGED <<deliver, killed, finalized, helper, pi, tool>>

(* request_termination: remember the signal, and forward it when there is  *)
(* a child that has not exited.  It returns to the statement interrupted.  *)
HandleTerm ==
  /\ termSent /\ apc \in Alive /\ ~killed
  /\ termSent' = FALSE
  /\ IF apc = "booting"
     THEN apc' = "zombie" /\ UNCHANGED <<recorded, told>>
     ELSE /\ recorded' = TRUE
          /\ told' = (told \/ (apc = "watching" /\ pi = "running"))
          /\ UNCHANGED apc
  /\ UNCHANGED <<deliver, killed, finalized, helper, pi, tool>>

(***************************************************************************)
(* The operating system, Pi and the helper.  None of them owes anything,   *)
(* except that what was sent SIGKILL ends.                                 *)
(***************************************************************************)
Killed ==
  /\ killed /\ apc \in Alive
  /\ apc' = "zombie"
  /\ UNCHANGED <<deliver, termSent, recorded, killed, finalized, others>>

HelperStarts ==
  /\ apc \in Alive \ {"booting"} /\ ~killed /\ helper = "none"
  /\ helper' = "alive"
  /\ UNCHANGED <<deliver, attempt, pi, told, tool>>

HelperEnds ==
  /\ helper = "alive"
  /\ helper' = "gone"
  /\ UNCHANGED <<deliver, attempt, pi, told, tool>>

PiExits ==
  /\ pi = "running"
  /\ pi' = "gone"
  /\ UNCHANGED <<deliver, attempt, helper, told, tool>>

ToolStarts ==
  /\ pi = "running" /\ tool = "none"
  /\ tool' = "alive"
  /\ UNCHANGED <<deliver, attempt, helper, pi, told>>

ToolEnds ==
  /\ tool = "alive"
  /\ tool' = "gone"
  /\ UNCHANGED <<deliver, attempt, helper, pi, told>>

Deliver ==
  \/ Finish \/ SendTerm \/ GraceProbe \/ GraceOver \/ SendKill
  \/ Reap \/ KillChild \/ ReapAgain \/ Probe

Attempt ==
  \/ Boot \/ Prepare \/ SpawnPi \/ WatchPi \/ PiEnded \/ PumpEnded
  \/ Publish \/ Leave

Next ==
  \/ Deliver \/ PollWhileReading
  \/ Attempt \/ HandleTerm
  \/ Killed \/ HelperStarts \/ HelperEnds \/ PiExits \/ ToolStarts \/ ToolEnds

Spec == Init /\ [][Next]_vars

(* Both engine processes run and signals arrive; `deliver` stops waiting   *)
(* in the end, since each of its waits has a timeout.                      *)
FairSpec ==
  /\ Spec
  /\ WF_vars(Deliver) /\ WF_vars(Attempt) /\ WF_vars(HandleTerm) /\ WF_vars(Killed)

(***************************************************************************)
(* Properties.                                                             *)
(***************************************************************************)
(* When a teardown says that cleanup is safe, the attempt was reaped and   *)
(* nothing is left of its group, though killpg may fail, members may       *)
(* outlive SIGKILL for a while and helpers may start in between.           *)
SafeMeansGone == CleanupSafe => GroupEmpty

(* Of the two signals a teardown sends only SIGKILL parts an attempt from  *)
(* its Pi: an attempt that ended without it, at whatever moment a SIGTERM  *)
(* reached it, started no Pi, or outlived it and its output and published  *)
(* what it left.  (No other signal, and no thread that cannot be started.) *)
NoPiLeftBehind ==
  apc \in {"zombie", "reaped"} /\ ~killed =>
    pi = "none" \/ (pi = "gone" /\ tool # "alive" /\ finalized)

(* A termination signal the attempt has seen reaches Pi, also one that     *)
(* came before Pi was started, unless Pi, or the attempt, ended first.     *)
SignalReachesPi == recorded ~> told \/ pi = "gone" \/ apc \notin Alive

(* A teardown ends, whatever ignores SIGTERM or outlives SIGKILL. *)
TeardownEnds == epc = "grace" ~> epc = "done"

(* usage.md: "The Engine forwards a direct POSIX `SIGTERM` [...] to the    *)
(* active Pi child, waits for it to exit, then publishes the partial       *)
(* transcript"; and on the teardown: it "keeps a possibly live command     *)
(* from racing worktree removal".  The five seconds of grace are not Pi's. *)
SafeMeansPiGone == CleanupSafe /\ told => pi # "running"
=============================================================================
