------------------------------ MODULE Attempt ------------------------------
(***************************************************************************)
(* What an attempt leaves behind (attempt, _prepare, _run and _publish in  *)
(* attempt.py): a transcript, created before Pi starts and written while   *)
(* it runs, a patch, published after it, and nothing else.  Module Pump is *)
(* the time in between.  Each step may fail; the caller or anybody else    *)
(* may create the files the attempt was told to write.                     *)
(***************************************************************************)
EXTENDS Pump

CONSTANT Wants   \* the artifacts the caller asked for

Kinds == {"patch", "transcript"}

ASSUME AttemptAssumption == Wants \subseteq Kinds

VARIABLES
  phase,
  files,       \* what the two paths name: "absent", "foreign", "ours"
  temporary,   \* the unpublished patch: "absent", "partial", "whole"
  directory,   \* whether .satyrn-attempt-* is there
  pins,        \* the open parents of artifacts
  synced,      \* whether the transcript was told to reach the disk
  changed,     \* whether git diff found a change
  named,       \* the leftovers the message of the result names
  result       \* "none", "OK", "OK_FORWARD_LOST", "FAILED"

fileVars == <<files, temporary, directory, pins>>
attemptVars == <<phase, fileVars, synced, changed, named, result>>
vars == <<pumpVars, attemptVars>>

Leftovers == {"directory", "temporary"}
Phases    == {"check", "prepare", "pin", "directory", "freeze", "start", "pi", "sync", "close",
              "diff", "create", "write", "link", "unlink", "judge", "tidy", "unpin", "over"}

TypeOK ==
  /\ PumpTypeOK
  /\ phase \in Phases
  /\ files \in [Kinds -> {"absent", "foreign", "ours"}]
  /\ temporary \in {"absent", "partial", "whole"}
  /\ directory \in BOOLEAN
  /\ pins \subseteq Wants
  /\ synced \in BOOLEAN /\ changed \in BOOLEAN
  /\ named \subseteq Leftovers
  /\ result \in {"none", "OK", "OK_FORWARD_LOST", "FAILED"}

Init ==
  /\ PumpInit
  /\ phase = "check"
  /\ files \in [Kinds -> {"absent", "foreign"}]   \* as the caller left them
  /\ temporary = "absent" /\ directory = FALSE /\ pins = {}
  /\ synced = FALSE /\ changed = FALSE /\ named = {} /\ result = "none"

(* The main thread at one of its steps. *)
At(here) == phase = here /\ UNCHANGED pumpVars

Moves(there) == phase' = there /\ UNCHANGED <<synced, changed, named, result>>

(* A step that fails leads to the finally of attempt(). *)
Fails ==
  /\ result' = "FAILED"
  /\ phase' = IF directory THEN "tidy" ELSE "unpin"
  /\ UNCHANGED <<synced, changed>>

FailsCleanly == Fails /\ UNCHANGED <<fileVars, named>>

(***************************************************************************)
(* Before Pi.                                                              *)
(***************************************************************************)
(* check(): the contract loads and the repository is one. *)
Check ==
  /\ At("check")
  /\ UNCHANGED fileVars
  /\ \/ Moves("prepare")
     \/ phase' = "over" /\ result' = "FAILED" /\ UNCHANGED <<synced, changed, named>>

(* Git's answers, a clean worktree, the tracked writable files, the engine *)
(* package, and that no artifact exists yet.                               *)
Prepare ==
  /\ At("prepare")
  /\ \/ /\ \A kind \in Wants : files[kind] = "absent"
        /\ Moves("pin") /\ UNCHANGED fileVars
     \/ FailsCleanly

(* Mutant: the transcript is opened, not created. *)
PinDestinationsOver ==
  /\ At("pin")
  /\ \/ /\ "patch" \in Wants => files["patch"] = "absent"
        /\ pins' = Wants
        /\ files' = IF "transcript" \in Wants THEN [files EXCEPT !["transcript"] = "ours"] ELSE files
        /\ Moves("directory") /\ UNCHANGED <<temporary, directory>>
     \/ FailsCleanly

(* The parents are pinned, the patch is still absent, the transcript is    *)
(* created, unless somebody else was faster.                               *)
PinDestinations ==
  /\ At("pin")
  /\ \/ /\ \A kind \in Wants : files[kind] = "absent"
        /\ pins' = Wants
        /\ files' = IF "transcript" \in Wants THEN [files EXCEPT !["transcript"] = "ours"] ELSE files
        /\ Moves("directory") /\ UNCHANGED <<temporary, directory>>
     \/ FailsCleanly

MakeDirectory ==
  /\ At("directory")
  /\ \/ directory' = TRUE /\ Moves("freeze") /\ UNCHANGED <<files, temporary, pins>>
     \/ FailsCleanly

(* The contract is copied, and is still the one that was checked. *)
Freeze ==
  /\ At("freeze")
  /\ \/ Moves("start") /\ UNCHANGED fileVars
     \/ FailsCleanly

(* The transcript is opened, or a spool for it, and Pi started. *)
Start ==
  /\ At("start")
  /\ \/ Moves("pi") /\ UNCHANGED fileVars
     \/ FailsCleanly

(***************************************************************************)
(* While Pi runs, and what its end means.                                  *)
(***************************************************************************)
Piped(step) == phase = "pi" /\ main \notin Returns /\ step /\ UNCHANGED attemptVars

(* A lost transcript ends the attempt; a lost forward does not. *)
PiReturns ==
  /\ At("pi") /\ main \in Returns
  /\ \/ main = "exit" /\ Moves("sync") /\ UNCHANGED fileVars
     \/ main = "forward" /\ Moves("close") /\ UNCHANGED fileVars
     \/ main = "transcript" /\ FailsCleanly

Sync ==
  /\ At("sync")
  /\ \/ synced' = TRUE /\ phase' = "close" /\ UNCHANGED <<fileVars, changed, named, result>>
     \/ FailsCleanly

(* After a lost forward a failing close is only a note to that error, *)
(* which _run has caught. *)
Close ==
  /\ At("close")
  /\ \/ Moves("diff") /\ UNCHANGED fileVars
     \/ main = "exit" /\ FailsCleanly

(***************************************************************************)
(* The patch: written beside its path, linked to it, unlinked.             *)
(***************************************************************************)
(* Mutant: a large diff is not published. *)
DiffSometimes ==
  /\ At("diff")
  /\ \/ /\ changed' \in BOOLEAN
        /\ phase' \in IF changed' /\ "patch" \in Wants THEN {"create", "judge"} ELSE {"judge"}
        /\ UNCHANGED <<fileVars, synced, named, result>>
     \/ FailsCleanly

Diff ==
  /\ At("diff")
  /\ \/ /\ changed' \in BOOLEAN
        /\ phase' = IF changed' /\ "patch" \in Wants THEN "create" ELSE "judge"
        /\ UNCHANGED <<fileVars, synced, named, result>>
     \/ FailsCleanly

CreateTemporary ==
  /\ At("create")
  /\ \/ temporary' = "partial" /\ Moves("write") /\ UNCHANGED <<files, directory, pins>>
     \/ FailsCleanly

WriteTemporary ==
  /\ At("write")
  /\ \/ temporary' = "whole" /\ Moves("link") /\ UNCHANGED <<files, directory, pins>>
     \/ Moves("unlink") /\ UNCHANGED fileVars

(* A link never replaces what is there. *)
Link ==
  /\ At("link") /\ Moves("unlink")
  /\ \/ /\ files["patch"] = "absent"
        /\ files' = [files EXCEPT !["patch"] = "ours"]
        /\ UNCHANGED <<temporary, directory, pins>>
     \/ UNCHANGED fileVars

(* Mutant: when the publication failed, a second failure is dropped. *)
UnlinkQuiet ==
  /\ At("unlink") /\ UNCHANGED <<files, directory, pins>>
  /\ \/ /\ temporary' = "absent"
        /\ IF files["patch"] = "ours" THEN Moves("judge") ELSE Fails /\ UNCHANGED named
     \/ /\ UNCHANGED temporary
        /\ Fails
        /\ named' = IF files["patch"] = "ours" THEN named \cup {"temporary"} ELSE named

(* The temporary goes, whether it was published or not; when it stays the  *)
(* attempt has failed, its patch published all the same.                   *)
Unlink ==
  /\ At("unlink") /\ UNCHANGED <<files, directory, pins>>
  /\ \/ /\ temporary' = "absent"
        /\ IF files["patch"] = "ours" THEN Moves("judge") ELSE Fails /\ UNCHANGED named
     \/ /\ UNCHANGED temporary
        /\ Fails
        /\ named' = named \cup {"temporary"}

(***************************************************************************)
(* The verdict, and the finally of attempt().                              *)
(***************************************************************************)
Judge ==
  /\ At("judge") /\ UNCHANGED <<fileVars, synced, changed, named>>
  /\ result' \in {"FAILED", IF main = "forward" THEN "OK_FORWARD_LOST" ELSE "OK"}   \* by Pi's exit
  /\ phase' = "tidy"

Tidy ==
  /\ At("tidy") /\ phase' = "unpin"
  /\ UNCHANGED <<files, temporary, pins, synced, changed>>
  /\ \/ directory' = FALSE /\ UNCHANGED <<named, result>>
     \/ UNCHANGED directory /\ named' = named \cup {"directory"} /\ result' = "FAILED"

(* A descriptor is given up even when closing it fails. *)
Unpin ==
  /\ At("unpin") /\ phase' = "over"
  /\ pins' = {}
  /\ UNCHANGED <<files, temporary, directory, synced, changed, named>>
  /\ result' = result \/ (pins # {} /\ result' = "FAILED")

(***************************************************************************)
(* Others.                                                                 *)
(***************************************************************************)
(* It makes a difference only before the attempt looks, and before it links. *)
ForeignCreates(kind) ==
  /\ phase \in {"pin", "link"} /\ files[kind] = "absent"
  /\ files' = [files EXCEPT ![kind] = "foreign"]
  /\ UNCHANGED <<pumpVars, phase, temporary, directory, pins, synced, changed, named, result>>

Steps == Check \/ Prepare \/ PinDestinations \/ MakeDirectory \/ Freeze \/ Start
           \/ PiReturns \/ Sync \/ Close \/ Diff \/ CreateTemporary \/ WriteTemporary \/ Link \/ Unlink
           \/ Judge \/ Tidy \/ Unpin

Next ==
  \/ Piped(PumpNext)
  \/ Steps
  \/ \E kind \in Kinds : ForeignCreates(kind)

(* Pi works on unless a full pipe stops it, deliver reads on, whatever     *)
(* holds Pi's stdout ends, and threads run; a thread that waits for the    *)
(* lock gets it some time.                                                 *)
Fairness ==
  /\ WF_vars(Piped(WriteLine)) /\ WF_vars(Piped(Speak))
  /\ WF_vars(Piped(PiEnds /\ written = Lines /\ unsaid = 0))
  /\ WF_vars(Piped(Resume))
  /\ WF_vars(Piped(PumpTakes(FALSE))) /\ SF_vars(Piped(ForwardBegins \/ ForwardFails))
  /\ WF_vars(Piped(ForwardEnds)) /\ WF_vars(Piped(PumpEnds))
  /\ WF_vars(Piped(DrainTakes)) /\ SF_vars(Piped(RelayBegins \/ RelayFails))
  /\ WF_vars(Piped(RelayEnds))
  /\ WF_vars(Piped(Joins)) /\ WF_vars(Piped(RunReturns))
  /\ WF_vars(Steps)

Spec == Init /\ [][Next]_vars /\ Fairness

(***************************************************************************)
(* Properties.                                                             *)
(***************************************************************************)
Line(n, part) == [from |-> "pi", line |-> n, part |-> part]

(* attempt.py: relayed writes "can never land in the middle of this one".  *)
(* The head and the rest of a forwarded line stand together on the wire,   *)
(* in the order of the lines, unless the wire failed in between.           *)
LinesStayTogether ==
  \A i \in 1..Len(wire) : wire[i].from = "pi" =>
    LET n == wire[i].line IN
    IF wire[i].part = "head"
    THEN i < Len(wire) => wire[i + 1] = Line(n, "rest")
                          \/ ("forward" \in lost /\ \A j \in (i + 1)..Len(wire) : wire[j].from = "stderr")
    ELSE i > 1 /\ wire[i - 1] = Line(n, "head")

(* A forwarded line is spoilt for deliver when it starts behind a piece of *)
(* stderr that had no end.                                                 *)
Spoilt == {n \in 1..Lines : \E i \in 2..Len(wire) :
             wire[i] = Line(n, "head") /\ wire[i - 1].from = "stderr" /\ wire[i - 1].part # "rest"}

(* Whatever Pi says on stderr and however deliver reads, at most one line  *)
(* of a run is spoilt, and only when stderr broke off or ended unfinished. *)
OneLineSpoiltAtMost ==
  /\ \A m, n \in Spoilt : m = n
  /\ Spoilt # {} => mute \/ piece = "tail"

(* run() returns Pi's exit only when every line Pi wrote is in both sinks, *)
(* and judges a lost forward by Pi's exit only when the transcript is      *)
(* complete.                                                               *)
ReturnIsHonest ==
  /\ main \in {"exit", "forward"} => transcript = written
  /\ main = "exit" => \A n \in 1..written : \E i \in 1..Len(wire) : wire[i] = Line(n, "rest")
  /\ main \in Returns => pi # "running"

(* usage.md: an attempt ends "after preserving any requested artifacts":   *)
(* when Pi is judged, by whatever exit, they are all there.                *)
ArtifactsPrecedeVerdict ==
  /\ phase = "judge" \/ result \in {"OK", "OK_FORWARD_LOST"} =>
       /\ changed /\ "patch" \in Wants => files["patch"] = "ours"
       /\ "transcript" \in Wants => files["transcript"] = "ours" /\ transcript = written
       /\ temporary = "absent"
       /\ main = "exit" => synced
  /\ result \in {"OK", "OK_FORWARD_LOST"} /\ phase = "over" => ~directory

(* What an attempt that ends leaves beside its artifacts, its message      *)
(* names.                                                                  *)
LeftoversAreNamed ==
  phase = "over" =>
    /\ directory => "directory" \in named
    /\ temporary # "absent" => "temporary" \in named
    /\ pins = {}

(* A path is taken only from nobody, and the patch appears in one piece.   *)
TakesOnlyFreePaths ==
  [][\A kind \in Kinds : files'[kind] # files[kind] =>
       /\ files[kind] = "absent"
       /\ kind = "patch" /\ files'[kind] = "ours" => temporary = "whole"]_vars

(* An attempt ends, whichever sink fails and whatever Pi's stderr does. *)
AttemptEnds == <>(phase = "over")
=============================================================================
