----------------------------- MODULE LoopBreaker -----------------------------
(***************************************************************************)
(* The repeated-call guard of packages/engine/engine.ts.  A tool call has  *)
(* a key: the call itself and the revision of what it can depend on, which *)
(* is that of its path, or the whole revision map for a call without one.  *)
(* A key that is THRESHOLD times among the last WINDOW admitted calls is   *)
(* refused, and CONSECUTIVE_BLOCK_LIMIT refusals in a row end the turn.    *)
(*                                                                         *)
(* Inspect(call) and NoteChange(p, c) are the two operations; the calls    *)
(* themselves come from the module that extends this one.  Digests of      *)
(* contents are the contents.                                              *)
(***************************************************************************)
EXTENDS Integers, SequencesExt

CONSTANTS Paths, Contents,
          Nothing,     \* no file, no path, null, "unedited"
          WINDOW, THRESHOLD, CONSECUTIVE_BLOCK_LIMIT

ASSUME BreakerAssumption ==
  /\ WINDOW \in Nat /\ THRESHOLD \in 1..WINDOW
  /\ CONSECUTIVE_BLOCK_LIMIT \in Nat \ {0}
  /\ Nothing \notin Contents \cup Paths

VARIABLES
  admitted,          \* the keys of the last admitted calls, oldest first
  blockedByKey,      \* the keys refusals are counted for (the counts are only logged)
  known,             \* `revisions`: what the guard knows each path to hold
  consecutiveBlocks, \* refusals in a row, as far as they are compared
  streak             \* history: how often the last key came in a row in this turn

breaker == <<admitted, blockedByKey, known, consecutiveBlocks, streak>>

BreakerInit ==
  /\ admitted = <<>> /\ blockedByKey = {}
  /\ known = [p \in Paths |-> Nothing]
  /\ consecutiveBlocks = 0
  /\ streak = [key |-> <<>>, length |-> 0]

WorkspacePart(call) == IF call.path = Nothing THEN known ELSE known[call.path]
CallKey(call) == <<call, WorkspacePart(call)>>

Repeats(key) == Cardinality({i \in DOMAIN admitted : admitted[i] = key})

(* Mutant: a sixth call passes when five are in the window. *)
TooManyLate(call) == Repeats(CallKey(call)) > THRESHOLD
TooMany(call) == Repeats(CallKey(call)) >= THRESHOLD

Extend(key, ends) ==
  streak' = [key    |-> key,
             length |-> IF ends THEN 0
                        ELSE IF streak.key = key THEN streak.length + 1 ELSE 1]

(* The oldest call leaves; its count goes with its last copy. *)
Evict(keys) ==
  /\ admitted' = Tail(keys)
  /\ blockedByKey' = IF Contains(Tail(keys), Head(keys))
                     THEN blockedByKey ELSE blockedByKey \ {Head(keys)}

Admit(call) ==
  LET keys == Append(admitted, CallKey(call)) IN
  /\ ~TooMany(call)
  /\ IF Len(keys) > WINDOW THEN Evict(keys)
     ELSE admitted' = keys /\ UNCHANGED blockedByKey
  /\ consecutiveBlocks' = 0
  /\ Extend(CallKey(call), FALSE)

(* Mutant: the limit is compared before the refusal is counted. *)
RefuseLate(call) ==
  /\ TooMany(call)
  /\ blockedByKey' = blockedByKey \cup {CallKey(call)}
  /\ consecutiveBlocks' =
       IF consecutiveBlocks < CONSECUTIVE_BLOCK_LIMIT THEN consecutiveBlocks + 1
       ELSE consecutiveBlocks
  /\ Extend(CallKey(call), consecutiveBlocks >= CONSECUTIVE_BLOCK_LIMIT)
  /\ UNCHANGED <<admitted, known>>

(* A refused call is not remembered, so that it stays refused. *)
Refuse(call) ==
  /\ TooMany(call)
  /\ blockedByKey' = blockedByKey \cup {CallKey(call)}
  /\ consecutiveBlocks' =
       IF consecutiveBlocks < CONSECUTIVE_BLOCK_LIMIT THEN consecutiveBlocks + 1
       ELSE consecutiveBlocks
  /\ Extend(CallKey(call), consecutiveBlocks' = CONSECUTIVE_BLOCK_LIMIT)
  /\ UNCHANGED <<admitted, known>>

(* Mutant: a change is not learned. *)
NoteNothing(p, content) == UNCHANGED known
(* A landed change moves the keys of the path; nothing is forgotten. *)
NoteChange(p, content) == known' = [known EXCEPT ![p] = content]

-----------------------------------------------------------------------------
(* usage.md: "When five calls in that window have the same tool name and   *)
(* structurally identical JSON input, the sixth is refused": no key is     *)
(* more than THRESHOLD times in the window, whatever was evicted or edited *)
(* in between.                                                             *)
WindowHolds == \A i \in DOMAIN admitted : Repeats(admitted[i]) <= THRESHOLD

(* A model that only repeats one call is sent out of the turn after        *)
(* THRESHOLD admitted and CONSECUTIVE_BLOCK_LIMIT refused ones, whatever   *)
(* it did before.                                                          *)
RepeatsEndTheTurn == streak.length < THRESHOLD + CONSECUTIVE_BLOCK_LIMIT
=============================================================================
