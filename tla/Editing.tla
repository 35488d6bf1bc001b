------------------------------- MODULE Editing -------------------------------
(***************************************************************************)
(* Edits of one attempt: the model's tool calls go through the loop        *)
(* breaker; an `edit` is an exchange of the adapter's mutator (mutator.ts) *)
(* with a Python process that checks the captured revision, applies the    *)
(* replacements in memory and renames the result over the file             *)
(* (mutation.py); Pi's `write` goes to the file directly; shell commands   *)
(* and what they leave running write whenever they like.                   *)
(*                                                                         *)
(* Pi is taken to run one tool call at a time, its listeners included, and *)
(* an exchange that failed to be over (module Adapter: RefusedMeansOver).  *)
(* A replacement is a pair of contents: it applies to a file that holds    *)
(* the first one, and makes it the second.                                 *)
(***************************************************************************)
EXTENDS LoopBreaker

CONSTANTS Writable, \* the paths the contract lets an attempt write
          Edits     \* the sequences of replacements a call may carry

ASSUME EditsAssumption ==
  /\ Writable \subseteq Paths
  /\ Edits \subseteq Seq(Contents \X Contents) \ {<<>>}

VARIABLES
  file,      \* what each path holds
  revisions, \* the mutator's map: the revision it sends with an edit
  poisoned,  \* the mutation context is poisoned
  exchange,  \* the exchange in flight
  (* history *)
  base,      \* what each path held at first
  foreign    \* the paths a shell command wrote since the Engine last did

vars == <<breaker, file, revisions, poisoned, exchange, base, foreign>>

Held == Contents \cup {Nothing}
Idle == [stage |-> "none", path |-> Nothing, edits |-> <<>>, expected |-> Nothing,
         before |-> Nothing, ok |-> FALSE, raced |-> FALSE]

Exchanges ==
  [stage : {"none", "sent", "prepared", "answered"}, path : Writable \cup {Nothing},
   edits : Edits \cup {<<>>}, expected : Held, before : Held,
   ok : BOOLEAN, raced : BOOLEAN]

Calls ==
       [tool : {"read"}, path : Paths, input : {Nothing}]
  \cup [tool : {"bash"}, path : {Nothing}, input : {Nothing}]
  \cup [tool : {"edit"}, path : Writable, input : Edits]
  \cup [tool : {"write"}, path : Writable, input : Contents]

TypeOK ==
  /\ Len(admitted) <= WINDOW /\ \A i \in DOMAIN admitted : admitted[i][1] \in Calls
  /\ consecutiveBlocks \in 0..CONSECUTIVE_BLOCK_LIMIT
  /\ streak.length \in Nat
  /\ known \in [Paths -> Held] /\ base \in [Paths -> Held]
  /\ file \in [Paths -> Held] /\ revisions \in [Paths -> Held]
  /\ poisoned \in BOOLEAN /\ foreign \subseteq Paths
  /\ exchange \in Exchanges

(* The revisions of the writable files are captured before Pi starts. *)
Init ==
  /\ BreakerInit
  /\ file \in [Paths -> Held] /\ base = file
  /\ revisions = [p \in Paths |-> IF p \in Writable THEN file[p] ELSE Nothing]
  /\ poisoned = FALSE /\ exchange = Idle /\ foreign = {}

-----------------------------------------------------------------------------
(* The pure part of a replacement (_apply_replacement, folded over the     *)
(* sequence by replace_many): Nothing stands for a refusal, which no later *)
(* replacement mends.                                                      *)
Replaced(content, edit) ==
  IF edit[1] # edit[2] /\ content = edit[1] THEN edit[2] ELSE Nothing

After(content, edits) ==
  LET made[i \in 0..Len(edits)] == IF i = 0 THEN content ELSE Replaced(made[i - 1], edits[i])
  IN  made[Len(edits)]

-----------------------------------------------------------------------------
(* The model's calls.                                                      *)

(* A call that changes nothing: a read, or one another guard refuses, such *)
(* as an edit outside the writable paths.                                  *)
ReadFile(p) ==
  LET call == [tool |-> "read", path |-> p, input |-> Nothing] IN
  /\ exchange = Idle
  /\ Refuse(call) \/ (Admit(call) /\ UNCHANGED known)
  /\ UNCHANGED <<file, revisions, poisoned, exchange, base, foreign>>

(* What a command writes is the action ForeignWrite. *)
RunCommand ==
  LET call == [tool |-> "bash", path |-> Nothing, input |-> Nothing] IN
  /\ exchange = Idle
  /\ Refuse(call) \/ (Admit(call) /\ UNCHANGED known)
  /\ UNCHANGED <<file, revisions, poisoned, exchange, base, foreign>>

(* The mutator sends the revision it holds; a poisoned context, the symbol *)
(* check and the scope guard refuse without an exchange.                   *)
Execute(p, edits) ==
  \/ UNCHANGED exchange
  \/ /\ ~poisoned
     /\ exchange' = [Idle EXCEPT !.stage = "sent", !.path = p, !.edits = edits,
                                 !.expected = revisions[p]]

Edit(p, edits) ==
  LET call == [tool |-> "edit", path |-> p, input |-> edits] IN
  /\ exchange = Idle
  /\ \/ Refuse(call) /\ UNCHANGED exchange
     \/ Admit(call) /\ UNCHANGED known /\ Execute(p, edits)
  /\ UNCHANGED <<file, revisions, poisoned, base, foreign>>

(* Mutant: the mutator is not told of writes. *)
NoteWriteNothing(p, content) == UNCHANGED revisions
NoteWrite(p, content) == revisions' = [revisions EXCEPT ![p] = content]

(* Pi's own write tool: it lands and both listeners note it, or a guard or *)
(* an error keeps it from landing.                                         *)
Write(p, content) ==
  LET call == [tool |-> "write", path |-> p, input |-> content] IN
  /\ exchange = Idle
  /\ \/ /\ Refuse(call) \/ (Admit(call) /\ UNCHANGED known)
        /\ UNCHANGED <<file, revisions, foreign>>
     \/ /\ Admit(call)
        /\ file' = [file EXCEPT ![p] = content]
        /\ NoteWrite(p, content) /\ NoteChange(p, content)
        /\ foreign' = foreign \ {p}
  /\ UNCHANGED <<poisoned, exchange, base>>

-----------------------------------------------------------------------------
(* The Python side of an exchange.                                         *)

(* Mutant: the revision is not compared. *)
PreparableAnyhow == file[exchange.path] # Nothing /\ exchange.expected # Nothing
(* _prepare_target: the file is there, its revision was captured and is    *)
(* still the same.                                                         *)
Preparable ==
  /\ file[exchange.path] # Nothing
  /\ exchange.expected # Nothing
  /\ file[exchange.path] = exchange.expected

Prepare ==
  /\ exchange.stage = "sent"
  /\ LET path == exchange.path IN
     IF Preparable /\ After(file[path], exchange.edits) \in Contents
     THEN exchange' = [exchange EXCEPT !.stage = "prepared", !.before = file[path]]
     ELSE exchange' = [exchange EXCEPT !.stage = "answered"]
  /\ UNCHANGED <<breaker, file, revisions, poisoned, base, foreign>>

(* _atomic_replace: one rename, or an error that leaves the file alone. *)
Publish ==
  LET path == exchange.path IN
  /\ exchange.stage = "prepared"
  /\ \/ /\ file' = [file EXCEPT ![path] = After(exchange.before, exchange.edits)]
        /\ exchange' = [exchange EXCEPT !.stage = "answered", !.ok = TRUE]
        /\ foreign' = foreign \ {path}
     \/ /\ exchange' = [exchange EXCEPT !.stage = "answered"]
        /\ UNCHANGED <<file, foreign>>
  /\ UNCHANGED <<breaker, revisions, poisoned, base>>

-----------------------------------------------------------------------------
(* The answer.  A success moves the revision of the path in the mutator    *)
(* and in the loop breaker; a refusal moves nothing.                       *)
Answer ==
  LET path  == exchange.path
      after == After(exchange.before, exchange.edits) IN
  /\ exchange.stage = "answered"
  /\ IF exchange.ok
     THEN /\ revisions' = [revisions EXCEPT ![path] = after]
          /\ NoteChange(path, after)
     ELSE UNCHANGED <<revisions, known>>
  /\ exchange' = Idle
  /\ UNCHANGED <<admitted, blockedByKey, consecutiveBlocks, streak,
                 file, poisoned, base, foreign>>

(* Mutant: a lost answer is taken for a refusal. *)
DoubtNothing == UNCHANGED poisoned
Doubt == poisoned' = TRUE

(* The exchange times out, dies or answers nonsense, at any point: whether *)
(* the file was written is not known.                                      *)
LoseAnswer ==
  /\ exchange # Idle
  /\ Doubt
  /\ exchange' = Idle
  /\ UNCHANGED <<breaker, file, revisions, base, foreign>>

(* A shell command, or a process one left running, writes or removes a     *)
(* file.  Of the paths the model cannot write no guard looks at the        *)
(* content.                                                                *)
ForeignWrite(p, held) ==
  /\ held # file[p]
  /\ file' = [file EXCEPT ![p] = held]
  /\ foreign' = foreign \cup {p}
  /\ exchange' = IF exchange.stage = "prepared" /\ exchange.path = p
                 THEN [exchange EXCEPT !.raced = TRUE] ELSE exchange
  /\ UNCHANGED <<breaker, revisions, poisoned, base>>

Next ==
  \/ RunCommand
  \/ \E p \in Paths : ReadFile(p)
  \/ \E p \in Writable :
       \/ \E edits \in Edits : Edit(p, edits)
       \/ \E content \in Contents : Write(p, content)
       \/ \E held \in Held : ForeignWrite(p, held)
  \/ Prepare \/ Publish \/ Answer \/ LoseAnswer

Spec == Init /\ [][Next]_vars

-----------------------------------------------------------------------------
(* The mutator's revision of a path is what the path holds, until someone  *)
(* else writes it or an answer was lost: refused edits, refused writes and *)
(* edits that half apply leave the two together.                           *)
RevisionIsTrue ==
  exchange = Idle /\ ~poisoned =>
    \A p \in Writable \ foreign : revisions[p] = file[p]

(* The loop breaker tells the model that running a refused call again      *)
(* "will not change the result".  It goes by its own revisions, which      *)
(* therefore have to name what the path holds: the first content as long   *)
(* as the path is unedited, then the one that landed last.                 *)
RefusalsAreHonest ==
  exchange = Idle /\ ~poisoned =>
    \A p \in Paths \ foreign :
      file[p] = IF known[p] = Nothing THEN base[p] ELSE known[p]

(* usage.md: the exchange "checks the exact-byte SHA-256 revision": an edit only     *)
(* replaces content the mutator knows, unless another process wrote the    *)
(* file between the check and the rename.                                  *)
NoBlindOverwrite ==
  [][\A p \in Paths :
       exchange.stage = "prepared" /\ exchange.path = p /\ file'[p] # file[p]
         /\ foreign' \subseteq foreign
       => exchange.raced \/ file[p] = revisions[p]]_vars

-----------------------------------------------------------------------------
(* What makes these properties inductive: an exchange in flight works from *)
(* the revision the mutator holds, and between the rename and the answer   *)
(* both maps are one content behind the file.                              *)
Renamed(p) == exchange.stage = "answered" /\ exchange.ok /\ exchange.path = p

ExchangeFits ==
  /\ exchange.stage = "none" => exchange = Idle
  /\ exchange.stage # "none" =>
       ~poisoned /\ exchange.path \in Writable /\ exchange.edits \in Edits
       /\ exchange.expected = revisions[exchange.path]
  /\ exchange.stage = "sent" => ~exchange.ok
  /\ exchange.stage = "prepared" =>
       /\ ~exchange.ok /\ exchange.before = exchange.expected
       /\ After(exchange.before, exchange.edits) \in Contents
       /\ exchange.raced \/ file[exchange.path] = exchange.before
  /\ exchange.ok =>
       /\ After(exchange.before, exchange.edits) \in Contents
       /\ exchange.path \in foreign
            \/ file[exchange.path] = After(exchange.before, exchange.edits)

MapsFit ==
  ~poisoned =>
    \A p \in Paths \ foreign :
      ~Renamed(p) =>
        /\ p \in Writable => revisions[p] = file[p]
        /\ file[p] = IF known[p] = Nothing THEN base[p] ELSE known[p]

DataTypes ==
  /\ known \in [Paths -> Held] /\ base \in [Paths -> Held]
  /\ file \in [Paths -> Held] /\ revisions \in [Paths -> Held]
  /\ poisoned \in BOOLEAN /\ foreign \subseteq Paths
  /\ exchange \in Exchanges

IInv == DataTypes /\ ExchangeFits /\ MapsFit
=============================================================================
