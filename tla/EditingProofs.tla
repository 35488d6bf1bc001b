---------------------------- MODULE EditingProofs ----------------------------
(***************************************************************************)
(* Proofs about Editing, for any paths, contents, replacements, window and *)
(* limits: what the revisions are worth, what a sequence of replacements   *)
(* makes of a file, and how far the loop breaker lets a call repeat.       *)
(***************************************************************************)
EXTENDS Editing, Recursion, FiniteSetTheorems, SequenceTheorems

(* Nothing is no content and no path, and a fresh exchange is one.         *)
LEMMA Basics == Nothing \notin Contents /\ Contents \subseteq Held /\ Nothing \in Held
BY BreakerAssumption DEF Held

LEMMA IdleTypes == Idle \in Exchanges /\ Idle.stage = "none" /\ ~Idle.ok
BY Basics DEF Idle, Exchanges

(* Attempts start with the revisions of the writable files.                *)
LEMMA InitHolds == Init => IInv
<1> SUFFICES ASSUME Init PROVE IInv
  OBVIOUS
<1>1. revisions \in [Paths -> Held]
  BY Basics DEF Init
<1>2. known \in [Paths -> Held] /\ known = [p \in Paths |-> Nothing]
  BY Basics DEF Init, BreakerInit
<1>3. DataTypes
  BY <1>1, <1>2, IdleTypes DEF Init, DataTypes
<1>4. ExchangeFits
  BY IdleTypes DEF Init, ExchangeFits
<1>5. MapsFit
  BY <1>2 DEF Init, MapsFit
<1> QED BY <1>3, <1>4, <1>5 DEF IInv

(* What the guard does to a call is nothing to the files and the maps.     *)
LEMMA QuietStep ==
  ASSUME IInv, UNCHANGED <<known, file, revisions, poisoned, exchange, base, foreign>>
  PROVE  IInv'
BY DEF IInv, DataTypes, ExchangeFits, MapsFit, Renamed

(* An edit that goes out takes the revision along.                         *)
LEMMA EditStep ==
  ASSUME IInv, NEW p \in Writable, NEW edits \in Edits, Edit(p, edits)
  PROVE  IInv'
<1>1. UNCHANGED <<known, file, revisions, poisoned, base, foreign>> /\ exchange = Idle
  BY DEF Edit, Refuse
<1>2. CASE UNCHANGED exchange
  BY <1>1, <1>2, QuietStep
<1>3. CASE ~UNCHANGED exchange
  <2>1. /\ ~poisoned
        /\ exchange' = [Idle EXCEPT !.stage = "sent", !.path = p, !.edits = edits,
                                    !.expected = revisions[p]]
    BY <1>3 DEF Edit, Execute
  <2>2. revisions[p] \in Held
    BY EditsAssumption DEF IInv, DataTypes
  <2>3. /\ exchange' \in Exchanges
        /\ exchange'.stage = "sent" /\ exchange'.path = p /\ ~exchange'.ok
        /\ exchange'.expected = revisions[p] /\ exchange'.edits = edits
    BY <2>1, <2>2, Basics DEF Idle, Exchanges
  <2>4. DataTypes'
    BY <1>1, <2>3 DEF IInv, DataTypes
  <2>5. ExchangeFits'
    BY <1>1, <2>1, <2>3 DEF ExchangeFits
  <2>6. MapsFit'
    BY <1>1, <2>3, IdleTypes DEF IInv, MapsFit, Renamed
  <2> QED BY <2>4, <2>5, <2>6 DEF IInv
<1> QED BY <1>2, <1>3

(* A write that lands is noted in both maps.                               *)
LEMMA WriteStep ==
  ASSUME IInv, NEW p \in Writable, NEW content \in Contents, Write(p, content)
  PROVE  IInv'
<1>1. UNCHANGED <<poisoned, exchange, base>> /\ exchange = Idle
  BY DEF Write
<1>2. CASE UNCHANGED <<known, file, revisions, foreign>>
  BY <1>1, <1>2, QuietStep
<1>3. CASE /\ file' = [file EXCEPT ![p] = content]
           /\ revisions' = [revisions EXCEPT ![p] = content]
           /\ known' = [known EXCEPT ![p] = content]
           /\ foreign' = foreign \ {p}
  <2>1. p \in Paths /\ content \in Held /\ content # Nothing
    BY Basics, EditsAssumption
  <2>2. DataTypes'
    BY <1>1, <1>3, <2>1 DEF IInv, DataTypes
  <2>3. ExchangeFits'
    BY <1>1, <1>3, IdleTypes DEF IInv, ExchangeFits
  <2>4. MapsFit'
    BY <1>1, <1>3, <2>1, IdleTypes DEF IInv, DataTypes, MapsFit, Renamed
  <2> QED BY <2>2, <2>3, <2>4 DEF IInv
<1> QED
  BY <1>2, <1>3 DEF Write, Refuse, NoteWrite, NoteChange

(* The check passes on the revision that was sent, or nothing is prepared. *)
LEMMA PrepareStep == IInv /\ Prepare => IInv'
<1> SUFFICES ASSUME IInv, Prepare PROVE IInv'
  OBVIOUS
<1>1. /\ UNCHANGED <<known, file, revisions, poisoned, base, foreign>>
      /\ exchange \in Exchanges /\ exchange.stage = "sent"
      /\ exchange.path \in Writable /\ exchange.path \in Paths
  BY EditsAssumption DEF Prepare, breaker, IInv, DataTypes, ExchangeFits
<1>2. CASE exchange' = [exchange EXCEPT !.stage = "answered"]
  <2>1. /\ exchange' \in Exchanges /\ exchange'.stage = "answered"
        /\ exchange'.path = exchange.path /\ exchange'.expected = exchange.expected
        /\ exchange'.ok = exchange.ok /\ exchange'.edits = exchange.edits
    BY <1>1, <1>2 DEF Exchanges
  <2>2. ~exchange.ok
    BY <1>1 DEF IInv, ExchangeFits
  <2>3. DataTypes'
    BY <1>1, <2>1 DEF IInv, DataTypes
  <2>4. ExchangeFits'
    BY <1>1, <2>1, <2>2 DEF IInv, ExchangeFits
  <2>5. MapsFit'
    BY <1>1, <2>1, <2>2 DEF IInv, MapsFit, Renamed
  <2> QED BY <2>3, <2>4, <2>5 DEF IInv
<1>3. CASE /\ Preparable
           /\ After(file[exchange.path], exchange.edits) \in Contents
           /\ exchange' = [exchange EXCEPT !.stage = "prepared",
                                           !.before = file[exchange.path]]
  <2>1. file[exchange.path] \in Held /\ file[exchange.path] = exchange.expected
    BY <1>1, <1>3 DEF IInv, DataTypes, Preparable
  <2>2. /\ exchange' \in Exchanges /\ exchange'.stage = "prepared"
        /\ exchange'.path = exchange.path /\ exchange'.expected = exchange.expected
        /\ exchange'.before = file[exchange.path] /\ exchange'.edits = exchange.edits
        /\ exchange'.ok = exchange.ok
    BY <1>1, <1>3, <2>1 DEF Exchanges
  <2>3. DataTypes'
    BY <1>1, <2>2 DEF IInv, DataTypes
  <2>4. ExchangeFits'
    BY <1>1, <1>3, <2>1, <2>2 DEF IInv, ExchangeFits
  <2>5. MapsFit'
    BY <1>1, <2>2 DEF IInv, MapsFit, Renamed
  <2> QED BY <2>3, <2>4, <2>5 DEF IInv
<1> QED BY <1>2, <1>3 DEF Prepare

(* The rename puts the file one content ahead of both maps.                *)
LEMMA PublishStep == IInv /\ Publish => IInv'
<1> SUFFICES ASSUME IInv, Publish PROVE IInv'
  OBVIOUS
<1> DEFINE after == After(exchange.before, exchange.edits)
<1>1. /\ UNCHANGED <<known, revisions, poisoned, base>>
      /\ exchange \in Exchanges /\ exchange.stage = "prepared"
      /\ exchange.path \in Writable /\ exchange.path \in Paths
      /\ after \in Contents /\ after \in Held
  BY EditsAssumption, Basics DEF Publish, breaker, IInv, DataTypes, ExchangeFits
<1>2. CASE exchange' = [exchange EXCEPT !.stage = "answered"] /\ UNCHANGED <<file, foreign>>
  <2>1. /\ exchange' \in Exchanges /\ exchange'.stage = "answered"
        /\ exchange'.path = exchange.path /\ exchange'.expected = exchange.expected
        /\ exchange'.ok = exchange.ok /\ exchange'.edits = exchange.edits
    BY <1>1, <1>2 DEF Exchanges
  <2>2. ~exchange.ok
    BY <1>1 DEF IInv, ExchangeFits
  <2>3. DataTypes'
    BY <1>1, <1>2, <2>1 DEF IInv, DataTypes
  <2>4. ExchangeFits'
    BY <1>1, <2>1, <2>2 DEF IInv, ExchangeFits
  <2>5. MapsFit'
    BY <1>1, <1>2, <2>1, <2>2 DEF IInv, MapsFit, Renamed
  <2> QED BY <2>3, <2>4, <2>5 DEF IInv
<1>3. CASE /\ file' = [file EXCEPT ![exchange.path] = after]
           /\ exchange' = [exchange EXCEPT !.stage = "answered", !.ok = TRUE]
           /\ foreign' = foreign \ {exchange.path}
  <2>1. /\ exchange' \in Exchanges /\ exchange'.stage = "answered" /\ exchange'.ok
        /\ exchange'.path = exchange.path /\ exchange'.expected = exchange.expected
        /\ exchange'.before = exchange.before /\ exchange'.edits = exchange.edits
    BY <1>1, <1>3 DEF Exchanges
  <2>2. DataTypes'
    BY <1>1, <1>3, <2>1 DEF IInv, DataTypes
  <2>3. file'[exchange.path] = after
    BY <1>1, <1>3 DEF IInv, DataTypes
  <2>4. After(exchange.before, exchange.edits)' = after
    BY <2>1
  <2>5. ExchangeFits'
    BY <1>1, <2>1, <2>3, <2>4 DEF IInv, ExchangeFits
  <2>6. MapsFit'
    BY <1>1, <1>3, <2>1 DEF IInv, DataTypes, MapsFit, Renamed
  <2> QED BY <2>2, <2>5, <2>6 DEF IInv
<1> QED BY <1>2, <1>3 DEF Publish

(* The answer brings both maps up to the file again.                       *)
LEMMA AnswerStep == IInv /\ Answer => IInv'
<1> SUFFICES ASSUME IInv, Answer PROVE IInv'
  OBVIOUS
<1> DEFINE after == After(exchange.before, exchange.edits)
<1>1. /\ UNCHANGED <<file, poisoned, base, foreign>>
      /\ exchange' = Idle /\ exchange.stage = "answered"
      /\ exchange.path \in Writable /\ exchange.path \in Paths
  BY EditsAssumption DEF Answer, IInv, ExchangeFits
<1>2. ExchangeFits'
  BY <1>1, IdleTypes DEF ExchangeFits
<1>3. CASE ~exchange.ok
  <2>1. UNCHANGED <<revisions, known>>
    BY <1>3 DEF Answer
  <2>2. DataTypes'
    BY <1>1, <2>1, IdleTypes DEF IInv, DataTypes
  <2>3. MapsFit'
    BY <1>1, <1>3, <2>1 DEF IInv, MapsFit, Renamed
  <2> QED BY <1>2, <2>2, <2>3 DEF IInv
<1>4. CASE exchange.ok
  <2>1. /\ revisions' = [revisions EXCEPT ![exchange.path] = after]
        /\ known' = [known EXCEPT ![exchange.path] = after]
    BY <1>4 DEF Answer, NoteChange
  <2>2. /\ after \in Held /\ after # Nothing
        /\ exchange.path \in foreign \/ file[exchange.path] = after
    BY <1>4, Basics DEF IInv, ExchangeFits
  <2>3. DataTypes'
    BY <1>1, <2>1, <2>2, IdleTypes DEF IInv, DataTypes
  <2>4. MapsFit'
    BY <1>1, <2>1, <2>2 DEF IInv, DataTypes, MapsFit, Renamed
  <2> QED BY <1>2, <2>3, <2>4 DEF IInv
<1> QED BY <1>3, <1>4

(* A lost answer poisons the context.                                      *)
LEMMA LoseAnswerStep == IInv /\ LoseAnswer => IInv'
BY IdleTypes DEF LoseAnswer, Doubt, breaker, IInv, DataTypes, ExchangeFits, MapsFit

(* Whatever others write is foreign from then on.                          *)
LEMMA ForeignStep ==
  ASSUME IInv, NEW p \in Writable, NEW held \in Held, ForeignWrite(p, held)
  PROVE  IInv'
<1>1. /\ UNCHANGED <<known, revisions, poisoned, base>>
      /\ file' = [file EXCEPT ![p] = held] /\ foreign' = foreign \cup {p}
      /\ p \in Paths /\ exchange \in Exchanges
  BY EditsAssumption DEF ForeignWrite, breaker, IInv, DataTypes
<1>2. /\ exchange' \in Exchanges /\ exchange'.stage = exchange.stage
      /\ exchange'.path = exchange.path /\ exchange'.expected = exchange.expected
      /\ exchange'.before = exchange.before /\ exchange'.edits = exchange.edits
      /\ exchange'.ok = exchange.ok
      /\ exchange.stage = "prepared" =>
           exchange'.raced \/ (exchange.path # p /\ exchange'.raced = exchange.raced)
      /\ exchange.stage # "prepared" => exchange' = exchange
  BY <1>1 DEF ForeignWrite, Exchanges
<1>3. DataTypes'
  BY <1>1, <1>2 DEF IInv, DataTypes
<1>4. After(exchange.before, exchange.edits)' = After(exchange.before, exchange.edits)
  BY <1>2
<1>5. ExchangeFits'
  <2>1. exchange.path = p \/ file'[exchange.path] = file[exchange.path]
    BY <1>1 DEF IInv, DataTypes
  <2> QED
    BY <1>1, <1>2, <1>4, <2>1, IdleTypes DEF IInv, ExchangeFits
<1>6. MapsFit'
  BY <1>1, <1>2 DEF IInv, DataTypes, MapsFit, Renamed
<1> QED BY <1>3, <1>5, <1>6 DEF IInv

(* IInv is inductive.                                                      *)
LEMMA StepKeeps == IInv /\ [Next]_vars => IInv'
<1> SUFFICES ASSUME IInv, [Next]_vars PROVE IInv'
  OBVIOUS
<1>1. CASE UNCHANGED vars
  BY <1>1, QuietStep DEF vars, breaker
<1>2. CASE RunCommand \/ \E p \in Paths : ReadFile(p)
  BY <1>2, QuietStep DEF RunCommand, ReadFile, Refuse
<1>3. CASE \E p \in Writable :
             \/ \E edits \in Edits : Edit(p, edits)
             \/ \E content \in Contents : Write(p, content)
             \/ \E held \in Held : ForeignWrite(p, held)
  BY <1>3, EditStep, WriteStep, ForeignStep
<1>4. CASE Prepare \/ Publish \/ Answer \/ LoseAnswer
  BY <1>4, PrepareStep, PublishStep, AnswerStep, LoseAnswerStep
<1> QED BY <1>1, <1>2, <1>3, <1>4 DEF Next

(* The inductive invariant holds in every reachable state.                 *)
THEOREM Invariance == Spec => []IInv
BY InitHolds, StepKeeps, PTL DEF Spec

(* The mutator's revisions are true (mutator.ts, `revisions`).             *)
THEOREM RevisionsAreTrue == Spec => []RevisionIsTrue
<1>1. IInv => RevisionIsTrue
  BY EditsAssumption, IdleTypes DEF IInv, MapsFit, Renamed, RevisionIsTrue
<1> QED BY <1>1, Invariance, PTL

(* The loop breaker refuses a call only on an unchanged file (engine.ts,   *)
(* `revisions`).                                                           *)
THEOREM RepeatsAreRepeats == Spec => []RefusalsAreHonest
<1>1. IInv => RefusalsAreHonest
  BY IdleTypes DEF IInv, MapsFit, Renamed, RefusalsAreHonest
<1> QED BY <1>1, Invariance, PTL

(* An edit replaces content the mutator knows (mutation.py,                *)
(* _prepare_target and _atomic_replace).                                   *)
THEOREM EditsLookFirst == Spec => NoBlindOverwrite
<1>1. ASSUME IInv, NEW p \in Paths, exchange.stage = "prepared", exchange.path = p
      PROVE  exchange.raced \/ file[p] = revisions[p]
  BY <1>1 DEF IInv, ExchangeFits
<1> DEFINE Looked == \A p \in Paths :
             exchange.stage = "prepared" /\ exchange.path = p /\ file'[p] # file[p]
               /\ foreign' \subseteq foreign
             => exchange.raced \/ file[p] = revisions[p]
<1>2. IInv /\ [Next]_vars => [Looked]_vars
  BY <1>1
<1> QED BY <1>2, Invariance, PTL DEF Spec, NoBlindOverwrite

-----------------------------------------------------------------------------
(***************************************************************************)
(* What a sequence of replacements makes of a content.                     *)
(***************************************************************************)
Replacements == Contents \X Contents

(* Each replacement changes something and finds what the one before left.  *)
Applies(content, edits) ==
  /\ edits[1][1] = content
  /\ \A i \in 1..Len(edits) : edits[i][1] # edits[i][2]
  /\ \A i \in 1..(Len(edits) - 1) : edits[i + 1][1] = edits[i][2]

LEMMA ReplacedTypes ==
  ASSUME NEW held \in Held, NEW edit \in Replacements
  PROVE  /\ Replaced(held, edit) \in Held
         /\ Replaced(held, edit) \in Contents =>
              edit[1] # edit[2] /\ held = edit[1] /\ Replaced(held, edit) = edit[2]
BY Basics DEF Replaced, Replacements

(* The contents in between. *)
Making(made, content, edits) ==
  /\ made \in [0..Len(edits) -> Held]
  /\ made[0] = content
  /\ \A i \in 1..Len(edits) : made[i] = Replaced(made[i - 1], edits[i])

LEMMA AfterSteps ==
  ASSUME NEW content \in Held, NEW edits \in Seq(Replacements)
  PROVE  \E made : Making(made, content, edits) /\ After(content, edits) = made[Len(edits)]
<1> DEFINE n == Len(edits)
           step == [i \in 1..n |-> [u \in Held |-> Replaced(u, edits[i])]]
           IsRun(f) == f = [i \in 0..n |-> IF i = 0 THEN content ELSE Replaced(f[i - 1], edits[i])]
<1>1. n \in Nat /\ \A i \in 1..n : edits[i] \in Replacements
  BY LenProperties, ElementOfSeq
<1>2. step \in [1..n -> [Held -> Held]]
  <2>1. \A i \in 1..n : [u \in Held |-> Replaced(u, edits[i])] \in [Held -> Held]
    BY <1>1, ReplacedTypes
  <2> QED BY <2>1
<1>3. \E f : IsRun(f)
  <2>1. PICK f : Stepwise(f, n, content, step, Held)
    <3> HIDE DEF n, step
    <3> QED BY <1>1, <1>2, StepwiseExists
  <2>2. ASSUME NEW i \in 0..n
        PROVE  f[i] = IF i = 0 THEN content ELSE Replaced(f[i - 1], edits[i])
    <3>1. CASE i = 0
      BY <2>1, <3>1 DEF Stepwise
    <3>2. CASE i # 0
      <4>1. i \in 1..n /\ i - 1 \in 0..n
        BY <1>1, <3>2
      <4>2. f[i - 1] \in Held /\ f[i] = step[i][f[i - 1]]
        BY <2>1, <4>1 DEF Stepwise
      <4>3. step[i][f[i - 1]] = Replaced(f[i - 1], edits[i])
        BY <4>1, <4>2
      <4> QED BY <3>2, <4>2, <4>3
    <3> QED BY <3>1, <3>2
  <2>3. IsRun(f)
    BY <2>1, <2>2 DEF Stepwise
  <2> QED BY <2>3
<1>4. \E f : IsRun(f) /\ After(content, edits) = f[n]
  BY <1>3, Zenon DEF After
<1>5. PICK f : IsRun(f) /\ After(content, edits) = f[n]
  BY <1>4
<1>6. f[0] = content /\ \A i \in 1..n : f[i] = Replaced(f[i - 1], edits[i])
  <2>1. \A i \in 0..n : f[i] = IF i = 0 THEN content ELSE Replaced(f[i - 1], edits[i])
    BY <1>5
  <2>2. 0 \in 0..n /\ \A i \in 1..n : i \in 0..n /\ i # 0
    BY <1>1
  <2> QED BY <2>1, <2>2
<1>7. \A i \in 0..n : f[i] \in Held
  <2> DEFINE S == {i \in 0..n : f[i] \in Held}
  <2>1. 0 \in S
    BY <1>1, <1>6
  <2>2. ASSUME NEW i \in 1..n, i - 1 \in S PROVE i \in S
    <3>1. f[i] = Replaced(f[i - 1], edits[i]) /\ f[i - 1] \in Held /\ edits[i] \in Replacements /\ i \in 0..n
      BY <1>1, <1>6, <2>2
    <3> QED BY <3>1, ReplacedTypes
  <2>3. \A i \in 0..n : i \in S
    <3> HIDE DEF S, n
    <3> QED BY <1>1, <2>1, <2>2, Induction
  <2> QED BY <2>3
<1>8. DOMAIN f = 0..n /\ f = [i \in 0..n |-> f[i]]
  BY <1>5
<1>9. Making(f, content, edits)
  BY <1>6, <1>7, <1>8 DEF Making
<1> QED BY <1>5, <1>9

(* All or nothing: a sequence makes a content only when every replacement  *)
(* of it applies in its turn, and then it makes what the last one makes    *)
(* (mutation.py, replace_many).                                            *)
THEOREM AllOrNothing ==
  ASSUME NEW content \in Held, NEW edits \in Seq(Replacements) \ {<<>>}
  PROVE  /\ After(content, edits) \in Contents <=> Applies(content, edits)
         /\ Applies(content, edits) => After(content, edits) = edits[Len(edits)][2]
<1> DEFINE n == Len(edits)
<1>1. PICK made : Making(made, content, edits) /\ After(content, edits) = made[n]
  BY AfterSteps, Basics
<1>2. /\ n \in Nat /\ n >= 1
      /\ \A i \in 1..n : edits[i] \in Replacements /\ edits[i][1] \in Contents /\ edits[i][2] \in Contents
  <2>1. n \in Nat /\ \A i \in 1..n : edits[i] \in Replacements
    BY LenProperties, ElementOfSeq
  <2>2. n # 0
    BY EmptySeq
  <2> QED BY <2>1, <2>2 DEF Replacements
<1>3. /\ made[0] = content
      /\ \A i \in 1..n : made[i] = Replaced(made[i - 1], edits[i])
      /\ \A i \in 0..n : made[i] \in Held
  BY <1>1 DEF Making
<1> HIDE DEF n
<1>4. ASSUME made[n] \in Contents PROVE Applies(content, edits)
  <2> DEFINE Applied(j) == edits[j][1] # edits[j][2] /\ made[j - 1] = edits[j][1] /\ made[j] = edits[j][2]
             S == {i \in 0..n : made[i] \in Contents => \A j \in 1..i : Applied(j)}
  <2>1. 0 \in S
    BY <1>2
  <2>2. ASSUME NEW i \in 1..n, i - 1 \in S PROVE i \in S
    <3> SUFFICES ASSUME made[i] \in Contents PROVE \A j \in 1..i : Applied(j)
      BY <1>2
    <3>1. i - 1 \in 0..n /\ edits[i] \in Replacements
      BY <1>2
    <3>2. made[i - 1] \in Held /\ made[i] = Replaced(made[i - 1], edits[i])
      BY <1>3, <3>1
    <3>3. Applied(i)
      BY <3>1, <3>2, ReplacedTypes
    <3>4. made[i - 1] \in Contents
      BY <1>2, <3>3
    <3>5. \A j \in 1..(i - 1) : Applied(j)
      BY <2>2, <3>4
    <3> HIDE DEF Applied
    <3> QED BY <3>3, <3>5
  <2>3. \A i \in 0..n : i \in S
    <3> HIDE DEF S
    <3> QED BY <1>2, <2>1, <2>2, Induction
  <2>4. n \in 0..n /\ 1 \in 1..n
    BY <1>2
  <2>5. \A j \in 1..n : Applied(j)
    BY <1>4, <2>3, <2>4
  <2>6. edits[1][1] = content
    BY <1>3, <2>4, <2>5
  <2>7. ASSUME NEW i \in 1..(n - 1) PROVE edits[i + 1][1] = edits[i][2]
    <3>1. i \in 1..n /\ i + 1 \in 1..n /\ (i + 1) - 1 = i
      BY <1>2
    <3> QED BY <2>5, <3>1
  <2> QED BY <2>5, <2>6, <2>7 DEF Applies, n
<1>5. ASSUME Applies(content, edits) PROVE made[n] = edits[n][2]
  <2> DEFINE S == {i \in 0..n : i > 0 => made[i] = edits[i][2]}
  <2>1. 0 \in S
    BY <1>2
  <2>2. ASSUME NEW i \in 1..n, i - 1 \in S PROVE i \in S
    <3>1. made[i - 1] = edits[i][1]
      <4>1. CASE i = 1
        BY <1>3, <1>5, <4>1 DEF Applies
      <4>2. CASE i # 1
        <5>1. i - 1 \in 1..(n - 1) /\ (i - 1) + 1 = i /\ i - 1 > 0
          BY <1>2, <4>2
        <5>2. made[i - 1] = edits[i - 1][2]
          BY <2>2, <5>1
        <5>3. edits[(i - 1) + 1][1] = edits[i - 1][2]
          BY <1>5, <5>1 DEF Applies, n
        <5> QED BY <5>1, <5>2, <5>3
      <4> QED BY <4>1, <4>2
    <3>2. edits[i][1] # edits[i][2]
      BY <1>5 DEF Applies, n
    <3>3. made[i] = edits[i][2]
      BY <1>3, <3>1, <3>2 DEF Replaced
    <3> QED BY <1>2, <3>3
  <2>3. \A i \in 0..n : i \in S
    <3> HIDE DEF S
    <3> QED BY <1>2, <2>1, <2>2, Induction
  <2> QED BY <1>2, <2>3
<1> QED BY <1>1, <1>2, <1>4, <1>5 DEF n

(* An edit that lands has turned the content whose revision was sent into  *)
(* what all of its replacements make of it, one after the other; what does *)
(* not apply as a whole leaves the file alone (mutation.py,                *)
(* _apply_replacement and _atomic_replace).                                *)
EditsLandWhole ==
  [][~exchange.ok /\ exchange'.ok =>
       /\ exchange.before = revisions[exchange.path]
       /\ Applies(exchange.before, exchange.edits)
       /\ file' = [file EXCEPT ![exchange.path] = exchange.edits[Len(exchange.edits)][2]]]_vars

(* No edit is half applied (EditsLandWhole).                               *)
THEOREM NoEditIsHalved == Spec => EditsLandWhole
<1> DEFINE Whole ==
      ~exchange.ok /\ exchange'.ok =>
        /\ exchange.before = revisions[exchange.path]
        /\ Applies(exchange.before, exchange.edits)
        /\ file' = [file EXCEPT ![exchange.path] = exchange.edits[Len(exchange.edits)][2]]
<1>1. ASSUME IInv, [Next]_vars, ~exchange.ok, exchange'.ok PROVE Whole
  <2>1. exchange \in Exchanges
    BY <1>1 DEF IInv, DataTypes
  <2>2. Publish
    BY <1>1, <2>1, IdleTypes
       DEF Next, RunCommand, ReadFile, Edit, Execute, Write, Prepare, Answer, LoseAnswer, ForeignWrite,
           vars, Idle, Exchanges
  <2>3. /\ exchange.stage = "prepared" /\ exchange'.ok # exchange.ok
        /\ exchange.before = revisions[exchange.path]
        /\ exchange.edits \in Edits /\ exchange.before \in Held
        /\ After(exchange.before, exchange.edits) \in Contents
    BY <1>1, <2>1, <2>2 DEF Publish, IInv, ExchangeFits, Exchanges
  <2>4. exchange' # [exchange EXCEPT !.stage = "answered"]
    BY <2>1, <2>3 DEF Exchanges
  <2>5. file' = [file EXCEPT ![exchange.path] = After(exchange.before, exchange.edits)]
    BY <2>2, <2>4 DEF Publish
  <2>6. exchange.edits \in Seq(Replacements) \ {<<>>}
    BY <2>3, EditsAssumption DEF Replacements
  <2> QED BY <2>3, <2>5, <2>6, AllOrNothing
<1>2. IInv /\ [Next]_vars => [Whole]_vars
  BY <1>1
<1> QED BY <1>2, Invariance, PTL DEF Spec, EditsLandWhole

-----------------------------------------------------------------------------
(***************************************************************************)
(* The loop breaker as Editing drives it, for any window, threshold and    *)
(* limit: how often a key is in the window, and how long a model can       *)
(* repeat one call.                                                        *)
(***************************************************************************)
Keys == Calls \X (Held \cup [Paths -> Held])

Places(s, key) == {i \in DOMAIN s : s[i] = key}
Occurs(s, key) == Cardinality(Places(s, key))

-----------------------------------------------------------------------------
(* Places in a sequence are finitely many.                                 *)
LEMMA PlacesFinite ==
  ASSUME NEW S, NEW s \in Seq(S), NEW key
  PROVE  IsFiniteSet(Places(s, key)) /\ Occurs(s, key) \in Nat
<1>1. Len(s) \in Nat /\ DOMAIN s = 1..Len(s)
  BY LenProperties
<1>2. IsFiniteSet(1..Len(s))
  BY <1>1, FS_Interval
<1>3. Places(s, key) \in SUBSET (1..Len(s))
  BY <1>1 DEF Places
<1> QED BY <1>2, <1>3, FS_Subset, FS_CardinalityType DEF Occurs

(* One more call is one more place of its key, and of no other.            *)
LEMMA AppendCount ==
  ASSUME NEW S, NEW s \in Seq(S), NEW e \in S, NEW key
  PROVE  Occurs(Append(s, e), key) = IF e = key THEN Occurs(s, key) + 1 ELSE Occurs(s, key)
<1> DEFINE n == Len(s)
           t == Append(s, e)
<1>1. /\ n \in Nat /\ DOMAIN s = 1..n /\ DOMAIN t = 1..(n + 1)
      /\ \A i \in 1..n : t[i] = s[i]
      /\ t[n + 1] = e
  <2>1. t \in Seq(S) /\ Len(t) = n + 1
    BY AppendProperties
  <2> QED BY <2>1, LenProperties, AppendProperties
<1>2. n + 1 \notin Places(s, key)
  BY <1>1 DEF Places
<1>3. IsFiniteSet(Places(s, key))
  BY PlacesFinite
<1> HIDE DEF n, t
<1>4. CASE e = key
  <2>1. Places(t, key) = Places(s, key) \cup {n + 1}
    BY <1>1, <1>4 DEF Places
  <2> QED BY <1>2, <1>3, <1>4, <2>1, FS_AddElement DEF Occurs, t
<1>5. CASE e # key
  <2>1. Places(t, key) = Places(s, key)
    BY <1>1, <1>5 DEF Places
  <2> QED BY <1>5, <2>1 DEF Occurs, t
<1> QED BY <1>4, <1>5

(* What leaves the window takes a place along, and adds none.              *)
LEMMA TailCount ==
  ASSUME NEW S, NEW s \in Seq(S), s # <<>>, NEW key
  PROVE  Occurs(Tail(s), key) <= Occurs(s, key)
<1> DEFINE f == [i \in Places(Tail(s), key) |-> i + 1]
<1>1. /\ Len(s) \in Nat /\ DOMAIN s = 1..Len(s) /\ Tail(s) \in Seq(S)
      /\ DOMAIN Tail(s) = 1..(Len(s) - 1)
      /\ \A i \in 1..(Len(s) - 1) : Tail(s)[i] = s[i + 1]
  BY HeadTailProperties, LenProperties
<1>2. \A i \in Places(Tail(s), key) : i \in Nat /\ i + 1 \in Places(s, key)
  BY <1>1 DEF Places
<1>3. f \in Injection(Places(Tail(s), key), Places(s, key))
  BY <1>2 DEF Injection, IsInjective
<1>4. IsFiniteSet(Places(s, key))
  BY PlacesFinite
<1> QED BY <1>3, <1>4, FS_Injection DEF Occurs

(* A window that ends with a copies of a key has at least a of them.       *)
LEMMA TrailCount ==
  ASSUME NEW S, NEW s \in Seq(S), NEW key, NEW a \in 0..Len(s),
         \A i \in (Len(s) - a + 1)..Len(s) : s[i] = key
  PROVE  a <= Occurs(s, key)
<1>1. Len(s) \in Nat /\ DOMAIN s = 1..Len(s) /\ a \in Nat /\ a <= Len(s)
  BY LenProperties
<1>2. (Len(s) - a + 1)..Len(s) \in SUBSET Places(s, key)
  BY <1>1 DEF Places
<1>3. IsFiniteSet(Places(s, key))
  BY PlacesFinite
<1>4. Cardinality((Len(s) - a + 1)..Len(s)) <= Cardinality(Places(s, key))
  BY <1>2, <1>3, FS_Subset
<1>5. Cardinality((Len(s) - a + 1)..Len(s)) = a
  <2>1. Len(s) - a + 1 \in Int /\ Len(s) \in Int
    BY <1>1
  <2>2. Cardinality((Len(s) - a + 1)..Len(s))
          = IF Len(s) - a + 1 > Len(s) THEN 0 ELSE Len(s) - (Len(s) - a + 1) + 1
    BY <2>1, FS_Interval
  <2> QED BY <1>1, <2>2
<1> QED BY <1>4, <1>5 DEF Occurs

-----------------------------------------------------------------------------
(* The window is one, and no key is in it more often than it may be.       *)
WindowFits ==
  /\ admitted \in Seq(Keys) /\ Len(admitted) <= WINDOW
  /\ \A key \in Keys : Occurs(admitted, key) <= THRESHOLD

(* A run of one call consists of the copies at the end of the window and   *)
(* of refusals; once a call is refused, its next copy is refused too.      *)
StreakFits ==
  /\ consecutiveBlocks \in 0..CONSECUTIVE_BLOCK_LIMIT
  /\ streak.length \in Nat
  /\ consecutiveBlocks = CONSECUTIVE_BLOCK_LIMIT => streak.length = 0
  /\ \E a \in 0..THRESHOLD :
       /\ a <= Len(admitted)
       /\ \A i \in (Len(admitted) - a + 1)..Len(admitted) : admitted[i] = streak.key
       /\ streak.length <= a + consecutiveBlocks
       /\ streak.length > a => Occurs(admitted, streak.key) >= THRESHOLD

BreakerInv == WindowFits /\ StreakFits

-----------------------------------------------------------------------------
(* A call has a key.                                                       *)
LEMMA KeyTypes ==
  ASSUME DataTypes, NEW call \in Calls
  PROVE  CallKey(call) \in Keys
<1>1. call.path \in Paths \cup {Nothing}
  BY EditsAssumption DEF Calls
<1>2. WorkspacePart(call) \in Held \cup [Paths -> Held]
  BY <1>1 DEF WorkspacePart, DataTypes
<1> QED BY <1>2 DEF CallKey, Keys

LEMMA RepeatsOccur == \A key : Repeats(key) = Occurs(admitted, key)
BY DEF Repeats, Occurs, Places

(* The window slides by one call at most.                                  *)
LEMMA AdmitWindow ==
  ASSUME WindowFits, NEW call, CallKey(call) \in Keys, Admit(call)
  PROVE  /\ WindowFits'
         /\ Len(admitted') \in Nat
         /\ \A a \in Nat :
              /\ a <= Len(admitted) /\ a < WINDOW
              /\ \A i \in (Len(admitted) - a + 1)..Len(admitted) : admitted[i] = CallKey(call)
              => /\ a + 1 <= Len(admitted')
                 /\ \A i \in (Len(admitted') - (a + 1) + 1)..Len(admitted') :
                      admitted'[i] = CallKey(call)
<1> DEFINE k == CallKey(call)
           keys == Append(admitted, k)
<1>1. /\ WINDOW \in Nat /\ THRESHOLD \in Nat /\ WINDOW > 0
      /\ admitted \in Seq(Keys) /\ Len(admitted) \in Nat /\ Len(admitted) <= WINDOW
  BY BreakerAssumption, LenProperties DEF BreakerAssumption, WindowFits
<1>2. /\ keys \in Seq(Keys) /\ keys # <<>> /\ Len(keys) = Len(admitted) + 1
      /\ \A i \in 1..Len(admitted) : keys[i] = admitted[i]
      /\ keys[Len(admitted) + 1] = k
  BY <1>1, AppendProperties DEF WindowFits
<1>3. \A key \in Keys : Occurs(keys, key) \in Nat /\ Occurs(keys, key) <= THRESHOLD
  <2> SUFFICES ASSUME NEW key \in Keys
               PROVE  Occurs(keys, key) \in Nat /\ Occurs(keys, key) <= THRESHOLD
    OBVIOUS
  <2>1. Occurs(admitted, key) \in Nat /\ Occurs(admitted, key) <= THRESHOLD
    BY <1>1, PlacesFinite DEF WindowFits
  <2>2. ~(Occurs(admitted, k) >= THRESHOLD)
    BY RepeatsOccur DEF Admit, TooMany
  <2>3. Occurs(keys, key) = IF k = key THEN Occurs(admitted, key) + 1 ELSE Occurs(admitted, key)
    BY <1>1, AppendCount
  <2> QED BY <1>1, <2>1, <2>2, <2>3
<1>4. CASE Len(keys) > WINDOW /\ admitted' = Tail(keys)
  <2>1. /\ Tail(keys) \in Seq(Keys) /\ Len(Tail(keys)) = Len(keys) - 1
        /\ \A i \in 1..Len(Tail(keys)) : Tail(keys)[i] = keys[i + 1]
    BY <1>2, HeadTailProperties
  <2>2. \A key \in Keys : Occurs(Tail(keys), key) <= THRESHOLD
    <3> SUFFICES ASSUME NEW key \in Keys PROVE Occurs(Tail(keys), key) <= THRESHOLD
      OBVIOUS
    <3>1. Occurs(Tail(keys), key) <= Occurs(keys, key) /\ Occurs(Tail(keys), key) \in Nat
      BY <1>2, <2>1, TailCount, PlacesFinite
    <3> QED BY <1>1, <1>3, <3>1
  <2>3. WindowFits'
    BY <1>1, <1>2, <1>4, <2>1, <2>2 DEF WindowFits, Occurs, Places
  <2>4. Len(admitted) = WINDOW /\ Len(admitted') = Len(admitted)
    BY <1>1, <1>2, <1>4, <2>1
  <2> HIDE DEF k, keys
  <2>5. ASSUME NEW a \in Nat, a <= Len(admitted), a < WINDOW,
               \A i \in (Len(admitted) - a + 1)..Len(admitted) : admitted[i] = k
        PROVE  /\ a + 1 <= Len(admitted')
               /\ \A i \in (Len(admitted') - (a + 1) + 1)..Len(admitted') : admitted'[i] = k
    <3>1. a + 1 <= Len(admitted')
      BY <1>1, <2>4, <2>5
    <3>2. ASSUME NEW i \in (Len(admitted) - (a + 1) + 1)..Len(admitted)
          PROVE  admitted'[i] = k
      <4>1. i \in 1..Len(admitted) /\ admitted'[i] = keys[i + 1]
        BY <1>1, <1>2, <1>4, <2>1, <2>4, <2>5, <3>2
      <4>2. CASE i = Len(admitted)
        BY <1>2, <4>1, <4>2
      <4>3. CASE i # Len(admitted)
        <5>1. i + 1 \in 1..Len(admitted) /\ i + 1 \in (Len(admitted) - a + 1)..Len(admitted)
          BY <1>1, <2>5, <3>2, <4>1, <4>3
        <5> QED BY <1>2, <2>5, <4>1, <5>1
      <4> QED BY <4>2, <4>3
    <3> QED BY <2>4, <3>1, <3>2
  <2> QED BY <1>1, <2>3, <2>4, <2>5 DEF k
<1>5. CASE ~(Len(keys) > WINDOW) /\ admitted' = keys
  <2>1. Len(keys) <= WINDOW
    BY <1>1, <1>2, <1>5
  <2>2. WindowFits'
    BY <1>2, <1>3, <1>5, <2>1 DEF WindowFits, Occurs, Places
  <2> HIDE DEF k, keys
  <2>3. ASSUME NEW a \in Nat, a <= Len(admitted), a < WINDOW,
               \A i \in (Len(admitted) - a + 1)..Len(admitted) : admitted[i] = k
        PROVE  /\ a + 1 <= Len(admitted')
               /\ \A i \in (Len(admitted') - (a + 1) + 1)..Len(admitted') : admitted'[i] = k
    <3>1. a + 1 <= Len(admitted')
      BY <1>1, <1>2, <1>5, <2>3
    <3>2. ASSUME NEW i \in (Len(keys) - (a + 1) + 1)..Len(keys)
          PROVE  keys[i] = k
      <4>1. CASE i = Len(admitted) + 1
        BY <1>2, <4>1
      <4>2. CASE i # Len(admitted) + 1
        <5>1. i \in 1..Len(admitted) /\ i \in (Len(admitted) - a + 1)..Len(admitted)
          BY <1>1, <1>2, <2>3, <3>2, <4>2
        <5> QED BY <1>2, <2>3, <5>1
      <4> QED BY <4>1, <4>2
    <3> QED BY <1>5, <3>1, <3>2
  <2> QED BY <1>1, <1>2, <1>5, <2>2, <2>3 DEF k
<1> QED BY <1>4, <1>5 DEF Admit, Evict

(* An admitted call was not refused just before, and is one more copy at   *)
(* the end of the window.                                                  *)
LEMMA AdmitStreak ==
  ASSUME WindowFits, StreakFits, NEW call, CallKey(call) \in Keys, Admit(call)
  PROVE  StreakFits'
<1> DEFINE k == CallKey(call)
<1>1. /\ WINDOW \in Nat /\ THRESHOLD \in Nat /\ THRESHOLD <= WINDOW /\ THRESHOLD > 0
      /\ CONSECUTIVE_BLOCK_LIMIT \in Nat /\ CONSECUTIVE_BLOCK_LIMIT > 0
      /\ admitted \in Seq(Keys) /\ Len(admitted) \in Nat
  BY BreakerAssumption, LenProperties DEF BreakerAssumption, WindowFits
<1>2. /\ consecutiveBlocks' = 0
      /\ streak' = [key |-> k, length |-> IF streak.key = k THEN streak.length + 1 ELSE 1]
  BY DEF Admit, Extend
<1>3. Occurs(admitted, k) \in Nat /\ ~(Occurs(admitted, k) >= THRESHOLD)
  <2>1. ~(Occurs(admitted, k) >= THRESHOLD)
    BY RepeatsOccur DEF Admit, TooMany
  <2> QED BY <1>1, <2>1, PlacesFinite
<1>4. WindowFits' /\ Len(admitted') \in Nat
  BY AdmitWindow
<1> HIDE DEF k
<1>5. \E a \in Nat :
        /\ a < THRESHOLD /\ a <= Len(admitted)
        /\ \A i \in (Len(admitted) - a + 1)..Len(admitted) : admitted[i] = k
        /\ streak'.length <= a + 1
  <2>1. CASE streak.key = k
    <3>1. PICK a \in 0..THRESHOLD :
            /\ a <= Len(admitted)
            /\ \A i \in (Len(admitted) - a + 1)..Len(admitted) : admitted[i] = streak.key
            /\ streak.length > a => Occurs(admitted, streak.key) >= THRESHOLD
      BY DEF StreakFits
    <3>2. a <= Occurs(admitted, k)
      BY <1>1, <2>1, <3>1, TrailCount
    <3>3. a \in Nat /\ a < THRESHOLD
      BY <1>1, <1>3, <3>2
    <3>4. streak.length \in Nat /\ streak.length <= a
      BY <1>3, <2>1, <3>1, <3>3 DEF StreakFits
    <3>5. streak'.length = streak.length + 1
      BY <1>2, <2>1
    <3>6. streak'.length <= a + 1
      BY <3>3, <3>4, <3>5
    <3> QED BY <2>1, <3>1, <3>3, <3>6
  <2>2. CASE streak.key # k
    <3>1. streak'.length = 1
      BY <1>2, <2>2
    <3>2. \A i \in (Len(admitted) - 0 + 1)..Len(admitted) : admitted[i] = k
      BY <1>1
    <3> QED BY <1>1, <3>1, <3>2
  <2> QED BY <2>1, <2>2
<1>6. PICK a \in Nat :
        /\ a < THRESHOLD /\ a <= Len(admitted)
        /\ \A i \in (Len(admitted) - a + 1)..Len(admitted) : admitted[i] = k
        /\ streak'.length <= a + 1
  BY <1>5
<1>7. /\ a + 1 <= Len(admitted')
      /\ \A i \in (Len(admitted') - (a + 1) + 1)..Len(admitted') : admitted'[i] = k
  BY <1>1, <1>6, AdmitWindow DEF k
<1>8. streak'.length \in Nat /\ streak'.key = k
  BY <1>2 DEF StreakFits
<1>9. a + 1 \in 0..THRESHOLD /\ streak'.length <= (a + 1) + consecutiveBlocks'
      /\ ~(streak'.length > a + 1)
  BY <1>1, <1>2, <1>6, <1>8
<1>10. consecutiveBlocks' \in 0..CONSECUTIVE_BLOCK_LIMIT
       /\ consecutiveBlocks' # CONSECUTIVE_BLOCK_LIMIT
  BY <1>1, <1>2
<1> QED BY <1>7, <1>8, <1>9, <1>10 DEF StreakFits

(* A refused call stays refused, and the limit ends the turn.              *)
LEMMA RefuseStreak ==
  ASSUME WindowFits, StreakFits, NEW call, Refuse(call)
  PROVE  WindowFits' /\ StreakFits'
<1> DEFINE k == CallKey(call)
           ends == consecutiveBlocks' = CONSECUTIVE_BLOCK_LIMIT
<1>1. /\ THRESHOLD \in Nat /\ CONSECUTIVE_BLOCK_LIMIT \in Nat /\ CONSECUTIVE_BLOCK_LIMIT > 0
      /\ admitted \in Seq(Keys) /\ Len(admitted) \in Nat
      /\ consecutiveBlocks \in Nat /\ consecutiveBlocks <= CONSECUTIVE_BLOCK_LIMIT
      /\ streak.length \in Nat
  BY BreakerAssumption, LenProperties DEF BreakerAssumption, WindowFits, StreakFits
<1>2. /\ UNCHANGED admitted
      /\ consecutiveBlocks' = IF consecutiveBlocks < CONSECUTIVE_BLOCK_LIMIT
                              THEN consecutiveBlocks + 1 ELSE consecutiveBlocks
      /\ streak' = [key |-> k, length |-> IF ends THEN 0
                                          ELSE IF streak.key = k THEN streak.length + 1 ELSE 1]
  BY DEF Refuse, Extend
<1>3. Occurs(admitted, k) >= THRESHOLD
  BY RepeatsOccur DEF Refuse, TooMany
<1>4. WindowFits'
  BY <1>2 DEF WindowFits, Occurs, Places
<1>5. Occurs(admitted', k) = Occurs(admitted, k)
  BY <1>2
<1> HIDE DEF k
<1>6. \E a \in 0..THRESHOLD :
        /\ a <= Len(admitted)
        /\ \A i \in (Len(admitted) - a + 1)..Len(admitted) : admitted[i] = k
        /\ streak'.length <= a + consecutiveBlocks'
  <2>1. CASE streak.key = k /\ ~ends
    <3>1. PICK a \in 0..THRESHOLD :
            /\ a <= Len(admitted)
            /\ \A i \in (Len(admitted) - a + 1)..Len(admitted) : admitted[i] = streak.key
            /\ streak.length <= a + consecutiveBlocks
      BY DEF StreakFits
    <3>2. streak'.length = streak.length + 1 /\ consecutiveBlocks' = consecutiveBlocks + 1
      BY <1>1, <1>2, <2>1
    <3>3. streak'.length <= a + consecutiveBlocks'
      BY <1>1, <3>1, <3>2
    <3> QED BY <2>1, <3>1, <3>3
  <2>2. CASE streak.key # k \/ ends
    <3>1. streak'.length <= 1 /\ (ends => streak'.length = 0) /\ streak'.length \in Nat
      BY <1>2, <2>2
    <3>2. consecutiveBlocks' \in Nat /\ consecutiveBlocks' >= 1
      BY <1>1, <1>2
    <3>3. streak'.length <= 0 + consecutiveBlocks'
      BY <3>1, <3>2
    <3>4. \A i \in (Len(admitted) - 0 + 1)..Len(admitted) : admitted[i] = k
      BY <1>1
    <3> QED BY <1>1, <3>3, <3>4
  <2> QED BY <2>1, <2>2
<1>7. /\ consecutiveBlocks' \in 0..CONSECUTIVE_BLOCK_LIMIT
      /\ streak'.length \in Nat /\ streak'.key = k
      /\ consecutiveBlocks' = CONSECUTIVE_BLOCK_LIMIT => streak'.length = 0
  BY <1>1, <1>2
<1>8. StreakFits'
  <2>1. PICK a \in 0..THRESHOLD :
          /\ a <= Len(admitted)
          /\ \A i \in (Len(admitted) - a + 1)..Len(admitted) : admitted[i] = k
          /\ streak'.length <= a + consecutiveBlocks'
    BY <1>6
  <2> QED BY <1>2, <1>3, <1>5, <1>7, <2>1 DEF StreakFits
<1> QED BY <1>4, <1>8

(* Nothing else touches the guard.                                         *)
LEMMA GuardQuiet ==
  ASSUME BreakerInv, UNCHANGED <<admitted, consecutiveBlocks, streak>>
  PROVE  BreakerInv'
BY DEF BreakerInv, WindowFits, StreakFits, Occurs, Places

LEMMA GuardedStep ==
  ASSUME IInv, BreakerInv, NEW call \in Calls, Refuse(call) \/ Admit(call)
  PROVE  BreakerInv'
<1>1. CallKey(call) \in Keys
  BY KeyTypes DEF IInv
<1> QED BY <1>1, AdmitWindow, AdmitStreak, RefuseStreak DEF BreakerInv

(* The window is empty at first.                                           *)
LEMMA GuardInit == Init => BreakerInv
<1> SUFFICES ASSUME Init PROVE BreakerInv
  OBVIOUS
<1>1. /\ admitted = <<>> /\ consecutiveBlocks = 0
      /\ streak.length = 0 /\ WINDOW \in Nat /\ THRESHOLD \in Nat
      /\ CONSECUTIVE_BLOCK_LIMIT \in Nat
  BY BreakerAssumption DEF BreakerAssumption, Init, BreakerInit
<1>2. admitted \in Seq(Keys) /\ Len(admitted) = 0
  BY <1>1, EmptySeq
<1>3. \A key : Occurs(admitted, key) = 0
  <2> SUFFICES ASSUME NEW key PROVE Occurs(admitted, key) = 0
    OBVIOUS
  <2>1. Places(admitted, key) = {}
    BY <1>1 DEF Places
  <2> QED BY <2>1, FS_EmptySet DEF Occurs
<1>4. WindowFits
  BY <1>1, <1>2, <1>3 DEF WindowFits
<1>5. StreakFits
  <2>1. 0 \in 0..THRESHOLD /\ 0 <= Len(admitted) /\ streak.length <= 0 + consecutiveBlocks
        /\ ~(streak.length > 0)
    BY <1>1, <1>2
  <2>2. \A i \in (Len(admitted) - 0 + 1)..Len(admitted) : admitted[i] = streak.key
    BY <1>2
  <2>3. consecutiveBlocks \in 0..CONSECUTIVE_BLOCK_LIMIT
    BY <1>1
  <2> QED BY <1>1, <2>1, <2>2, <2>3 DEF StreakFits
<1> QED BY <1>4, <1>5 DEF BreakerInv

LEMMA GuardStep == IInv /\ BreakerInv /\ [Next]_vars => BreakerInv'
<1> SUFFICES ASSUME IInv, BreakerInv, [Next]_vars PROVE BreakerInv'
  OBVIOUS
<1>1. CASE UNCHANGED vars
  BY <1>1, GuardQuiet DEF vars, breaker
<1>2. CASE RunCommand
  <2>1. [tool |-> "bash", path |-> Nothing, input |-> Nothing] \in Calls
    BY DEF Calls
  <2> QED BY <1>2, <2>1, GuardedStep DEF RunCommand
<1>3. ASSUME NEW p \in Paths, ReadFile(p) PROVE BreakerInv'
  <2>1. [tool |-> "read", path |-> p, input |-> Nothing] \in Calls
    BY DEF Calls
  <2> QED BY <1>3, <2>1, GuardedStep DEF ReadFile
<1>4. ASSUME NEW p \in Writable, NEW edits \in Edits, Edit(p, edits) PROVE BreakerInv'
  <2>1. [tool |-> "edit", path |-> p, input |-> edits] \in Calls
    BY DEF Calls
  <2> QED BY <1>4, <2>1, GuardedStep DEF Edit
<1>5. ASSUME NEW p \in Writable, NEW content \in Contents, Write(p, content) PROVE BreakerInv'
  <2>1. [tool |-> "write", path |-> p, input |-> content] \in Calls
    BY DEF Calls
  <2> QED BY <1>5, <2>1, GuardedStep DEF Write
<1>6. ASSUME NEW p \in Writable, NEW held \in Held, ForeignWrite(p, held) PROVE BreakerInv'
  BY <1>6, GuardQuiet DEF ForeignWrite, breaker
<1>7. CASE Prepare \/ Publish \/ Answer \/ LoseAnswer
  BY <1>7, GuardQuiet DEF Prepare, Publish, Answer, LoseAnswer, breaker
<1> QED BY <1>1, <1>2, <1>3, <1>4, <1>5, <1>6, <1>7 DEF Next

(* The window and the run of one call fit together in every reachable      *)
(* state.                                                                  *)
THEOREM GuardInvariance == Spec => []BreakerInv
<1>1. Init /\ [][Next]_vars /\ []IInv => []BreakerInv
  BY GuardInit, GuardStep, PTL
<1> QED BY <1>1, Invariance, PTL DEF Spec

(* No key is more than THRESHOLD times in the window (engine.ts, inspect). *)
THEOREM WindowsHold == Spec => []WindowHolds
<1>1. BreakerInv => WindowHolds
  <2> SUFFICES ASSUME BreakerInv, NEW i \in DOMAIN admitted
               PROVE  Repeats(admitted[i]) <= THRESHOLD
    BY DEF WindowHolds
  <2>1. admitted[i] \in Keys
    BY ElementOfSeq, LenProperties DEF BreakerInv, WindowFits
  <2> QED BY <2>1, RepeatsOccur DEF BreakerInv, WindowFits
<1> QED BY <1>1, GuardInvariance, PTL

(* A model that only repeats one call is sent out of its turn (engine.ts,  *)
(* the tool_call listener).                                                *)
THEOREM RepeatsAreEnded == Spec => []RepeatsEndTheTurn
<1>1. BreakerInv => RepeatsEndTheTurn
  <2> SUFFICES ASSUME BreakerInv PROVE streak.length < THRESHOLD + CONSECUTIVE_BLOCK_LIMIT
    BY DEF RepeatsEndTheTurn
  <2>1. /\ THRESHOLD \in Nat /\ CONSECUTIVE_BLOCK_LIMIT \in Nat
        /\ CONSECUTIVE_BLOCK_LIMIT > 0 /\ streak.length \in Nat
        /\ consecutiveBlocks \in 0..CONSECUTIVE_BLOCK_LIMIT
    BY BreakerAssumption DEF BreakerAssumption, BreakerInv, StreakFits
  <2>2. PICK a \in 0..THRESHOLD : streak.length <= a + consecutiveBlocks
    BY DEF BreakerInv, StreakFits
  <2>3. CASE consecutiveBlocks = CONSECUTIVE_BLOCK_LIMIT
    BY <2>1, <2>3 DEF BreakerInv, StreakFits
  <2>4. CASE consecutiveBlocks # CONSECUTIVE_BLOCK_LIMIT
    BY <2>1, <2>2, <2>4
  <2> QED BY <2>3, <2>4
<1> QED BY <1>1, GuardInvariance, PTL

-----------------------------------------------------------------------------
(***************************************************************************)
(* What the guard remembers.  The counts of refusals are kept in a map of  *)
(* their own, which only evictions shrink; it stays a part of the window.  *)
(***************************************************************************)
CountsFit == \A key \in blockedByKey : \E i \in 1..Len(admitted) : admitted[i] = key

(* A count outlives its copies in the window at no eviction.               *)
LEMMA AdmitCounts ==
  ASSUME WindowFits, CountsFit, NEW call, CallKey(call) \in Keys, Admit(call)
  PROVE  CountsFit'
<1> DEFINE k == CallKey(call)
           keys == Append(admitted, k)
<1>1. /\ keys \in Seq(Keys) /\ keys # <<>> /\ Len(keys) = Len(admitted) + 1
      /\ \A i \in 1..Len(admitted) : keys[i] = admitted[i]
      /\ Len(admitted) \in Nat
  BY AppendProperties, LenProperties DEF WindowFits
<1>2. \A key \in blockedByKey : \E i \in 1..Len(keys) : keys[i] = key
  <2> SUFFICES ASSUME NEW key \in blockedByKey PROVE \E i \in 1..Len(keys) : keys[i] = key
    OBVIOUS
  <2>1. PICK i \in 1..Len(admitted) : admitted[i] = key
    BY DEF CountsFit
  <2>2. i \in 1..Len(keys) /\ keys[i] = key
    BY <1>1, <2>1
  <2> QED BY <2>2
<1> HIDE DEF keys
<1>3. CASE admitted' = keys /\ UNCHANGED blockedByKey
  BY <1>2, <1>3 DEF CountsFit
<1>4. CASE Evict(keys)
  <2>1. /\ admitted' = Tail(keys) /\ Len(Tail(keys)) = Len(keys) - 1
        /\ \A i \in 1..Len(Tail(keys)) : Tail(keys)[i] = keys[i + 1]
        /\ Head(keys) = keys[1]
    BY <1>1, <1>4, HeadTailProperties DEF Evict
  <2> SUFFICES ASSUME NEW key \in blockedByKey'
               PROVE  \E i \in 1..Len(Tail(keys)) : Tail(keys)[i] = key
    BY <2>1 DEF CountsFit
  <2>2. key \in blockedByKey /\ (key = Head(keys) => Contains(Tail(keys), key))
    BY <1>4 DEF Evict
  <2>3. CASE key = Head(keys)
    BY <2>2, <2>3 DEF Contains
  <2>4. CASE key # Head(keys)
    <3>1. PICK i \in 1..Len(keys) : keys[i] = key
      BY <1>2, <2>2
    <3>2. i - 1 \in 1..Len(Tail(keys)) /\ (i - 1) + 1 = i
      BY <1>1, <2>1, <2>4, <3>1
    <3> QED BY <2>1, <3>1, <3>2
  <2> QED BY <2>3, <2>4
<1> QED BY <1>3, <1>4 DEF Admit, keys, k

(* Only a call that is in the window is refused.                           *)
LEMMA RefuseCounts ==
  ASSUME WindowFits, CountsFit, NEW call, Refuse(call)
  PROVE  CountsFit'
<1> DEFINE k == CallKey(call)
<1>1. UNCHANGED admitted /\ blockedByKey' = blockedByKey \cup {k}
  BY DEF Refuse
<1>2. Occurs(admitted, k) >= THRESHOLD /\ THRESHOLD \in Nat /\ THRESHOLD > 0
  BY RepeatsOccur, BreakerAssumption DEF Refuse, TooMany, BreakerAssumption
<1>3. Places(admitted, k) # {}
  BY <1>2, FS_EmptySet DEF Occurs
<1>4. \E i \in 1..Len(admitted) : admitted[i] = k
  BY <1>3, LenProperties DEF Places, WindowFits
<1> QED BY <1>1, <1>4 DEF CountsFit

LEMMA CountsQuiet ==
  ASSUME CountsFit, UNCHANGED <<admitted, blockedByKey>>
  PROVE  CountsFit'
BY DEF CountsFit

LEMMA CountedStep ==
  ASSUME IInv, BreakerInv, CountsFit, NEW call \in Calls, Refuse(call) \/ Admit(call)
  PROVE  CountsFit'
<1>1. CallKey(call) \in Keys
  BY KeyTypes DEF IInv
<1> QED BY <1>1, AdmitCounts, RefuseCounts DEF BreakerInv

LEMMA CountsStep == IInv /\ BreakerInv /\ CountsFit /\ [Next]_vars => CountsFit'
<1> SUFFICES ASSUME IInv, BreakerInv, CountsFit, [Next]_vars PROVE CountsFit'
  OBVIOUS
<1>1. CASE UNCHANGED vars
  BY <1>1, CountsQuiet DEF vars, breaker
<1>2. CASE RunCommand
  <2>1. [tool |-> "bash", path |-> Nothing, input |-> Nothing] \in Calls
    BY DEF Calls
  <2> QED BY <1>2, <2>1, CountedStep DEF RunCommand
<1>3. ASSUME NEW p \in Paths, ReadFile(p) PROVE CountsFit'
  <2>1. [tool |-> "read", path |-> p, input |-> Nothing] \in Calls
    BY DEF Calls
  <2> QED BY <1>3, <2>1, CountedStep DEF ReadFile
<1>4. ASSUME NEW p \in Writable, NEW edits \in Edits, Edit(p, edits) PROVE CountsFit'
  <2>1. [tool |-> "edit", path |-> p, input |-> edits] \in Calls
    BY DEF Calls
  <2> QED BY <1>4, <2>1, CountedStep DEF Edit
<1>5. ASSUME NEW p \in Writable, NEW content \in Contents, Write(p, content) PROVE CountsFit'
  <2>1. [tool |-> "write", path |-> p, input |-> content] \in Calls
    BY DEF Calls
  <2> QED BY <1>5, <2>1, CountedStep DEF Write
<1>6. ASSUME NEW p \in Writable, NEW held \in Held, ForeignWrite(p, held) PROVE CountsFit'
  BY <1>6, CountsQuiet DEF ForeignWrite, breaker
<1>7. CASE Prepare \/ Publish \/ Answer \/ LoseAnswer
  BY <1>7, CountsQuiet DEF Prepare, Publish, Answer, LoseAnswer, breaker
<1> QED BY <1>1, <1>2, <1>3, <1>4, <1>5, <1>6, <1>7 DEF Next

(* Refusals are counted for calls of the window only, so the map of counts *)
(* never grows beyond the window, however long the session and whatever    *)
(* the model repeats (engine.ts, inspect).                                 *)
THEOREM CountsAreBounded ==
  Spec => [](CountsFit /\ Cardinality(blockedByKey) <= WINDOW)
<1>1. Init => CountsFit
  BY DEF Init, BreakerInit, CountsFit
<1>2. BreakerInv /\ CountsFit => Cardinality(blockedByKey) <= WINDOW
  <2> SUFFICES ASSUME BreakerInv, CountsFit PROVE Cardinality(blockedByKey) <= WINDOW
    OBVIOUS
  <2> DEFINE window == {admitted[i] : i \in 1..Len(admitted)}
  <2>1. /\ admitted \in Seq(Keys) /\ Len(admitted) \in Nat /\ Len(admitted) <= WINDOW
        /\ DOMAIN admitted = 1..Len(admitted) /\ WINDOW \in Nat
    BY LenProperties, BreakerAssumption DEF BreakerInv, WindowFits, BreakerAssumption
  <2>2. IsFiniteSet(1..Len(admitted)) /\ Cardinality(1..Len(admitted)) = Len(admitted)
    <3> DEFINE n == Len(admitted)
    <3>1. n \in Nat
      BY <2>1
    <3> HIDE DEF n
    <3>2. IsFiniteSet(1..n) /\ Cardinality(1..n) = n
      BY <3>1, FS_Interval
    <3> QED BY <3>2 DEF n
  <2>3. admitted \in Surjection(1..Len(admitted), window)
    <3>1. admitted \in [1..Len(admitted) -> Keys]
      BY <2>1
    <3>2. admitted \in [1..Len(admitted) -> window]
      BY <3>1
    <3> QED BY <3>2 DEF Surjection
  <2> HIDE DEF window
  <2>4. IsFiniteSet(window) /\ Cardinality(window) <= Len(admitted)
    BY <2>2, <2>3, FS_Surjection
  <2>5. blockedByKey \in SUBSET window
    BY DEF CountsFit, window
  <2>6. /\ Cardinality(blockedByKey) <= Cardinality(window)
        /\ Cardinality(blockedByKey) \in Nat /\ Cardinality(window) \in Nat
    BY <2>4, <2>5, FS_Subset, FS_CardinalityType
  <2> QED BY <2>1, <2>4, <2>6
<1>3. Init /\ [][Next]_vars /\ []IInv /\ []BreakerInv => []CountsFit
  BY <1>1, CountsStep, PTL
<1> QED BY <1>2, <1>3, Invariance, GuardInvariance, PTL DEF Spec

(* Every variable of an attempt's edits keeps its type.                    *)
THEOREM TypeCorrect == Spec => []TypeOK
<1>1. IInv /\ BreakerInv => TypeOK
  <2> SUFFICES ASSUME IInv, BreakerInv PROVE TypeOK
    OBVIOUS
  <2>1. \A i \in DOMAIN admitted : admitted[i][1] \in Calls
    <3> SUFFICES ASSUME NEW i \in DOMAIN admitted PROVE admitted[i][1] \in Calls
      OBVIOUS
    <3>1. admitted[i] \in Keys
      BY ElementOfSeq, LenProperties DEF BreakerInv, WindowFits
    <3> QED BY <3>1 DEF Keys
  <2> QED BY <2>1 DEF IInv, DataTypes, BreakerInv, WindowFits, StreakFits, TypeOK
<1> QED BY <1>1, Invariance, GuardInvariance, PTL

=============================================================================
