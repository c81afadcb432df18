-------------------------- MODULE ProvisioningProofs --------------------------
(***************************************************************************)
(* For any number of provisioners, operations, stages and crashes: ready   *)
(* is true, and while claims suffice (module Provisioning) no operation    *)
(* has two workers and nothing that was reached is undone.                 *)
(***************************************************************************)
EXTENDS Provisioning, TLAPS

------------------------------------------------------------------------------
(* What the helpers return *)

LEMMA FirstIsUnique ==
  ASSUME NEW S \in SUBSET Op, NEW o, NEW p, First(o, S), First(p, S)
  PROVE  o = p /\ o \in Op
  BY ProvisioningAssumption DEF First

LEMMA WrittenIsARow ==
  ASSUME TypeOK, NEW w \in Worker, NEW o \in Op
  PROVE  /\ Written(w, o) \in Row
         /\ Stamped(w, o) \in Row
         /\ Written(w, o).state \in {row[o].state, ends[w][o]}
         /\ Written(w, o).state = row[o].state => Written(w, o).step \in {0, row[o].step}
<1>1. /\ row[o] \in Row /\ ends[w][o] \in {"none"} \cup Ended
      /\ draft[o].age \in Age /\ stage[w] \in Stages
  BY DEF TypeOK
<1>2. /\ Stages \subseteq 0..Last /\ 0 \in 0..Last /\ 0 \in Age
  BY ProvisioningAssumption DEF Stages, Age
<1>3. CASE ends[w][o] # "none"
  BY <1>1, <1>2, <1>3 DEF Written, Stamped, Fresh, Row, States, Ended
<1>4. CASE ends[w][o] = "none" /\ draft[o].by = w
  BY <1>1, <1>2, <1>4 DEF Written, Stamped, Row, States, Ended
<1>5. CASE ends[w][o] = "none" /\ draft[o].by # w
  BY <1>1, <1>2, <1>5 DEF Written, Stamped, Row, States, Ended
<1>6. QED  BY <1>3, <1>4, <1>5

LEMMA UnlockedIsADraft ==
  ASSUME TypeOK, NEW w \in Worker
  PROVE  Unlocked(w) \in [Op -> [by: Worker \cup {NoWorker}, age: Age]]
  BY ProvisioningAssumption DEF TypeOK, Unlocked, NoDraft, Age

LEMMA CloseIsTyped ==
  ASSUME TypeOK, NEW w \in Worker, NEW o \in Op,
         NEW ended \in [Op -> {"none"} \cup Ended], NEW how \in Ended,
         Close(w, o, ended, how)
  PROVE  /\ ends' \in [Worker -> [Op -> {"none"} \cup Ended]]
         /\ todo' \in [Worker -> SUBSET Op]
         /\ pc' \in [Worker -> {"idle", "claim", "next", "stage", "applied"}]
  BY DEF TypeOK, Close

LEMMA PublishIsTyped ==
  ASSUME TypeOK, NEW w \in Worker, NEW o \in Op, NEW done \in 0..Last,
         PublishStage(w, o, done)
  PROVE  /\ row' \in [Op -> Row]
         /\ checkpoint' \in [Op -> 0..Last]
         /\ draft' \in [Op -> [by: Worker \cup {NoWorker}, age: Age]]
<1>1. row' \in [Op -> Row]
  BY WrittenIsARow DEF PublishStage
<1>2. QED  BY <1>1, UnlockedIsADraft DEF PublishStage, TypeOK

------------------------------------------------------------------------------
(* Type correctness *)

LEMMA InitInv == Init => IInv
<1> SUFFICES ASSUME Init PROVE IInv
  OBVIOUS
<1> USE ProvisioningAssumption
<1>a. /\ 0 \in Age /\ 0 \in 0..Last /\ 1 \in Stages /\ 0 \in 0..StageTime
      /\ 0 \in 0..MaxCrashes
  BY DEF Age, Stages
<1>b. row \in [Op -> Row] /\ draft \in [Op -> [by: Worker \cup {NoWorker}, age: Age]]
  BY <1>a DEF Init, Row, States, Fresh, NoDraft
<1>1. TypeOK
  BY <1>a, <1>b DEF Init, TypeOK, Ended, NoEnds
<1>2. BeliefsAreTrue
  BY DEF Init, BeliefsAreTrue, Upto, Fresh
<1>3. WorkersAreRight
  BY DEF Init, WorkersAreRight, AtWork, NoEnds
<1>4. HandsAreClean
  BY DEF Init, HandsAreClean, NoDraft, Fresh
<1>5. HandsAreApart
  BY DEF Init, HandsAreApart, InHand, NoEnds
<1>6. QED  BY <1>1, <1>2, <1>3, <1>4, <1>5 DEF IInv

LEMMA TypeStep == TypeOK /\ BeliefsAreTrue /\ [Next]_vars => TypeOK'
<1> SUFFICES ASSUME TypeOK, BeliefsAreTrue, Next PROVE TypeOK'
  BY DEF TypeOK, vars, workVars
<1> USE DEF workVars
<1>a. /\ Stages \subseteq 0..Last /\ 0 \in 0..Last /\ 0 \in Age /\ 0 \in 0..StageTime
      /\ Last \in Stages /\ {"ready", "failed"} \subseteq Ended
      /\ NoEnds \in [Op -> {"none"} \cup Ended]
  BY ProvisioningAssumption DEF Stages, Age, NoEnds, Ended
<1>1. ASSUME NEW o \in Op, Submit(o) PROVE TypeOK'
  BY <1>1, <1>a DEF TypeOK, Submit, Fresh, Row, States
<1>2. ASSUME NEW w \in Worker, Poll(w) PROVE TypeOK'
  BY <1>2 DEF TypeOK, Poll
<1>3. ASSUME NEW w \in Worker, NEW o \in Op, ClaimRow(w, o) PROVE TypeOK'
  BY <1>3, <1>a DEF TypeOK, ClaimRow, Looked
<1>4. ASSUME NEW w \in Worker, NEW o \in Op, SkipRow(w, o) PROVE TypeOK'
  BY <1>4 DEF TypeOK, SkipRow, Looked
<1>5. ASSUME NEW w \in Worker, NEW o \in Op, Begin(w, o) PROVE TypeOK'
  <2>1. ResumeStage(o) \in Stages
    <3>1. checkpoint[o] \in 0..Last
      BY DEF TypeOK
    <3>2. row[o].state = "staged" => row[o].step \in Stages
      BY DEF BeliefsAreTrue
    <3>3. QED
      BY <1>5, <3>1, <3>2, ProvisioningAssumption DEF Begin, ResumeStage, Stages
  <2>2. QED  BY <1>5, <2>1, <1>a DEF TypeOK, Begin
<1>6. ASSUME NEW w \in Worker, NEW o \in Op, BeginDone(w, o) PROVE TypeOK'
  <2>1. ends[w] \in [Op -> {"none"} \cup Ended]
    BY DEF TypeOK
  <2>2. QED  BY <1>6, <1>a, <2>1, CloseIsTyped DEF TypeOK, BeginDone
<1>7. ASSUME NEW w \in Worker, NEW o \in Op, Apply(w, o) PROVE TypeOK'
  BY <1>7 DEF TypeOK, Apply
<1>8. ASSUME NEW w \in Worker, NEW o \in Op, CommitStage(w, o) PROVE TypeOK'
  <2>1. stage[w] \in 0..Last /\ stage[w] + 1 \in Stages
    BY <1>8, ProvisioningAssumption DEF TypeOK, CommitStage, Stages
  <2>2. QED  BY <1>8, <1>a, <2>1, PublishIsTyped DEF TypeOK, CommitStage
<1>9. ASSUME NEW w \in Worker, NEW o \in Op, CommitLast(w, o) PROVE TypeOK'
  <2>1. Last \in 0..Last
    BY ProvisioningAssumption
  <2>2. QED  BY <1>9, <1>a, <2>1, PublishIsTyped, CloseIsTyped DEF TypeOK, CommitLast
<1>10. ASSUME NEW w \in Worker, NEW o \in Op, RejectStage(w, o) PROVE TypeOK'
  <2>1. last[w] \in 0..Last
    BY DEF TypeOK
  <2>2. QED  BY <1>10, <1>a, <2>1, PublishIsTyped, CloseIsTyped DEF TypeOK, RejectStage
<1>11. ASSUME NEW w \in Worker, NEW o \in Op, Raise(w, o) PROVE TypeOK'
  <2>1. ends[w] \in [Op -> {"none"} \cup Ended]
    BY DEF TypeOK
  <2>2. QED  BY <1>11, <1>a, <2>1, CloseIsTyped DEF TypeOK, Raise
<1>12. ASSUME NEW w \in Worker, FinishPass(w) PROVE TypeOK'
  <2>1. row' \in [Op -> Row]
    BY <1>12, WrittenIsARow DEF FinishPass
  <2>2. QED  BY <1>12, <1>a, <2>1, UnlockedIsADraft DEF TypeOK, FinishPass
<1>13. ASSUME NEW w \in Worker, Crash(w) PROVE TypeOK'
  <2>1. crashes' \in 0..MaxCrashes
    BY <1>13, ProvisioningAssumption DEF TypeOK, Crash
  <2>2. QED  BY <1>13, <1>a, <2>1, UnlockedIsADraft DEF TypeOK, Crash
<1>14. CASE Tick
  <2>1. \A a \in Age : Older(a) \in Age
    BY ProvisioningAssumption DEF Age, Older
  <2>2. row' \in [Op -> Row]
    BY <1>14, <2>1 DEF TypeOK, Tick, Row
  <2>3. draft' \in [Op -> [by: Worker \cup {NoWorker}, age: Age]]
    BY <1>14, <2>1 DEF TypeOK, Tick
  <2>4. elapsed' \in [Worker -> 0..StageTime]
    <3>1. ASSUME NEW w \in Worker, pc[w] = "stage" PROVE elapsed[w] + 1 \in 0..StageTime
      <4>1. MayWait(w) /\ elapsed[w] \in 0..StageTime
        BY <1>14, <3>1 DEF TypeOK, Tick
      <4>2. elapsed[w] < StageTime
        BY <3>1, <4>1 DEF MayWait
      <4>3. QED  BY <4>1, <4>2, ProvisioningAssumption
    <3>2. QED  BY <1>14, <3>1 DEF TypeOK, Tick
  <2>5. QED  BY <1>14, <2>2, <2>3, <2>4 DEF TypeOK, Tick
<1>15. QED
  BY <1>1, <1>2, <1>3, <1>4, <1>5, <1>6, <1>7, <1>8, <1>9, <1>10, <1>11, <1>12,
     <1>13, <1>14
  DEF Next, Step, Work

------------------------------------------------------------------------------
(* Whose step it is *)

Local(w) ==
  \A v \in Worker \ {w} :
    /\ pc'[v] = pc[v] /\ todo'[v] = todo[v] /\ ends'[v] = ends[v]
    /\ stage'[v] = stage[v] /\ last'[v] = last[v] /\ elapsed'[v] = elapsed[v]

LEMMA WorkIsLocal ==
  ASSUME TypeOK, NEW w \in Worker, NEW o \in Op, Work(w, o)
  PROVE  Local(w) /\ \A p \in Op : built[p] \subseteq built'[p]
<1> USE DEF workVars, TypeOK, Local
<1>1. CASE ClaimRow(w, o)
  BY <1>1 DEF ClaimRow, Looked
<1>2. CASE SkipRow(w, o)
  BY <1>2 DEF SkipRow, Looked
<1>3. CASE Begin(w, o)
  BY <1>3 DEF Begin
<1>4. CASE BeginDone(w, o)
  BY <1>4 DEF BeginDone, Close
<1>5. CASE Apply(w, o)
  BY <1>5 DEF Apply
<1>6. CASE CommitStage(w, o)
  BY <1>6 DEF CommitStage
<1>7. CASE CommitLast(w, o)
  BY <1>7 DEF CommitLast, Close
<1>8. CASE RejectStage(w, o)
  BY <1>8 DEF RejectStage, Close
<1>9. CASE Raise(w, o)
  BY <1>9 DEF Raise, Close
<1>10. QED
  BY <1>1, <1>2, <1>3, <1>4, <1>5, <1>6, <1>7, <1>8, <1>9 DEF Work

LEMMA StepIsLocal ==
  ASSUME TypeOK, NEW w \in Worker, Step(w) \/ Crash(w)
  PROVE  Local(w) /\ \A p \in Op : built[p] \subseteq built'[p]
<1>1. CASE Poll(w)
  BY <1>1 DEF Poll, workVars, Local
<1>2. CASE FinishPass(w)
  BY <1>2 DEF FinishPass, workVars, Local
<1>3. CASE Crash(w)
  BY <1>3 DEF Crash, workVars, Local
<1>4. QED  BY <1>1, <1>2, <1>3, WorkIsLocal DEF Step

------------------------------------------------------------------------------
(* What is believed to be built is built *)

Known(r, b) ==
  /\ r.state = "staged" => r.step \in Stages /\ Upto(r.step - 1) \subseteq b
  /\ r.state = "ready" => Stages \subseteq b

Believed(r, c, b) ==
  /\ \A s \in b : Upto(s) \subseteq b
  /\ Upto(c) \subseteq b
  /\ Known(r, b)

LEMMA BeliefsAreBelieved ==
  BeliefsAreTrue <=> \A o \in Op : Believed(row[o], checkpoint[o], built[o])
  BY DEF BeliefsAreTrue, Believed, Known

LEMMA WrittenIsKnown ==
  ASSUME IInv, NEW w \in Worker, NEW o \in Op
  PROVE  Known(Written(w, o), built[o])
<1>1. Known(row[o], built[o])
  BY DEF IInv, BeliefsAreTrue, Known
<1>2. CASE ends[w][o] # "none"
  <2>1. ends[w][o] \in Ended /\ (ends[w][o] = "ready" => Stages \subseteq built[o])
    BY <1>2 DEF IInv, TypeOK, WorkersAreRight
  <2>2. QED  BY <1>2, <2>1 DEF Written, Fresh, Known, Ended
<1>3. CASE ends[w][o] = "none" /\ draft[o].by = w
  BY <1>1, <1>3 DEF Written, Known
<1>4. CASE ends[w][o] = "none" /\ draft[o].by # w
  BY <1>1, <1>4 DEF Written
<1>5. QED  BY <1>2, <1>3, <1>4

LEMMA UptoNext ==
  ASSUME NEW s \in Stages
  PROVE  /\ Upto(s) = Upto(s - 1) \cup {s}
         /\ s < Last => s + 1 \in Stages /\ Upto((s + 1) - 1) = Upto(s)
         /\ Upto(Last) = Stages
  BY ProvisioningAssumption DEF Stages, Upto

\* A commit publishes nothing but the truth, if the stage was reached and
\* the checkpoint holds.
LEMMA PublishIsBelieved ==
  ASSUME IInv, NEW w \in Worker, NEW o \in Op, NEW done \in 0..Last,
         PublishStage(w, o, done), built' = built,
         Upto(stage[w] - 1) \subseteq built[o], Upto(done) \subseteq built[o]
  PROVE  BeliefsAreTrue'
<1> SUFFICES ASSUME NEW p \in Op
             PROVE  Believed(row'[p], checkpoint'[p], built'[p])
  BY DEF BeliefsAreTrue, Believed, Known
<1>1. Believed(row[p], checkpoint[p], built[p])
  BY DEF IInv, BeliefsAreTrue, Believed, Known
<1>2. CASE p = o
  <2>1. row'[o] = Stamped(w, o) /\ checkpoint'[o] = done
    BY DEF PublishStage, IInv, TypeOK
  <2>2. Known(Stamped(w, o), built[o])
    BY DEF Stamped, Known, IInv, TypeOK
  <2>3. QED  BY <1>1, <1>2, <2>1, <2>2 DEF Believed
<1>3. CASE p # o
  <2>1. row'[p] = Written(w, p) /\ checkpoint'[p] = checkpoint[p]
    BY <1>3 DEF PublishStage, IInv, TypeOK
  <2>2. QED  BY <1>1, <2>1, WrittenIsKnown DEF Believed
<1>4. QED  BY <1>2, <1>3

LEMMA BeliefStep == IInv /\ [Next]_vars => BeliefsAreTrue'
<1> SUFFICES ASSUME IInv, Next PROVE BeliefsAreTrue'
  BY DEF IInv, BeliefsAreTrue, vars
<1>1. ASSUME NEW o \in Op, Submit(o) PROVE BeliefsAreTrue'
  BY <1>1 DEF Submit, Fresh, IInv, TypeOK, BeliefsAreTrue
<1>2. ASSUME UNCHANGED <<row, checkpoint, built>> PROVE BeliefsAreTrue'
  BY <1>2 DEF IInv, BeliefsAreTrue
<1>3. ASSUME NEW w \in Worker, NEW o \in Op, Apply(w, o) PROVE BeliefsAreTrue'
  <2>1. /\ stage[w] \in Stages /\ Upto(stage[w] - 1) \subseteq built[o]
    BY <1>3 DEF Apply, IInv, TypeOK, WorkersAreRight, AtWork
  <2>2. Upto(stage[w]) \subseteq built'[o]
    BY <1>3, <2>1, UptoNext DEF Apply, IInv, TypeOK
  <2>3. QED  BY <1>3, <2>2 DEF Apply, IInv, TypeOK, BeliefsAreTrue
<1>4. ASSUME NEW w \in Worker, NEW o \in Op,
             CommitStage(w, o) \/ CommitLast(w, o) \/ RejectStage(w, o)
      PROVE  BeliefsAreTrue'
  <2>1. /\ AtWork(w, o) /\ stage[w] \in Stages /\ last[w] \in 0..Last
        /\ built' = built
    BY <1>4 DEF CommitStage, CommitLast, RejectStage, AtWork, IInv, TypeOK
  <2>2. Upto(stage[w] - 1) \subseteq built[o] /\ Upto(last[w]) \subseteq built[o]
    BY <2>1 DEF IInv, WorkersAreRight
  <2>3. CASE RejectStage(w, o)
    BY <2>1, <2>2, <2>3, PublishIsBelieved DEF RejectStage
  <2>4. CASE CommitStage(w, o) \/ CommitLast(w, o)
    <3>1. stage[w] \in built[o]
      BY <2>1, <2>4 DEF CommitStage, CommitLast, IInv, WorkersAreRight
    <3>2. Upto(stage[w]) \subseteq built[o] /\ stage[w] \in 0..Last
      BY <2>1, <2>2, <3>1, UptoNext, ProvisioningAssumption DEF Stages
    <3>3. PublishStage(w, o, stage[w])
      BY <2>4 DEF CommitStage, CommitLast
    <3>4. QED  BY <2>1, <2>2, <3>2, <3>3, PublishIsBelieved
  <2>5. QED  BY <1>4, <2>3, <2>4
<1>5. ASSUME NEW w \in Worker, FinishPass(w) PROVE BeliefsAreTrue'
  <2>1. \A o \in Op : Known(row'[o], built[o])
    BY <1>5, WrittenIsKnown DEF FinishPass
  <2>2. QED  BY <1>5, <2>1 DEF FinishPass, Known, IInv, BeliefsAreTrue
<1>6. CASE Tick
  <2>1. \A o \in Op : row'[o].state = row[o].state /\ row'[o].step = row[o].step
    BY <1>6 DEF Tick
  <2>2. QED  BY <1>6, <2>1 DEF Tick, IInv, BeliefsAreTrue
<1>7. ASSUME NEW w \in Worker,
             Poll(w) \/ Crash(w) \/ \E o \in Op :
                ClaimRow(w, o) \/ SkipRow(w, o) \/ Begin(w, o) \/ BeginDone(w, o)
                  \/ Raise(w, o)
      PROVE  UNCHANGED <<row, checkpoint, built>>
  BY <1>7 DEF Poll, Crash, ClaimRow, SkipRow, Begin, BeginDone, Raise
<1>8. QED
  BY <1>1, <1>2, <1>3, <1>4, <1>5, <1>6, <1>7 DEF Next, Step, Work

------------------------------------------------------------------------------
(* What the workers take to be built is built *)

Right(w, o) ==
  /\ AtWork(w, o) => /\ Upto(stage[w] - 1) \subseteq built[o]
                     /\ Upto(last[w]) \subseteq built[o]
                     /\ pc[w] = "applied" => stage[w] \in built[o]
  /\ ends[w][o] = "ready" => Stages \subseteq built[o]

LEMMA RightElsewhere ==
  ASSUME IInv, NEW w \in Worker, Local(w), NEW v \in Worker \ {w}, NEW p \in Op,
         built[p] \subseteq built'[p]
  PROVE  Right(v, p)'
  BY DEF IInv, WorkersAreRight, Right, AtWork, Local

\* An operation is closed as ready only when it is built.
LEMMA RightClosed ==
  ASSUME IInv, NEW w \in Worker, NEW o \in Op, NEW p \in Op, NEW how \in Ended,
         NEW ended \in {NoEnds, ends[w]}, Close(w, o, ended, how),
         built' = built, how = "ready" => Stages \subseteq built[o]
  PROVE  Right(w, p)'
<1>1. pc'[w] = "next"
  BY DEF Close, IInv, TypeOK
<1>2. ends'[w] = [ended EXCEPT ![o] = how]
  BY DEF Close, IInv, TypeOK
<1>3. ended[p] = "ready" => Stages \subseteq built[p]
  BY DEF IInv, WorkersAreRight, NoEnds
<1>4. ended \in [Op -> {"none"} \cup Ended]
  BY DEF IInv, TypeOK, NoEnds
<1>5. ends'[w][p] = "ready" => Stages \subseteq built'[p]
  BY <1>2, <1>3, <1>4
<1>6. QED  BY <1>1, <1>5 DEF Right, AtWork

LEMMA RightWork ==
  ASSUME IInv, NEW w \in Worker, NEW o \in Op, Work(w, o), NEW p \in Op
  PROVE  Right(w, p)'
<1>a. /\ stage[w] \in Stages /\ ends[w] \in {NoEnds, ends[w]}
      /\ "ready" \in Ended /\ "failed" \in Ended
  BY DEF IInv, TypeOK, Ended
<1>b. Right(w, o) /\ Right(w, p)
  BY DEF IInv, WorkersAreRight, Right
<1>1. CASE ClaimRow(w, o) \/ SkipRow(w, o)
  <2>1. pc'[w] \notin {"stage", "applied"} /\ ends' = ends /\ built' = built
    BY <1>1 DEF ClaimRow, SkipRow, Looked, IInv, TypeOK
  <2>2. QED  BY <1>b, <2>1 DEF Right, AtWork
<1>2. CASE Begin(w, o)
  <2>1. Upto(ResumeStage(o) - 1) \subseteq built[o] /\ Upto(checkpoint[o]) \subseteq built[o]
    <3>1. /\ checkpoint[o] \in 0..Last /\ Upto(checkpoint[o]) \subseteq built[o]
          /\ row[o].state = "staged" => /\ row[o].step \in Stages
                                        /\ Upto(row[o].step - 1) \subseteq built[o]
      BY DEF IInv, TypeOK, BeliefsAreTrue
    <3>2. (checkpoint[o] + 1) - 1 = checkpoint[o] /\ Upto(1 - 1) = {}
      BY <3>1, ProvisioningAssumption DEF Upto
    <3>3. QED  BY <3>1, <3>2 DEF ResumeStage
  <2>2. /\ pc'[w] = "stage" /\ stage'[w] = ResumeStage(o) /\ last'[w] = checkpoint[o]
        /\ todo' = todo /\ ends' = ends /\ built' = built
    BY <1>2 DEF Begin, IInv, TypeOK
  <2>3. AtWork(w, p)' => p = o
    BY <1>2, <2>2, FirstIsUnique DEF Begin, AtWork, IInv, TypeOK
  <2>4. QED  BY <1>b, <2>1, <2>2, <2>3 DEF Right
<1>3. CASE BeginDone(w, o)
  <2>1. /\ checkpoint[o] \in 0..Last /\ Upto(checkpoint[o]) \subseteq built[o]
        /\ row[o].state = "staged" => row[o].step \in Stages
    BY DEF IInv, TypeOK, BeliefsAreTrue
  <2>2. checkpoint[o] = Last
    BY <1>3, <2>1, ProvisioningAssumption DEF BeginDone, ResumeStage, Stages
  <2>3. Stages \subseteq built[o]
    BY <2>1, <2>2 DEF Upto, Stages
  <2>4. QED  BY <1>3, <1>a, <2>3, RightClosed DEF BeginDone
<1>4. CASE Apply(w, o)
  <2>1. /\ pc'[w] = "applied" /\ todo' = todo /\ stage' = stage /\ last' = last
        /\ ends' = ends /\ built'[o] = built[o] \cup {stage[w]}
        /\ built[p] \subseteq built'[p] /\ pc[w] = "stage"
    BY <1>4 DEF Apply, workVars, IInv, TypeOK
  <2>2. AtWork(w, p)' => p = o
    BY <1>4, <2>1, FirstIsUnique DEF Apply, AtWork, IInv, TypeOK
  <2>3. AtWork(w, o)
    BY <1>4 DEF Apply, AtWork
  <2>4. QED  BY <1>b, <2>1, <2>2, <2>3 DEF Right
<1>5. CASE CommitStage(w, o)
  <2>1. /\ pc'[w] = "stage" /\ todo' = todo /\ stage'[w] = stage[w] + 1
        /\ last'[w] = stage[w] /\ built' = built /\ ends'[w] = NoEnds
    BY <1>5 DEF CommitStage, IInv, TypeOK
  <2>2. AtWork(w, p)' => p = o
    BY <1>5, <2>1, FirstIsUnique DEF CommitStage, AtWork, IInv, TypeOK
  <2>3. AtWork(w, o) /\ pc[w] = "applied"
    BY <1>5 DEF CommitStage, AtWork
  <2>4. Upto(stage[w]) \subseteq built[o] /\ (stage[w] + 1) - 1 = stage[w]
    BY <1>a, <1>b, <2>3, UptoNext, ProvisioningAssumption DEF Right, Stages
  <2>5. QED  BY <2>1, <2>2, <2>4 DEF Right, NoEnds
<1>6. CASE CommitLast(w, o)
  <2>1. AtWork(w, o) /\ pc[w] = "applied" /\ stage[w] = Last
    BY <1>6 DEF CommitLast, AtWork
  <2>2. Stages \subseteq built[o]
    BY <1>a, <1>b, <2>1, UptoNext DEF Right
  <2>3. QED  BY <1>6, <1>a, <2>2, RightClosed DEF CommitLast
<1>7. CASE RejectStage(w, o)
  BY <1>7, <1>a, RightClosed DEF RejectStage
<1>8. CASE Raise(w, o)
  BY <1>8, <1>a, RightClosed DEF Raise
<1>9. QED
  BY <1>1, <1>2, <1>3, <1>4, <1>5, <1>6, <1>7, <1>8 DEF Work

LEMMA RightStep == IInv /\ [Next]_vars => WorkersAreRight'
<1> SUFFICES ASSUME IInv, Next, NEW v \in Worker, NEW p \in Op PROVE Right(v, p)'
  BY DEF IInv, WorkersAreRight, Right, AtWork, vars, workVars
<1>a. Right(v, p)
  BY DEF IInv, WorkersAreRight, Right
<1>1. CASE Tick \/ \E o \in Op : Submit(o)
  BY <1>1, <1>a DEF Tick, Submit, workVars, Right, AtWork
<1>2. ASSUME NEW w \in Worker, Step(w) \/ Crash(w) PROVE Right(v, p)'
  <2>1. Local(w) /\ built[p] \subseteq built'[p]
    BY <1>2, StepIsLocal DEF IInv
  <2>2. CASE v # w
    BY <2>1, <2>2, RightElsewhere
  <2>3. CASE v = w /\ \E o \in Op : Work(w, o)
    BY <2>3, RightWork
  <2>4. CASE v = w /\ (Poll(w) \/ FinishPass(w) \/ Crash(w))
    <3>1. /\ pc'[w] \in {"idle", "claim"} /\ ends'[w] \in {NoEnds, ends[w]}
          /\ built' = built
      BY <2>4 DEF Poll, FinishPass, Crash, IInv, TypeOK
    <3>2. QED  BY <1>a, <2>4, <3>1 DEF Right, AtWork, NoEnds
  <2>5. QED  BY <1>2, <2>2, <2>3, <2>4 DEF Step
<1>3. QED  BY <1>1, <1>2 DEF Next

------------------------------------------------------------------------------
(* Clean hands *)

\* What a commit of w does to a row that another worker has drafted: nothing.
LEMMA DraftsAreSafe ==
  ASSUME TypeOK, NEW w \in Worker, NEW o \in Op,
         draft[o].by # NoWorker, draft[o].by # w
  PROVE  /\ \A p \in Op, done \in 0..Last : PublishStage(w, p, done) => row'[o] = row[o]
         /\ FinishPass(w) => row'[o] = row[o]
<1>1. ASSUME NEW ops, Touched(w) \subseteq ops, CanWrite(w, ops)
      PROVE  Written(w, o) = row[o] /\ o \notin ops
  BY <1>1 DEF CanWrite, Touched, Written
<1>2. ASSUME NEW p \in Op, NEW done \in 0..Last, PublishStage(w, p, done)
      PROVE  row'[o] = row[o]
  <2>1. CanWrite(w, Touched(w) \cup {p})
    BY <1>2 DEF PublishStage
  <2>2. Written(w, o) = row[o] /\ o \notin Touched(w) \cup {p}
    BY <1>1, <2>1
  <2>3. QED  BY <1>2, <2>2 DEF PublishStage
<1>3. ASSUME FinishPass(w) PROVE row'[o] = row[o]
  <2>1. CanWrite(w, Touched(w))
    BY <1>3 DEF FinishPass
  <2>2. Written(w, o) = row[o]
    BY <1>1, <2>1
  <2>3. QED  BY <1>3, <2>2 DEF FinishPass
<1>4. QED  BY <1>2, <1>3

LEMMA StageIsPublished ==
  ASSUME TypeOK, NEW w \in Worker, NEW o \in Op,
         CommitStage(w, o) \/ CommitLast(w, o) \/ RejectStage(w, o)
  PROVE  \E done \in {stage[w], last[w]} : done \in 0..Last /\ PublishStage(w, o, done)
<1>1. stage[w] \in 0..Last /\ last[w] \in 0..Last
  BY ProvisioningAssumption DEF TypeOK, Stages
<1>2. QED  BY <1>1 DEF CommitStage, CommitLast, RejectStage

LEMMA DraftsAreOpen ==
  ASSUME IInv, Next, NEW o \in Op, draft'[o].by # NoWorker
  PROVE  row'[o].state \in {"queued", "staged"}
<1>a. TypeOK /\ (draft[o].by # NoWorker => row[o].state \in {"queued", "staged"})
  BY DEF IInv, HandsAreClean
<1>1. ASSUME NEW p \in Op, Submit(p) PROVE row'[o].state \in {"queued", "staged"}
  BY <1>1, <1>a DEF Submit, TypeOK
<1>2. ASSUME NEW w \in Worker, NEW p \in Op, ClaimRow(w, p)
      PROVE  row'[o].state \in {"queued", "staged"}
  BY <1>2, <1>a DEF ClaimRow, Claimable, TypeOK
<1>3. ASSUME NEW w \in Worker, draft' = Unlocked(w)
      PROVE  draft[o].by # NoWorker /\ draft[o].by # w
  BY <1>3 DEF Unlocked, NoDraft
<1>4. ASSUME NEW w \in Worker, NEW p \in Op,
             CommitStage(w, p) \/ CommitLast(w, p) \/ RejectStage(w, p)
      PROVE  row'[o].state \in {"queued", "staged"}
  <2>1. PICK done \in 0..Last : PublishStage(w, p, done)
    BY <1>4, <1>a, StageIsPublished
  <2>2. draft[o].by # NoWorker /\ draft[o].by # w
    BY <2>1, <1>3 DEF PublishStage
  <2>3. QED  BY <2>1, <2>2, <1>a, DraftsAreSafe
<1>5. ASSUME NEW w \in Worker, FinishPass(w) PROVE row'[o].state \in {"queued", "staged"}
  <2>1. draft[o].by # NoWorker /\ draft[o].by # w
    BY <1>5, <1>3 DEF FinishPass
  <2>2. QED  BY <1>5, <2>1, <1>a, DraftsAreSafe
<1>6. ASSUME NEW w \in Worker, Crash(w) PROVE row'[o].state \in {"queued", "staged"}
  BY <1>6, <1>3, <1>a DEF Crash
<1>7. CASE Tick
  BY <1>7, <1>a DEF Tick
<1>8. ASSUME NEW w \in Worker,
             Poll(w) \/ \E p \in Op : SkipRow(w, p) \/ Begin(w, p) \/ BeginDone(w, p)
                                       \/ Apply(w, p) \/ Raise(w, p)
      PROVE  UNCHANGED <<row, draft>>
  BY <1>8 DEF Poll, SkipRow, Begin, BeginDone, Apply, Raise
<1>9. QED
  BY <1>1, <1>2, <1>4, <1>5, <1>6, <1>7, <1>8, <1>a DEF Next, Step, Work

LEMMA WrittenIsReleased ==
  ASSUME IInv, NEW w \in Worker, NEW o \in Op, Written(w, o).state \in Ended
  PROVE  Written(w, o).token = NoWorker
<1>1. /\ draft[o].by # NoWorker => row[o].state \in {"queued", "staged"}
      /\ row[o].state \in Ended => row[o].token = NoWorker
  BY DEF IInv, HandsAreClean
<1>2. QED  BY <1>1, ProvisioningAssumption DEF Written, Fresh, Ended

LEMMA EndedIsReleased ==
  ASSUME IInv, Next, NEW o \in Op, row'[o].state \in Ended
  PROVE  row'[o].token = NoWorker
<1>a. TypeOK /\ (row[o].state \in Ended => row[o].token = NoWorker)
  BY DEF IInv, HandsAreClean
<1>1. ASSUME NEW p \in Op, Submit(p) PROVE row'[o].token = NoWorker
  BY <1>1, <1>a DEF Submit, Fresh, TypeOK
<1>2. ASSUME NEW w \in Worker, NEW p \in Op,
             CommitStage(w, p) \/ CommitLast(w, p) \/ RejectStage(w, p)
      PROVE  row'[o].token = NoWorker
  <2>1. PICK done \in 0..Last : PublishStage(w, p, done)
    BY <1>2, <1>a, StageIsPublished
  <2>2. row'[o] = IF o = p THEN Stamped(w, p) ELSE Written(w, o)
    BY <2>1 DEF PublishStage
  <2>3. o # p
    BY <2>2 DEF Stamped, Ended
  <2>4. QED  BY <2>2, <2>3, WrittenIsReleased
<1>3. ASSUME NEW w \in Worker, FinishPass(w) PROVE row'[o].token = NoWorker
  <2>1. row'[o] = Written(w, o)
    BY <1>3 DEF FinishPass
  <2>2. QED  BY <2>1, WrittenIsReleased
<1>4. CASE Tick
  BY <1>4, <1>a DEF Tick
<1>5. ASSUME NEW w \in Worker,
             \/ Poll(w) \/ Crash(w)
             \/ \E p \in Op : ClaimRow(w, p) \/ SkipRow(w, p) \/ Begin(w, p)
                              \/ BeginDone(w, p) \/ Apply(w, p) \/ Raise(w, p)
      PROVE  UNCHANGED row
  BY <1>5 DEF Poll, Crash, ClaimRow, SkipRow, Begin, BeginDone, Apply, Raise
<1>6. QED
  BY <1>1, <1>2, <1>3, <1>4, <1>5, <1>a DEF Next, Step, Work

Clean(w) ==
  /\ pc[w] \in {"idle", "claim"} => ends[w] = NoEnds
  /\ pc[w] = "idle" => todo[w] = {}
  /\ \A o \in todo[w] : ends[w][o] = "none"

LEMMA CleanClosed ==
  ASSUME TypeOK, NEW w \in Worker, Clean(w), NEW o \in Op, NEW how \in Ended,
         NEW ended \in {NoEnds, ends[w]}, Close(w, o, ended, how)
  PROVE  Clean(w)'
<1>1. /\ pc'[w] = "next" /\ todo'[w] = todo[w] \ {o}
      /\ ends'[w] = [ended EXCEPT ![o] = how]
  BY DEF Close, TypeOK
<1>2. /\ ended \in [Op -> {"none"} \cup Ended] /\ todo[w] \subseteq Op
      /\ \A p \in todo[w] : ended[p] = "none"
  BY DEF TypeOK, NoEnds, Clean
<1>3. \A p \in todo'[w] : ends'[w][p] = "none"
  BY <1>1, <1>2
<1>4. QED  BY <1>1, <1>3 DEF Clean

LEMMA CleanStep == IInv /\ [Next]_vars => HandsAreClean'
<1> SUFFICES ASSUME IInv, Next PROVE HandsAreClean'
  BY DEF IInv, HandsAreClean, vars, workVars
<1> SUFFICES ASSUME NEW v \in Worker PROVE Clean(v)'
  BY DraftsAreOpen, EndedIsReleased DEF HandsAreClean, Clean
<1>a. TypeOK /\ Clean(v)
  BY DEF IInv, HandsAreClean, Clean
<1>1. CASE Tick \/ \E o \in Op : Submit(o)
  BY <1>1, <1>a DEF Tick, Submit, workVars, Clean
<1>2. ASSUME NEW w \in Worker, v # w, Step(w) \/ Crash(w) PROVE Clean(v)'
  BY <1>a, <1>2, StepIsLocal DEF Local, Clean
<1>3. CASE Poll(v)
  BY <1>3, <1>a DEF Poll, Clean, TypeOK
<1>4. CASE FinishPass(v) \/ Crash(v)
  BY <1>4, <1>a DEF FinishPass, Crash, workVars, Clean, TypeOK, NoEnds
<1>5. ASSUME NEW o \in Op, ClaimRow(v, o) \/ SkipRow(v, o) PROVE Clean(v)'
  <2>1. /\ ends' = ends /\ ends[v] = NoEnds /\ todo'[v] \subseteq Op
        /\ pc'[v] = "idle" => todo'[v] = {}
    BY <1>5, <1>a DEF ClaimRow, SkipRow, Looked, Clean, TypeOK
  <2>2. QED  BY <2>1 DEF Clean, NoEnds
<1>6. ASSUME NEW o \in Op, Begin(v, o) \/ Apply(v, o) PROVE Clean(v)'
  BY <1>6, <1>a DEF Begin, Apply, workVars, Clean, TypeOK
<1>7. ASSUME NEW o \in Op, CommitStage(v, o) PROVE Clean(v)'
  BY <1>7, <1>a DEF CommitStage, Clean, TypeOK, NoEnds
<1>8. ASSUME NEW o \in Op,
             BeginDone(v, o) \/ CommitLast(v, o) \/ RejectStage(v, o) \/ Raise(v, o)
      PROVE  Clean(v)'
  BY <1>8, <1>a, CleanClosed
  DEF BeginDone, CommitLast, RejectStage, Raise, Ended
<1>9. QED
  BY <1>1, <1>2, <1>3, <1>4, <1>5, <1>6, <1>7, <1>8 DEF Next, Step, Work

------------------------------------------------------------------------------
(* Hands apart *)

\* HandsAreApart for one worker and one operation in its hand.
Apart(w, o) ==
  /\ \A p \in Op : InHand(w, p) => p = o
  /\ row[o].state \in {"queued", "staged"}
  /\ Held(w, o)
  /\ AtWork(w, o) => last[w] = checkpoint[o] /\ checkpoint[o] < stage[w]

LEMMA ApartInHand ==
  ASSUME IInv, ClaimsSuffice, NEW w \in Worker, NEW o \in Op, InHand(w, o)
  PROVE  Apart(w, o)
  BY DEF IInv, HandsAreApart, Apart

LEMMA HeldByOne ==
  ASSUME IInv, ClaimsSuffice, NEW v \in Worker, NEW w \in Worker, NEW o \in Op,
         InHand(v, o), InHand(w, o)
  PROVE  v = w
  BY ApartInHand, ProvisioningAssumption DEF Apart, Held

\* An operation in hand is under a lock or a live claim of its own.
LEMMA HeldIsLive ==
  ASSUME IInv, ClaimsSuffice, NEW w \in Worker, NEW o \in Op, InHand(w, o)
  PROVE  /\ draft[o].by \in {w, NoWorker}
         /\ draft[o].by = NoWorker => ~Claimable(o)
         /\ draft[o].by = w \/ row[o].token = w
         /\ draft[o].by = w \/ row[o].age \in 0..StageTime
<1>1. Held(w, o) /\ row[o] \in Row /\ elapsed[w] \in 0..StageTime
  BY ApartInHand DEF Apart, IInv, TypeOK
<1>2. CASE draft[o].by = w
  BY <1>2, ProvisioningAssumption
<1>3. CASE draft[o].by # w
  <2>1. /\ draft[o].by = NoWorker /\ row[o].token = w /\ row[o].age \in Age
        /\ row[o].age <= IF pc[w] = "stage" THEN elapsed[w] ELSE StageTime
    BY <1>1, <1>3 DEF Held, Row
  <2>2. row[o].age \in 0..StageTime /\ ~(row[o].age > TTL)
    BY <1>1, <2>1, ProvisioningAssumption DEF Age, ClaimsSuffice
  <2>3. QED  BY <2>1, <2>2, ProvisioningAssumption DEF Claimable
<1>4. QED  BY <1>2, <1>3

\* A commit of w changes no row that another worker has in hand.
LEMMA CommitSpares ==
  ASSUME IInv, ClaimsSuffice, NEW w \in Worker, NEW v \in Worker \ {w}, NEW p \in Op,
         InHand(v, p)
  PROVE  Written(w, p) = row[p] /\ Unlocked(w)[p] = draft[p]
<1>1. ~InHand(w, p) /\ draft[p].by # w
  BY HeldByOne, HeldIsLive, ProvisioningAssumption
<1>2. QED  BY <1>1 DEF Written, Unlocked, InHand

LEMMA WorkSpares ==
  ASSUME IInv, ClaimsSuffice, NEW w \in Worker, NEW o \in Op, Work(w, o),
         NEW v \in Worker \ {w}, NEW p \in Op, InHand(v, p)
  PROVE  row'[p] = row[p] /\ draft'[p] = draft[p] /\ checkpoint'[p] = checkpoint[p]
<1>a. TypeOK
  BY DEF IInv
<1>1. CASE ClaimRow(w, o)
  <2>1. p # o
    BY <1>1, HeldIsLive DEF ClaimRow
  <2>2. QED  BY <1>1, <1>a, <2>1 DEF ClaimRow, TypeOK
<1>2. CASE CommitStage(w, o) \/ CommitLast(w, o) \/ RejectStage(w, o)
  <2>1. PICK done \in 0..Last : PublishStage(w, o, done)
    BY <1>2, <1>a, StageIsPublished
  <2>2. InHand(w, o)
    BY <1>2 DEF CommitStage, CommitLast, RejectStage, First, InHand
  <2>3. p # o
    BY <2>2, HeldByOne
  <2>4. QED  BY <1>a, <2>1, <2>3, CommitSpares DEF PublishStage, TypeOK
<1>3. CASE \/ SkipRow(w, o) \/ Begin(w, o) \/ BeginDone(w, o) \/ Apply(w, o)
           \/ Raise(w, o)
  BY <1>3 DEF SkipRow, Begin, BeginDone, Apply, Raise
<1>4. QED  BY <1>1, <1>2, <1>3 DEF Work

LEMMA StepSpares ==
  ASSUME IInv, ClaimsSuffice, NEW w \in Worker, Step(w) \/ Crash(w),
         NEW v \in Worker \ {w}, NEW p \in Op, InHand(v, p)
  PROVE  row'[p] = row[p] /\ draft'[p] = draft[p] /\ checkpoint'[p] = checkpoint[p]
<1>1. CASE Poll(w)
  BY <1>1 DEF Poll
<1>2. CASE FinishPass(w)
  BY <1>2, CommitSpares DEF FinishPass
<1>3. CASE Crash(w)
  BY <1>3, CommitSpares DEF Crash
<1>4. QED  BY <1>1, <1>2, <1>3, WorkSpares DEF Step

LEMMA ApartElsewhere ==
  ASSUME IInv, ClaimsSuffice, NEW w \in Worker, Step(w) \/ Crash(w),
         NEW v \in Worker \ {w}, NEW p \in Op, InHand(v, p)'
  PROVE  Apart(v, p)'
<1>1. Local(w)
  BY StepIsLocal DEF IInv
<1>2. InHand(v, p)
  BY <1>1 DEF Local, InHand
<1>3. /\ Apart(v, p)
      /\ row'[p] = row[p] /\ draft'[p] = draft[p] /\ checkpoint'[p] = checkpoint[p]
  BY <1>2, ApartInHand, StepSpares
<1>4. (\A q \in Op : InHand(v, q) => q = p)'
  BY <1>1, <1>3 DEF Local, InHand, Apart
<1>5. Held(v, p)'
  BY <1>1, <1>3 DEF Local, Held, Apart
<1>6. (AtWork(v, p) => last[v] = checkpoint[p] /\ checkpoint[p] < stage[v])'
  BY <1>1, <1>3 DEF Local, AtWork, Apart
<1>7. QED  BY <1>3, <1>4, <1>5, <1>6 DEF Apart

\* What a stage's commit leaves of the one operation that its worker holds.
LEMMA PublishedIsHeld ==
  ASSUME IInv, ClaimsSuffice, NEW w \in Worker, NEW o \in Op, NEW done \in 0..Last,
         AtWork(w, o), PublishStage(w, o, done)
  PROVE  /\ row'[o].state = "staged" /\ row'[o].token = w /\ row'[o].age = 0
         /\ draft'[o].by = NoWorker
         /\ checkpoint'[o] = done
<1>1. o \in todo[w] /\ ends[w][o] = "none" /\ InHand(w, o)
  BY DEF AtWork, First, InHand, IInv, HandsAreClean
<1>2. Written(w, o).token = w
  BY <1>1, HeldIsLive DEF Written
<1>3. draft[o].by \in {w, NoWorker}
  BY <1>1, HeldIsLive
<1>4. row'[o] = Stamped(w, o) /\ checkpoint'[o] = done
  BY DEF PublishStage, IInv, TypeOK
<1>5. draft'[o].by = NoWorker
  BY <1>3 DEF PublishStage, Unlocked, NoDraft
<1>6. QED  BY <1>2, <1>4, <1>5 DEF Stamped

\* What closing its one operation leaves in the hand of a worker.
LEMMA ClosedIsAlone ==
  ASSUME IInv, ClaimsSuffice, NEW w \in Worker, NEW o \in Op, o \in todo[w],
         NEW how \in Ended, NEW ended \in {NoEnds, ends[w]}, Close(w, o, ended, how),
         NEW p \in Op, InHand(w, p)'
  PROVE  /\ p = o
         /\ \A q \in Op : InHand(w, q)' => q = o
         /\ pc'[w] = "next" /\ o \notin todo'[w]
         /\ ~AtWork(w, o)'
<1>1. \A q \in Op : InHand(w, q) => q = o
  BY ApartInHand DEF Apart, InHand
<1>2. /\ pc'[w] = "next" /\ todo'[w] = todo[w] \ {o}
      /\ ends'[w] = [ended EXCEPT ![o] = how]
      /\ ended \in [Op -> {"none"} \cup Ended]
  BY DEF Close, IInv, TypeOK, NoEnds
<1>3. \A q \in Op : InHand(w, q)' => q = o
  BY <1>1, <1>2 DEF InHand, NoEnds
<1>4. QED  BY <1>2, <1>3 DEF AtWork

LEMMA ApartOwn ==
  ASSUME IInv, ClaimsSuffice', ClaimsSuffice, NEW w \in Worker, NEW o \in Op,
         Work(w, o), NEW p \in Op, InHand(w, p)'
  PROVE  Apart(w, p)'
<1>a. /\ TypeOK /\ Clean(w) /\ stage[w] \in Stages /\ "ready" \in Ended
      /\ "failed" \in Ended /\ StageTime \in Nat
  BY ProvisioningAssumption DEF IInv, HandsAreClean, Clean, TypeOK, Ended
<1>b. o \in todo[w] => InHand(w, o) /\ Apart(w, o)
  BY ApartInHand DEF InHand
<1>1. CASE ClaimRow(w, o)
  <2>1. /\ todo[w] = {} /\ ends' = ends /\ ends[w] = NoEnds /\ todo'[w] = {o}
        /\ pc'[w] \in {"claim", "next", "idle"} /\ row' = row /\ Claimable(o)
        /\ draft'[o].by = w
    BY <1>1, <1>a DEF ClaimRow, Looked, ClaimsSuffice, Clean, TypeOK
  <2>2. \A q \in Op : InHand(w, q)' => q = o
    BY <2>1 DEF InHand, NoEnds
  <2>3. Held(w, o)' /\ ~AtWork(w, o)'
    BY <2>1 DEF Held, AtWork
  <2>4. QED  BY <2>1, <2>2, <2>3 DEF Apart, Claimable
<1>2. CASE SkipRow(w, o)
  <2>1. /\ pc[w] = "claim" /\ ends[w] = NoEnds /\ UNCHANGED <<todo, ends, row, draft>>
        /\ pc'[w] \in {"claim", "next", "idle"}
    BY <1>2, <1>a DEF SkipRow, Looked, Clean, TypeOK
  <2>2. InHand(w, p) /\ Apart(w, p) /\ p \in todo[w]
    BY <2>1, ApartInHand DEF InHand, NoEnds
  <2>3. draft[p].by = w
    BY <2>1, <2>2 DEF Apart, Held
  <2>4. QED  BY <2>1, <2>2, <2>3 DEF Apart, Held, AtWork, InHand
<1>3. CASE Begin(w, o)
  <2>1. /\ pc[w] = "next" /\ First(o, todo[w]) /\ UNCHANGED <<todo, ends, row, draft, checkpoint>>
        /\ pc'[w] = "stage" /\ last'[w] = checkpoint[o] /\ stage'[w] = ResumeStage(o)
    BY <1>3, <1>a DEF Begin, TypeOK
  <2>2. InHand(w, p) /\ Apart(w, o) /\ p = o /\ o \in todo[w]
    BY <2>1, <1>b, ApartInHand DEF InHand, First, Apart
  <2>3. draft[o].by = w
    BY <2>1, <2>2 DEF Apart, Held
  <2>4. checkpoint[o] < ResumeStage(o)
    <3>1. checkpoint[o] \in 0..Last
      BY <1>a DEF TypeOK
    <3>2. row[o].state = "staged" => row[o].step \in Stages
      BY DEF IInv, BeliefsAreTrue
    <3>3. QED  BY <3>1, <3>2, ProvisioningAssumption DEF ResumeStage, Stages
  <2>5. QED  BY <2>1, <2>2, <2>3, <2>4 DEF Apart, Held, InHand
<1>4. CASE BeginDone(w, o) \/ (Raise(w, o) /\ pc[w] = "next")
  <2>1. /\ \E how \in Ended : Close(w, o, ends[w], how)
        /\ pc[w] = "next" /\ o \in todo[w] /\ UNCHANGED <<row, draft>>
    BY <1>4, <1>a DEF BeginDone, Raise, First
  <2>2. p = o /\ (\A q \in Op : InHand(w, q)' => q = o) /\ ~AtWork(w, o)'
    BY <2>1, ClosedIsAlone
  <2>3. draft[o].by = w
    BY <2>1, <1>b DEF Apart, Held
  <2>4. QED  BY <2>1, <2>2, <2>3, <1>b DEF Apart, Held
<1>5. CASE Raise(w, o) /\ pc[w] \in {"stage", "applied"}
  <2>1. /\ \E how \in Ended : Close(w, o, ends[w], how)
        /\ o \in todo[w] /\ UNCHANGED <<row, draft>>
    BY <1>5, <1>a DEF Raise, First
  <2>2. p = o /\ (\A q \in Op : InHand(w, q)' => q = o) /\ ~AtWork(w, o)'
        /\ pc'[w] = "next" /\ o \notin todo'[w]
    BY <2>1, ClosedIsAlone
  <2>3. \/ draft[o].by = w
        \/ draft[o].by = NoWorker /\ row[o].token = w /\ row[o].age \in 0..StageTime
    BY <2>1, <1>b, HeldIsLive
  <2>4. Held(w, o)'
    BY <1>a, <2>1, <2>2, <2>3 DEF Held
  <2>5. QED  BY <2>1, <2>2, <2>4, <1>b DEF Apart
<1>6. CASE Apply(w, o)
  <2>1. /\ pc[w] = "stage" /\ First(o, todo[w]) /\ pc'[w] = "applied"
        /\ UNCHANGED <<todo, ends, row, draft, checkpoint, stage, last>>
    BY <1>6, <1>a DEF Apply, workVars, TypeOK
  <2>2. InHand(w, p) /\ Apart(w, o) /\ p = o
    BY <2>1, <1>b, ApartInHand DEF InHand, First, Apart
  <2>3. \/ draft[o].by = w
        \/ draft[o].by = NoWorker /\ row[o].token = w /\ row[o].age \in 0..StageTime
    BY <2>2, HeldIsLive
  <2>4. Held(w, o)'
    BY <1>a, <2>1, <2>3 DEF Held
  <2>5. AtWork(w, o)
    BY <2>1 DEF AtWork
  <2>6. QED  BY <2>1, <2>2, <2>4, <2>5 DEF Apart, InHand
<1>7. CASE CommitStage(w, o)
  <2>1. /\ AtWork(w, o) /\ o \in todo[w] /\ PublishStage(w, o, stage[w])
        /\ pc'[w] = "stage" /\ todo' = todo /\ ends'[w] = NoEnds
        /\ last'[w] = stage[w] /\ stage'[w] = stage[w] + 1 /\ elapsed'[w] = 0
    BY <1>7, <1>a DEF CommitStage, AtWork, First, TypeOK
  <2>2. \A q \in Op : InHand(w, q)' => q = o
    BY <2>1, <1>b DEF InHand, NoEnds, Apart
  <2>3. /\ row'[o].state = "staged" /\ row'[o].token = w /\ row'[o].age = 0
        /\ draft'[o].by = NoWorker /\ checkpoint'[o] = stage[w]
    BY <1>a, <2>1, PublishedIsHeld, ProvisioningAssumption DEF Stages
  <2>4. stage[w] < stage[w] + 1
    BY <1>a, ProvisioningAssumption DEF Stages
  <2>5. Held(w, o)'
    BY <2>1, <2>3 DEF Held
  <2>6. QED  BY <2>1, <2>2, <2>3, <2>4, <2>5 DEF Apart
<1>8. CASE CommitLast(w, o) \/ RejectStage(w, o)
  <2>1. /\ AtWork(w, o) /\ o \in todo[w]
        /\ \E how \in Ended : Close(w, o, NoEnds, how)
    BY <1>8, <1>a DEF CommitLast, RejectStage, AtWork, First
  <2>2. p = o /\ (\A q \in Op : InHand(w, q)' => q = o) /\ ~AtWork(w, o)'
        /\ pc'[w] = "next" /\ o \notin todo'[w]
    BY <2>1, ClosedIsAlone
  <2>3. PICK done \in 0..Last : PublishStage(w, o, done)
    BY <1>8, <1>a, StageIsPublished
  <2>4. /\ row'[o].state = "staged" /\ row'[o].token = w /\ row'[o].age = 0
        /\ draft'[o].by = NoWorker
    BY <2>1, <2>3, PublishedIsHeld
  <2>5. Held(w, o)'
    BY <1>a, <2>2, <2>4 DEF Held
  <2>6. QED  BY <2>2, <2>4, <2>5 DEF Apart
<1>9. QED
  BY <1>1, <1>2, <1>3, <1>4, <1>5, <1>6, <1>7, <1>8 DEF Work, Raise

\* A worker with an operation in hand never waits but for AWS, so that time
\* passes only in its stages.
LEMMA HoldersAreBusy ==
  ASSUME IInv, ClaimsSuffice, NEW w \in Worker, NEW o \in Op, InHand(w, o),
         MayWait(w), draft[o].by # w
  PROVE  pc[w] = "stage"
<1>1. Clean(w) /\ Held(w, o)
  BY ApartInHand DEF Apart, IInv, HandsAreClean, Clean
<1>2. CanWrite(w, Touched(w))
  BY HeldIsLive DEF CanWrite, Touched, InHand
<1>3. ASSUME NEW p \in Op, First(p, todo[w]) PROVE CanWrite(w, Touched(w) \cup {p})
  BY <1>2, <1>3, HeldIsLive DEF First, InHand, CanWrite
<1>4. pc[w] # "idle" /\ pc[w] # "claim"
  BY <1>1 DEF Clean, Held, InHand, NoEnds
<1>5. QED  BY <1>2, <1>3, <1>4 DEF MayWait

LEMMA ApartTick ==
  ASSUME IInv, ClaimsSuffice, Tick, NEW w \in Worker, NEW o \in Op, InHand(w, o)'
  PROVE  Apart(w, o)'
<1>1. UNCHANGED <<pc, todo, ends, stage, last, checkpoint>>
  BY DEF Tick
<1>2. InHand(w, o) /\ Apart(w, o) /\ (\A q \in Op : InHand(w, q)' <=> InHand(w, q))
  BY <1>1, ApartInHand DEF InHand
<1>3. row'[o].state = row[o].state /\ row'[o].token = row[o].token
      /\ draft'[o].by = draft[o].by
  BY DEF Tick
<1>4. Held(w, o)'
  <2>1. CASE draft[o].by = w
    BY <1>3, <2>1 DEF Held
  <2>2. CASE draft[o].by # w
    <3>1. /\ pc[w] = "stage" /\ draft[o].by = NoWorker /\ row[o].token = w
          /\ row[o].age <= elapsed[w]
      BY <1>2, <2>2, HoldersAreBusy DEF Tick, Apart, Held
    <3>2. row'[o].age = Older(row[o].age) /\ elapsed'[w] = elapsed[w] + 1
      BY <3>1, ProvisioningAssumption DEF Tick
    <3>3. row[o].age \in Age /\ elapsed[w] \in 0..StageTime
      BY DEF IInv, TypeOK, Row
    <3>4. row'[o].age <= elapsed'[w]
      BY <3>1, <3>2, <3>3, ProvisioningAssumption DEF Older, Age
    <3>5. QED  BY <1>1, <1>3, <3>1, <3>4 DEF Held
  <2>3. QED  BY <2>1, <2>2
<1>5. (AtWork(w, o) => last[w] = checkpoint[o] /\ checkpoint[o] < stage[w])'
  BY <1>1, <1>2 DEF Apart, AtWork
<1>6. QED  BY <1>2, <1>3, <1>4, <1>5 DEF Apart

LEMMA BatchedStays ==
  ASSUME TypeOK, Next, ClaimsSuffice'
  PROVE  ClaimsSuffice
<1>1. ASSUME NEW w \in Worker, NEW o \in Op, ClaimRow(w, o)
      PROVE  batched' = (batched \/ todo[w] # {})
  BY <1>1 DEF ClaimRow
<1>2. ASSUME ~\E w \in Worker, o \in Op : ClaimRow(w, o)
      PROVE  batched' = batched
  BY <1>2
  DEF Next, Step, Work, Submit, Poll, SkipRow, Begin, BeginDone, Apply, CommitStage,
      CommitLast, RejectStage, Raise, FinishPass, Crash, Tick
<1>3. batched => batched'
  BY <1>1, <1>2
<1>4. QED  BY <1>3 DEF ClaimsSuffice

LEMMA ApartStep == IInv /\ [Next]_vars => HandsAreApart'
<1> SUFFICES ASSUME IInv, [Next]_vars, ClaimsSuffice',
                    NEW w \in Worker, NEW o \in Op, InHand(w, o)'
             PROVE  Apart(w, o)'
  BY DEF HandsAreApart, Apart
<1>1. CASE UNCHANGED vars
  BY <1>1, ApartInHand
  DEF vars, workVars, Apart, InHand, Held, AtWork, First, ClaimsSuffice
<1>2. ASSUME Next PROVE ClaimsSuffice
  BY <1>2, BatchedStays DEF IInv
<1>3. CASE Tick
  BY <1>2, <1>3, ApartTick DEF Next
<1>4. ASSUME NEW p \in Op, Submit(p) PROVE Apart(w, o)'
  <2>1. UNCHANGED <<checkpoint, draft, pc, todo, stage, last, elapsed, ends>>
    BY <1>4 DEF Submit, workVars
  <2>2. InHand(w, o) /\ Apart(w, o)
    BY <1>2, <1>4, <2>1, ApartInHand DEF InHand, Next
  <2>3. row'[o] = row[o]
    BY <1>4, <2>2 DEF Submit, Apart, IInv, TypeOK
  <2>4. QED  BY <2>1, <2>2, <2>3 DEF Apart, InHand, Held, AtWork
<1>5. ASSUME NEW v \in Worker, Step(v) \/ Crash(v) PROVE Apart(w, o)'
  <2>1. CASE v # w
    BY <1>2, <1>5, <2>1, ApartElsewhere DEF Next
  <2>2. CASE v = w /\ \E p \in Op : Work(w, p)
    BY <1>2, <1>5, <2>2, ApartOwn DEF Next
  <2>3. CASE v = w /\ (Poll(w) \/ FinishPass(w) \/ Crash(w))
    <3>1. todo'[w] = {} /\ ends'[w] = NoEnds
      BY <2>3 DEF Poll, FinishPass, Crash, workVars, IInv, TypeOK, HandsAreClean
    <3>2. QED  BY <3>1 DEF InHand, NoEnds
  <2>4. QED  BY <1>5, <2>1, <2>2, <2>3 DEF Step
<1>6. QED  BY <1>1, <1>3, <1>4, <1>5 DEF Next

------------------------------------------------------------------------------
(* Theorems *)

(***************************************************************************)
(* The inductive invariant: what is believed to be built is built, and     *)
(* while claims suffice every operation in hand is under a lock or a live  *)
(* claim of the one worker that has it (workers_common.py:35,              *)
(* workers_provisioning.py:818).                                           *)
(***************************************************************************)
THEOREM Invariance == Spec => []IInv
<1>1. Init => IInv
  BY InitInv
<1>2. IInv /\ [Next]_vars => IInv'
  BY TypeStep, BeliefStep, RightStep, CleanStep, ApartStep DEF IInv
<1>3. QED  BY <1>1, <1>2, PTL DEF Spec

\* An environment reported ready has every stage, built in order, however
\* often its workers died and whoever duplicated their work.
THEOREM ReadyIsTrue == Spec => []ReadyIsBuilt
<1>1. IInv => ReadyIsBuilt
  <2> SUFFICES ASSUME IInv, NEW o \in Op
               PROVE  /\ row[o].state = "ready" => built[o] = Stages
                      /\ \A s \in built[o] : Upto(s) \subseteq built[o]
    BY DEF ReadyIsBuilt, Upto
  <2>1. built[o] \subseteq Stages
    BY DEF IInv, TypeOK
  <2>2. QED  BY <2>1 DEF IInv, BeliefsAreTrue
<1>2. QED  BY <1>1, Invariance, PTL

\* Claims keep workers apart, given that none waits behind another and that
\* no stage outlives one.
THEOREM Exclusion == Spec => []AloneUnlessBatched
<1>1. IInv => AloneUnlessBatched
  BY HeldByOne DEF AloneUnlessBatched, NoDuplicateWork, AtWork, First, InHand
<1>2. QED  BY <1>1, Invariance, PTL

\* Under the same conditions checkpoints only move on and outcomes stay.
THEOREM Monotonicity == Spec => NothingIsUndone
<1>1. IInv /\ IInv' /\ [Next]_vars => [ClaimsSuffice' => Progresses]_vars
  <2> SUFFICES ASSUME IInv, Next, ClaimsSuffice', NEW o \in Op
               PROVE  /\ checkpoint'[o] >= checkpoint[o]
                      /\ row[o].state \in Ended => row'[o] = row[o]
    BY DEF Progresses
  <2>a. /\ ClaimsSuffice /\ TypeOK /\ checkpoint[o] \in Nat
        /\ draft[o].by # NoWorker => row[o].state \notin Ended
        /\ row[o].state \in Ended => row[o].token = NoWorker
    <3>1. ClaimsSuffice /\ TypeOK
      BY BatchedStays DEF IInv
    <3>2. checkpoint[o] \in Nat
      BY <3>1, ProvisioningAssumption DEF TypeOK
    <3>3. QED  BY <3>1, <3>2 DEF IInv, HandsAreClean, Ended
  <2>b. ASSUME NEW w \in Worker, InHand(w, o) PROVE row[o].state \notin Ended
    BY <2>a, <2>b, ApartInHand DEF Apart, Ended
  <2>c. ASSUME NEW w \in Worker, row[o].state \in Ended PROVE Written(w, o) = row[o]
    BY <2>a, <2>b, <2>c, ProvisioningAssumption DEF Written, InHand
  <2>1. ASSUME NEW w \in Worker, NEW p \in Op,
               CommitStage(w, p) \/ CommitLast(w, p) \/ RejectStage(w, p)
        PROVE  /\ checkpoint'[o] >= checkpoint[o]
               /\ row[o].state \in Ended => row'[o] = row[o]
    <3>1. PICK done \in {stage[w], last[w]} : PublishStage(w, p, done)
      BY <2>1, <2>a, StageIsPublished
    <3>2. AtWork(w, p) /\ InHand(w, p)
      BY <2>1 DEF CommitStage, CommitLast, RejectStage, AtWork, First, InHand
    <3>3. last[w] = checkpoint[p] /\ checkpoint[p] < stage[w]
      BY <2>a, <3>2, ApartInHand DEF Apart
    <3>4. row[o].state \in Ended => o # p
      BY <2>b, <3>2
    <3>5. checkpoint'[o] >= checkpoint[o]
      BY <2>a, <3>1, <3>3, ProvisioningAssumption DEF PublishStage, TypeOK, Stages
    <3>6. row[o].state \in Ended => row'[o] = row[o]
      BY <2>c, <3>1, <3>4 DEF PublishStage
    <3>7. QED  BY <3>5, <3>6
  <2>2. ASSUME NEW w \in Worker, FinishPass(w)
        PROVE  /\ checkpoint'[o] >= checkpoint[o]
               /\ row[o].state \in Ended => row'[o] = row[o]
    BY <2>2, <2>a, <2>c DEF FinishPass
  <2>3. CASE Tick
    <3>1. /\ row[o] \in Row
          /\ row[o].state \in Ended =>
               row'[o] = [state |-> row[o].state, step |-> row[o].step,
                          token |-> row[o].token, age |-> row[o].age]
      BY <2>3, <2>a DEF Tick, TypeOK
    <3>2. QED  BY <2>3, <2>a, <3>1 DEF Tick, Row
  <2>4. QED
    BY <2>1, <2>2, <2>3, <2>a
    DEF Next, Step, Work, Submit, Poll, ClaimRow, SkipRow, Begin, BeginDone, Apply,
        Raise, Crash, Ended, TypeOK
<1>2. QED  BY <1>1, Invariance, PTL DEF Spec, NothingIsUndone
===============================================================================
