-------------------------- MODULE IdempotencyProofs --------------------------
(***************************************************************************)
(* IInv is inductive, so for any number of requests, keys and bodies a key *)
(* is used once at most, and Idempotency implements OnceRegister.          *)
(***************************************************************************)
EXTENDS Idempotency, TLAPS

LEMMA InitIInv == Init => IInv
  BY RequestAssumption
  DEF Init, IInv, TypeOK, RecordMatchesEffect, ReservationsAreHeld,
      WorkersHoldTheirKey, LosersHaveARow, AnsweredAtTheEnd, LoserFindsTheRow,
      Row, NoRow, Answer, Unanswered, Working

------------------------------------------------------------------------------
(* Facts about rows and answers *)

\* A row that stands was inserted by a request, and NoRow was not.
LEMMA RowFacts ==
  ASSUME TypeOK
  PROVE  /\ \A k \in Key : record[k] # NoRow <=> record[k].by \in Request
         /\ \A k \in Key : record[k] # NoRow => record[k] \in Row
         /\ \A k \in Key : draft[k] # NoRow <=> draft[k].by \in Request
         /\ \A k \in Key : draft[k] # NoRow => draft[k] \in Row
         /\ \A q \in Request : want[q].key \in Key
  BY RequestAssumption DEF TypeOK, Row, NoRow

\* A reply from a stored row is an answer, and not the unexpected error.
LEMMA ReplyFacts ==
  ASSUME TypeOK, NEW q \in Request, NEW row \in Row, ReplayOrConflict(q, row)
  PROVE  \E a \in Answer : a.kind # "error" /\ answer' = [answer EXCEPT ![q] = a]
<1>1. CASE want[row.by].body = want[q].body
  <2>1. [kind |-> "replayed", of |-> row.resource] \in Answer
    BY DEF Answer, Row
  <2>2. QED  BY <1>1, <2>1 DEF ReplayOrConflict, Tell
<1>2. CASE want[row.by].body # want[q].body
  <2>1. [kind |-> "conflict", of |-> NoRequest] \in Answer
    BY DEF Answer
  <2>2. QED  BY <1>2, <2>1 DEF ReplayOrConflict, Tell
<1>3. QED  BY <1>1, <1>2

\* Steps that only answer: no row and no effect changes.
LEMMA AnswerStep ==
  ASSUME IInv, NEW q \in Request, NEW a \in Answer, a.kind # "error",
         pc[q] \notin Working, pc[q] # "end",
         pc' = [pc EXCEPT ![q] = "end"],
         answer' = [answer EXCEPT ![q] = a],
         UNCHANGED <<want, record, draft, made>>
  PROVE  IInv'
<1>1. TypeOK'  BY DEF IInv, TypeOK
<1>2. RecordMatchesEffect'  BY DEF IInv, RecordMatchesEffect
<1>3. ReservationsAreHeld'
  BY RowFacts DEF IInv, TypeOK, ReservationsAreHeld, Working
<1>4. WorkersHoldTheirKey'
  BY DEF IInv, TypeOK, WorkersHoldTheirKey, Working
<1>5. LosersHaveARow'  BY DEF IInv, TypeOK, LosersHaveARow
<1>6. AnsweredAtTheEnd'  BY DEF IInv, TypeOK, AnsweredAtTheEnd
<1>7. LoserFindsTheRow'  BY DEF IInv, TypeOK, LoserFindsTheRow
<1>8. QED  BY <1>1, <1>2, <1>3, <1>4, <1>5, <1>6, <1>7 DEF IInv

\* Steps that only move on to the next look at the key.
LEMMA MoveStep ==
  ASSUME IInv, NEW q \in Request, NEW to \in {"reserve", "reload"},
         pc[q] \notin Working, pc[q] # "end",
         to = "reload" => record[want[q].key] # NoRow,
         pc' = [pc EXCEPT ![q] = to],
         UNCHANGED <<want, record, draft, made, answer>>
  PROVE  IInv'
<1>1. TypeOK'  BY DEF IInv, TypeOK
<1>2. RecordMatchesEffect'  BY DEF IInv, RecordMatchesEffect
<1>3. ReservationsAreHeld'
  BY RowFacts DEF IInv, TypeOK, ReservationsAreHeld, Working
<1>4. WorkersHoldTheirKey'
  BY DEF IInv, TypeOK, WorkersHoldTheirKey, Working
<1>5. LosersHaveARow'  BY DEF IInv, TypeOK, LosersHaveARow
<1>6. AnsweredAtTheEnd'  BY DEF IInv, TypeOK, AnsweredAtTheEnd
<1>7. LoserFindsTheRow'  BY DEF IInv, TypeOK, LoserFindsTheRow
<1>8. QED  BY <1>1, <1>2, <1>3, <1>4, <1>5, <1>6, <1>7 DEF IInv

\* Steps that give up: the placeholder of q goes, if it had one.
LEMMA GiveUpStep ==
  ASSUME IInv, NEW q \in Request, NEW a \in Answer, a.kind # "error",
         pc[q] # "end",
         pc' = [pc EXCEPT ![q] = "end"],
         answer' = [answer EXCEPT ![q] = a],
         Rollback(q),
         UNCHANGED <<want, record, made>>
  PROVE  IInv'
<1> USE DEF Rollback
<1>1. TypeOK'  BY DEF IInv, TypeOK
<1>2. RecordMatchesEffect'  BY DEF IInv, RecordMatchesEffect
<1>3. ReservationsAreHeld'
  BY RowFacts DEF IInv, TypeOK, ReservationsAreHeld, Working, NoRow
<1>4. WorkersHoldTheirKey'
  BY RowFacts DEF IInv, TypeOK, WorkersHoldTheirKey, Working
<1>5. LosersHaveARow'  BY DEF IInv, TypeOK, LosersHaveARow
<1>6. AnsweredAtTheEnd'  BY DEF IInv, TypeOK, AnsweredAtTheEnd
<1>7. LoserFindsTheRow'  BY DEF IInv, TypeOK, LoserFindsTheRow
<1>8. QED  BY <1>1, <1>2, <1>3, <1>4, <1>5, <1>6, <1>7 DEF IInv

------------------------------------------------------------------------------
(* The steps of with_idempotency *)

LEMMA ReserveStep == ASSUME IInv, NEW q \in Request, Reserve(q) PROVE IInv'
<1> USE DEF Reserve, Goto
<1>1. TypeOK'  BY RequestAssumption DEF IInv, TypeOK, Row
<1>2. RecordMatchesEffect'  BY DEF IInv, RecordMatchesEffect
<1>3. ReservationsAreHeld'
  BY RowFacts DEF IInv, TypeOK, ReservationsAreHeld, Working
<1>4. WorkersHoldTheirKey'
  <2>1. \A p \in Request \ {q} : pc[p] \in Working => want[p].key # want[q].key
    BY RowFacts DEF IInv, WorkersHoldTheirKey
  <2>2. draft'[want[q].key] = [by |-> q, resource |-> NoRequest]
    BY RowFacts DEF IInv, TypeOK
  <2>3. QED
    BY <2>1, <2>2, RowFacts DEF IInv, TypeOK, WorkersHoldTheirKey, Working
<1>5. LosersHaveARow'  BY DEF IInv, TypeOK, LosersHaveARow
<1>6. AnsweredAtTheEnd'  BY DEF IInv, TypeOK, AnsweredAtTheEnd
<1>7. LoserFindsTheRow'  BY DEF IInv, LoserFindsTheRow
<1>8. QED  BY <1>1, <1>2, <1>3, <1>4, <1>5, <1>6, <1>7 DEF IInv

LEMMA ExecuteStep == ASSUME IInv, NEW q \in Request, Execute(q) PROVE IInv'
<1> DEFINE k == want[q].key
<1>1. /\ pc[q] = "execute" /\ k \in Key /\ draft[k].by = q /\ draft[k] \in Row
      /\ pc' = [pc EXCEPT ![q] = "commit"]
      /\ draft' = [draft EXCEPT ![k] = [by |-> q, resource |-> q]]
      /\ UNCHANGED <<want, record, made, answer>>
  BY RowFacts DEF Execute, Goto, IInv, WorkersHoldTheirKey, Working
<1>2. TypeOK'
  <2>1. [by |-> q, resource |-> q] \in Row  BY DEF Row
  <2>2. QED  BY <1>1, <2>1 DEF IInv, TypeOK
<1>3. RecordMatchesEffect'  BY <1>1 DEF IInv, RecordMatchesEffect
<1>4. ReservationsAreHeld'
  <2>1. record[k] = NoRow
    BY <1>1, RowFacts DEF IInv, ReservationsAreHeld
  <2>2. QED
    BY <1>1, <2>1, RowFacts DEF IInv, TypeOK, ReservationsAreHeld, Working
<1>5. WorkersHoldTheirKey'
  BY <1>1, RowFacts DEF IInv, TypeOK, WorkersHoldTheirKey, Working
<1>6. LosersHaveARow'  BY <1>1 DEF IInv, TypeOK, LosersHaveARow
<1>7. AnsweredAtTheEnd'  BY <1>1 DEF IInv, TypeOK, AnsweredAtTheEnd
<1>8. LoserFindsTheRow'  BY <1>1 DEF IInv, LoserFindsTheRow
<1>9. QED  BY <1>2, <1>3, <1>4, <1>5, <1>6, <1>7, <1>8 DEF IInv

LEMMA CommitStep == ASSUME IInv, NEW q \in Request, Commit(q) PROVE IInv'
<1> DEFINE k == want[q].key
<1>1. /\ pc[q] = "commit" /\ k \in Key /\ draft[k] \in Row
      /\ draft[k].by = q /\ draft[k].resource = q
      /\ pc' = [pc EXCEPT ![q] = "end"]
      /\ record' = [record EXCEPT ![k] = draft[k]]
      /\ draft' = [draft EXCEPT ![k] = NoRow]
      /\ made' = made \cup {q}
      /\ want' = want
  BY RowFacts DEF Commit, Goto, IInv, WorkersHoldTheirKey, Working
<1>2. PICK a \in Answer : a.kind # "error" /\ answer' = [answer EXCEPT ![q] = a]
  <2>1. /\ [kind |-> "made", of |-> q] \in Answer
        /\ [kind |-> "lost", of |-> NoRequest] \in Answer
    BY DEF Answer
  <2>2. QED  BY <1>1, <2>1 DEF Commit, Tell
<1>3. record[k] = NoRow
  BY <1>1, RowFacts DEF IInv, ReservationsAreHeld
<1>4. TypeOK'  BY <1>1, <1>2 DEF IInv, TypeOK
<1>5. RecordMatchesEffect'
  <2>1. \A p \in made : want[p].key # k
    BY <1>3, RequestAssumption DEF IInv, TypeOK, RecordMatchesEffect, NoRow
  <2>2. \A p \in made : record'[want[p].key].by = p
    BY <1>1, <2>1, RowFacts DEF IInv, TypeOK, RecordMatchesEffect
  <2>3. record'[k].by = q
    BY <1>1 DEF IInv, TypeOK
  <2>4. \A j \in Key \ {k} : record'[j] = record[j]
    BY <1>1 DEF IInv, TypeOK
  <2>5. record'[k] = draft[k]
    BY <1>1 DEF IInv, TypeOK
  <2>6. QED
    BY <1>1, <2>2, <2>3, <2>4, <2>5 DEF IInv, RecordMatchesEffect
<1>6. ReservationsAreHeld'
  <2>1. SUFFICES ASSUME NEW j \in Key, draft'[j] # NoRow
                 PROVE  /\ record'[j] = NoRow
                        /\ want'[draft'[j].by].key = j
                        /\ pc'[draft'[j].by] \in Working
    BY DEF ReservationsAreHeld
  <2>2. j # k /\ draft'[j] = draft[j] /\ record'[j] = record[j]
    BY <1>1, <2>1 DEF IInv, TypeOK
  <2>3. draft[j].by # q
    BY <2>1, <2>2 DEF IInv, ReservationsAreHeld
  <2>4. QED
    BY <1>1, <2>1, <2>2, <2>3, RowFacts DEF IInv, TypeOK, ReservationsAreHeld
<1>7. WorkersHoldTheirKey'
  <2>1. \A p \in Request \ {q} : pc[p] \in Working => want[p].key # k
    BY <1>1 DEF IInv, WorkersHoldTheirKey
  <2>2. QED
    BY <1>1, <2>1, RowFacts DEF IInv, TypeOK, WorkersHoldTheirKey, Working
<1>8. LosersHaveARow'
  BY <1>1, RowFacts, RequestAssumption DEF IInv, TypeOK, LosersHaveARow, Row, NoRow
<1>9. AnsweredAtTheEnd'  BY <1>1, <1>2 DEF IInv, TypeOK, AnsweredAtTheEnd
<1>10. LoserFindsTheRow'  BY <1>2 DEF IInv, TypeOK, LoserFindsTheRow
<1>11. QED  BY <1>4, <1>5, <1>6, <1>7, <1>8, <1>9, <1>10 DEF IInv

LEMMA NextIInv == IInv /\ [Next]_vars => IInv'
<1> SUFFICES ASSUME IInv, [Next]_vars PROVE IInv'
  OBVIOUS
<1>1. ASSUME NEW q \in Request, LoadHit(q) PROVE IInv'
  <2>1. record[want[q].key] \in Row
    BY <1>1, RowFacts DEF LoadHit, IInv
  <2>2. PICK a \in Answer : a.kind # "error" /\ answer' = [answer EXCEPT ![q] = a]
    BY <1>1, <2>1, ReplyFacts DEF LoadHit, IInv
  <2>3. QED  BY <1>1, <2>2, AnswerStep DEF LoadHit, Goto, Working
<1>2. ASSUME NEW q \in Request, LoadMiss(q) PROVE IInv'
  BY <1>2, MoveStep DEF LoadMiss, Goto, Working
<1>3. ASSUME NEW q \in Request, ReserveRefused(q) PROVE IInv'
  BY <1>3, MoveStep DEF ReserveRefused, Goto, Working
<1>4. ASSUME NEW q \in Request, Reload(q) PROVE IInv'
  <2>1. record[want[q].key] # NoRow
    BY <1>4 DEF Reload, Goto, IInv, LosersHaveARow
  <2>2. record[want[q].key] \in Row
    BY <2>1, RowFacts DEF IInv
  <2>3. PICK a \in Answer : a.kind # "error" /\ answer' = [answer EXCEPT ![q] = a]
    BY <1>4, <2>1, <2>2, ReplyFacts DEF Reload, IInv
  <2>4. QED  BY <1>4, <2>3, AnswerStep DEF Reload, Goto, Working
<1>5. ASSUME NEW q \in Request, Fail(q) PROVE IInv'
  <2>1. [kind |-> "refused", of |-> NoRequest] \in Answer
    BY DEF Answer
  <2>2. QED  BY <1>5, <2>1, GiveUpStep DEF Fail, Goto, Tell
<1>6. ASSUME NEW q \in Request, Crash(q) PROVE IInv'
  <2>1. [kind |-> "lost", of |-> NoRequest] \in Answer
    BY DEF Answer
  <2>2. QED  BY <1>6, <2>1, GiveUpStep DEF Crash, Tell
<1>7. CASE UNCHANGED vars
  BY <1>7
  DEF vars, IInv, TypeOK, RecordMatchesEffect, ReservationsAreHeld,
      WorkersHoldTheirKey, LosersHaveARow, AnsweredAtTheEnd, LoserFindsTheRow
<1>8. QED
  BY <1>1, <1>2, <1>3, <1>4, <1>5, <1>6, <1>7, ReserveStep, ExecuteStep, CommitStep
  DEF Next, Step, Finished

------------------------------------------------------------------------------
(* The theorems *)

(***************************************************************************)
(* with_idempotency keeps IInv: a placeholder is only ever seen by the     *)
(* transaction that wrote it, and a lost race leaves a row to read.        *)
(***************************************************************************)
THEOREM Invariance == Spec => []IInv
  BY InitIInv, NextIInv, PTL DEF Spec

(***************************************************************************)
(* One effect per key, for any number of requests racing or retried.       *)
(***************************************************************************)
THEOREM OneEffectPerKey == Spec => []AtMostOnce
<1>1. IInv => AtMostOnce
  BY DEF IInv, RecordMatchesEffect, AtMostOnce, SameKey
<1>2. QED  BY <1>1, Invariance, PTL

(***************************************************************************)
(* Effects and stored replies are committed together or not at all.        *)
(***************************************************************************)
THEOREM RepliesAreTrue == Spec => []RecordMatchesEffect
<1>1. IInv => RecordMatchesEffect
  BY DEF IInv
<1>2. QED  BY <1>1, Invariance, PTL

(***************************************************************************)
(* The raise after the rollback in with_idempotency is unreachable.        *)
(***************************************************************************)
THEOREM TheRaiseIsDead == Spec => []LoserFindsTheRow
<1>1. IInv => LoserFindsTheRow
  BY DEF IInv
<1>2. QED  BY <1>1, Invariance, PTL

\* A reply from a complete row is OnceRegister's Replay or Conflict.
LEMMA ReplyRefines ==
  ASSUME IInv, NEW q \in Request, pc[q] # "end", record[want[q].key] # NoRow,
         ReplayOrConflict(q, record[want[q].key]), UNCHANGED <<want, made>>
  PROVE  Once!Next
<1> DEFINE k == want[q].key
           p == record[k].by
<1>1. /\ k \in Key /\ p \in made /\ p \in Request /\ want[p].key = k
      /\ record[k].resource = p
  BY RowFacts DEF IInv, TypeOK, RecordMatchesEffect
<1>2. answer[q] = Unanswered
  BY DEF IInv, AnsweredAtTheEnd
<1>3. CASE want[p].body = want[q].body
  <2>1. want[p] = want[q]
    BY <1>1, <1>3 DEF IInv, TypeOK
  <2>2. Once!Replay(q, p)
    BY <1>1, <1>2, <1>3, <2>1
    DEF Once!Replay, Once!Tell, Once!Unanswered, Unanswered, ReplayOrConflict, Tell
  <2>3. QED  BY <1>1, <2>2 DEF Once!Next
<1>4. CASE want[p].body # want[q].body
  <2>1. Once!Conflict(q, p)
    BY <1>1, <1>2, <1>4
    DEF Once!Conflict, Once!Tell, Once!Unanswered, Unanswered, ReplayOrConflict, Tell
  <2>2. QED  BY <1>1, <2>1 DEF Once!Next
<1>5. QED  BY <1>3, <1>4

(***************************************************************************)
(* with_idempotency implements the promise of OnceRegister: TakeEffect is  *)
(* the commit, Replay and Conflict are either look-up, Fail is a rollback. *)
(***************************************************************************)
THEOREM Refinement == Spec => RefinesOnce
<1>1. Init => Once!Init
  BY DEF Init, Once!Init, Once!Unanswered, Unanswered
<1>2. IInv /\ [Next]_vars => [Once!Next]_<<want, made, answer>>
  <2> SUFFICES ASSUME IInv, Next PROVE Once!Next \/ UNCHANGED <<want, made, answer>>
    BY DEF vars
  <2> USE DEF Goto
  <2>1. ASSUME NEW q \in Request, LoadHit(q) PROVE Once!Next
    BY <2>1, ReplyRefines DEF LoadHit
  <2>2. ASSUME NEW q \in Request, Reload(q) PROVE Once!Next
    <3>1. record[want[q].key] # NoRow
      BY <2>2 DEF Reload, IInv, LosersHaveARow
    <3>2. QED  BY <2>2, <3>1, ReplyRefines DEF Reload
  <2>3. ASSUME NEW q \in Request, Commit(q) PROVE Once!Next
    <3>1. /\ draft[want[q].key].resource = q /\ answer[q] = Unanswered
          /\ draft[want[q].key].by = q /\ want[q].key \in Key
      BY <2>3, RowFacts
      DEF Commit, IInv, WorkersHoldTheirKey, AnsweredAtTheEnd, Working
    <3>2. record[want[q].key] = NoRow
      BY <3>1, RowFacts DEF IInv, ReservationsAreHeld
    <3>3. \A p \in made : want[p].key # want[q].key
      BY <3>2, RequestAssumption DEF IInv, TypeOK, RecordMatchesEffect, NoRow
    <3>4. Once!TakeEffect(q)
      BY <2>3, <3>1, <3>3
      DEF Commit, Tell, Once!TakeEffect, Once!Tell, Once!Unanswered, Unanswered
    <3>5. QED  BY <3>4 DEF Once!Next
  <2>4. ASSUME NEW q \in Request, Fail(q) \/ Crash(q) PROVE Once!Next
    <3>1. answer[q] = Unanswered
      BY <2>4 DEF Fail, Crash, IInv, AnsweredAtTheEnd
    <3>2. Once!Fail(q)
      BY <2>4, <3>1 DEF Fail, Crash, Tell, Once!Fail, Once!Tell, Once!Unanswered, Unanswered
    <3>3. QED  BY <3>2 DEF Once!Next
  <2>5. ASSUME NEW q \in Request,
               LoadMiss(q) \/ Reserve(q) \/ ReserveRefused(q) \/ Execute(q)
        PROVE  UNCHANGED <<want, made, answer>>
    BY <2>5 DEF LoadMiss, Reserve, ReserveRefused, Execute
  <2>6. QED
    BY <2>1, <2>2, <2>3, <2>4, <2>5 DEF Next, Step, Finished, vars
<1>3. QED  BY <1>1, <1>2, Invariance, PTL DEF Spec, RefinesOnce, Once!Spec
=============================================================================
