----------------------------- MODULE Idempotency -----------------------------
(***************************************************************************)
(* with_idempotency: a request looks its key up, reserves it by inserting  *)
(* a placeholder row, executes, completes the row and commits everything   *)
(* at once.                                                                *)
(*                                                                         *)
(* The unique index over (scope, key) arbitrates.  An INSERT that finds an *)
(* uncommitted row of the same key waits for that transaction to end; it   *)
(* then goes through if the other rolled back, and raises IntegrityError   *)
(* if the other committed.  record holds the committed rows, draft the row *)
(* of the transaction that has reserved the key.                           *)
(***************************************************************************)
CONSTANTS Request,     \* HTTP requests; a retry is a request of its own
          Key,         \* pairs of a scope (route) and an Idempotency-Key
          Body,        \* request bodies, up to their fingerprint
          NoRequest

ASSUME RequestAssumption == NoRequest \notin Request

VARIABLES
  want,      \* want[q]: the key and the body of request q
  pc,        \* pc[q]: where request q is
  record,    \* record[k]: the committed row of idempotency_records, or NoRow
  draft,     \* draft[k]: the uncommitted row, or NoRow
  made,      \* the requests whose effect is committed
  answer     \* answer[q]: what the caller was told

vars == <<want, pc, record, draft, made, answer>>

\* by is the request that inserted the row and whose fingerprint it keeps,
\* resource what response_json describes: NoRequest while it is still "{}".
Row   == [by: Request, resource: Request \cup {NoRequest}]
NoRow == [by |-> NoRequest, resource |-> NoRequest]

Answer == [kind: {"none", "made", "replayed", "conflict", "refused", "lost",
                  "error"},
           of: Request \cup {NoRequest}]

Unanswered == [kind |-> "none", of |-> NoRequest]

TypeOK ==
  /\ want \in [Request -> [key: Key, body: Body]]
  /\ pc \in [Request -> {"load", "reserve", "reload", "execute", "commit", "end"}]
  /\ record \in [Key -> Row \cup {NoRow}]
  /\ draft \in [Key -> Row \cup {NoRow}]
  /\ made \subseteq Request
  /\ answer \in [Request -> Answer]

Init ==
  /\ want \in [Request -> [key: Key, body: Body]]
  /\ pc = [q \in Request |-> "load"]
  /\ record = [k \in Key |-> NoRow]
  /\ draft = [k \in Key |-> NoRow]
  /\ made = {}
  /\ answer = [q \in Request |-> Unanswered]

------------------------------------------------------------------------------
(* Steps of a request *)

Goto(q, from, to) ==
  /\ pc[q] = from
  /\ pc' = [pc EXCEPT ![q] = to]

Tell(q, kind, of) == answer' = [answer EXCEPT ![q] = [kind |-> kind, of |-> of]]

\* Mutant of ReplayOrConflict: the fingerprint is not compared.
ReplayAlways(q, row) == Tell(q, "replayed", row.resource)

\* _replay_or_conflict; json.loads of "{}" is a reply about no resource.
ReplayOrConflict(q, row) ==
  IF want[row.by].body = want[q].body
    THEN Tell(q, "replayed", row.resource)
    ELSE Tell(q, "conflict", NoRequest)

\* The look-up before anything is written.
LoadHit(q) ==
  LET k == want[q].key IN
  /\ Goto(q, "load", "end")
  /\ record[k] # NoRow
  /\ ReplayOrConflict(q, record[k])
  /\ UNCHANGED <<want, record, draft, made>>

LoadMiss(q) ==
  /\ Goto(q, "load", "reserve")
  /\ record[want[q].key] = NoRow
  /\ UNCHANGED <<want, record, draft, made, answer>>

\* Mutant of Reserve: the placeholder is not flushed before execute, so the
\* index arbitrates nothing until the commit.
ReserveUnflushed(q) ==
  LET k == want[q].key IN
  /\ Goto(q, "reserve", "execute")
  /\ draft' = [draft EXCEPT ![k] = [by |-> q, resource |-> NoRequest]]
  /\ UNCHANGED <<want, record, made, answer>>

\* The INSERT of the placeholder goes through: no row, committed or not.
Reserve(q) ==
  LET k == want[q].key IN
  /\ Goto(q, "reserve", "execute")
  /\ draft[k] = NoRow
  /\ record[k] = NoRow
  /\ draft' = [draft EXCEPT ![k] = [by |-> q, resource |-> NoRequest]]
  /\ UNCHANGED <<want, record, made, answer>>

\* Mutant of ReserveRefused: the INSERT fails at once, without waiting to see
\* how the transaction that holds the key ends.
ReserveRefusedAtOnce(q) ==
  LET k == want[q].key IN
  /\ Goto(q, "reserve", "reload")
  /\ draft[k] # NoRow \/ record[k] # NoRow
  /\ UNCHANGED <<want, record, draft, made, answer>>

\* It raises IntegrityError, when whoever held the key has committed.
ReserveRefused(q) ==
  LET k == want[q].key IN
  /\ Goto(q, "reserve", "reload")
  /\ draft[k] = NoRow
  /\ record[k] # NoRow
  /\ UNCHANGED <<want, record, draft, made, answer>>

\* After the rollback the row is looked up again; not to find it is an error.
Reload(q) ==
  LET k == want[q].key IN
  /\ Goto(q, "reload", "end")
  /\ IF record[k] # NoRow
       THEN ReplayOrConflict(q, record[k])
       ELSE Tell(q, "error", NoRequest)
  /\ UNCHANGED <<want, record, draft, made>>

\* Mutant of Execute: the operation commits by itself, placeholder included.
ExecuteAndCommit(q) ==
  LET k == want[q].key IN
  /\ Goto(q, "execute", "commit")
  /\ record' = [record EXCEPT ![k] = draft[k]]
  /\ made' = made \cup {q}
  /\ draft' = [draft EXCEPT ![k] = [by |-> q, resource |-> q]]
  /\ UNCHANGED <<want, answer>>

\* execute() returns, and the row gets its result.
Execute(q) ==
  LET k == want[q].key IN
  /\ Goto(q, "execute", "commit")
  /\ draft' = [draft EXCEPT ![k] = [by |-> q, resource |-> q]]
  /\ UNCHANGED <<want, record, made, answer>>

\* The commit.  The caller may be gone by then, or the connection to the
\* database, in which case the caller gets an error for what was done.
Commit(q) ==
  LET k == want[q].key IN
  /\ Goto(q, "commit", "end")
  /\ record' = [record EXCEPT ![k] = draft[k]]
  /\ draft' = [draft EXCEPT ![k] = NoRow]
  /\ made' = made \cup {q}
  /\ Tell(q, "made", draft[k].resource) \/ Tell(q, "lost", NoRequest)
  /\ UNCHANGED want

Rollback(q) ==
  draft' = [k \in Key |-> IF draft[k].by = q THEN NoRow ELSE draft[k]]

\* execute() or the commit raises: nothing is recorded, not even the failure.
Fail(q) ==
  /\ Goto(q, "execute", "end") \/ Goto(q, "commit", "end")
  /\ Rollback(q)
  /\ Tell(q, "refused", NoRequest)
  /\ UNCHANGED <<want, record, made>>

\* The API process dies, and PostgreSQL rolls its transaction back.
Crash(q) ==
  /\ pc[q] # "end"
  /\ pc' = [pc EXCEPT ![q] = "end"]
  /\ Rollback(q)
  /\ Tell(q, "lost", NoRequest)
  /\ UNCHANGED <<want, record, made>>

Step(q) ==
  \/ LoadHit(q) \/ LoadMiss(q)
  \/ Reserve(q) \/ ReserveRefused(q) \/ Reload(q)
  \/ Execute(q) \/ Fail(q) \/ Commit(q)

Finished == (\A q \in Request : pc[q] = "end") /\ UNCHANGED vars

Next == (\E q \in Request : Step(q) \/ Crash(q)) \/ Finished

Spec == Init /\ [][Next]_vars

------------------------------------------------------------------------------
(* Properties *)

SameKey(p, q) == want[p].key = want[q].key

(***************************************************************************)
(* However many requests race with one key, are retried after a lost       *)
(* answer or die half way, one at most takes effect                        *)
(* (docs/performance/load-test-baselines.md:114).                          *)
(***************************************************************************)
AtMostOnce == \A p, q \in made : SameKey(p, q) => p = q

(***************************************************************************)
(* The stored reply and the effect it describes stand or fall together: a  *)
(* committed row is complete, its resource exists, and every effect has    *)
(* its row.  So no replay ever shows the placeholder "{}", and the check   *)
(* for an existing run in create_run never finds one.                      *)
(***************************************************************************)
RecordMatchesEffect ==
  /\ \A k \in Key : record[k] # NoRow =>
       /\ record[k].by \in made
       /\ record[k].resource = record[k].by
       /\ want[record[k].by].key = k
  /\ \A q \in made : record[want[q].key].by = q

(***************************************************************************)
(* A request that lost the race for its key finds the winner's row when it *)
(* looks again: the bare raise after the rollback is never reached.        *)
(***************************************************************************)
LoserFindsTheRow == \A q \in Request : answer[q].kind # "error"

(***************************************************************************)
(* The inductive invariant.  A placeholder belongs to one request that is  *)
(* still at work and stands where no committed row does; whoever was       *)
(* refused the key has a committed row to read; only finished requests     *)
(* have been answered.                                                     *)
(***************************************************************************)
Working == {"execute", "commit"}

ReservationsAreHeld ==
  \A k \in Key : draft[k] # NoRow =>
    /\ record[k] = NoRow
    /\ want[draft[k].by].key = k
    /\ pc[draft[k].by] \in Working

WorkersHoldTheirKey ==
  \A q \in Request :
    /\ pc[q] \in Working => draft[want[q].key].by = q
    /\ pc[q] = "commit" => draft[want[q].key].resource = q
    /\ pc[q] # "end" => q \notin made

LosersHaveARow ==
  \A q \in Request : pc[q] = "reload" => record[want[q].key] # NoRow

AnsweredAtTheEnd ==
  \A q \in Request : pc[q] # "end" => answer[q] = Unanswered

IInv ==
  /\ TypeOK
  /\ RecordMatchesEffect
  /\ ReservationsAreHeld
  /\ WorkersHoldTheirKey
  /\ LosersHaveARow
  /\ AnsweredAtTheEnd
  /\ LoserFindsTheRow

(***************************************************************************)
(* The contract of OnceRegister, whatever the interleaving: in particular  *)
(* a replay reports the very resource that the first request made, to      *)
(* callers with that same body only.                                       *)
(***************************************************************************)
Once == INSTANCE OnceRegister
RefinesOnce == Once!Spec

(***************************************************************************)
(* No request hangs: whoever waits for a key gets it or learns of the      *)
(* outcome, however the holder ends.                                       *)
(***************************************************************************)
EveryRequestEnds == \A q \in Request : <>(pc[q] = "end")
==============================================================================
