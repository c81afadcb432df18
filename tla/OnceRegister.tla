---------------------------- MODULE OnceRegister ----------------------------
(***************************************************************************)
(* What an Idempotency-Key promises a caller: of all the requests that     *)
(* carry one key, one at most takes effect; a later request with the same  *)
(* body is told of that effect, one with another body is refused, and a    *)
(* request that fails leaves the key free.                                 *)
(* Each request is answered, or the answer is lost on the way.             *)
(***************************************************************************)
CONSTANTS Request,     \* HTTP requests; a retry is a request of its own
          Key,         \* pairs of a scope (route) and an Idempotency-Key
          Body,        \* request bodies, up to their fingerprint
          NoRequest

VARIABLES want,        \* want[q]: the key and the body of request q
          made,        \* the requests that have taken effect
          answer       \* answer[q]: what the caller was told

Answer == [kind: {"none", "made", "replayed", "conflict", "refused", "lost"},
           of: Request \cup {NoRequest}]

Unanswered == [kind |-> "none", of |-> NoRequest]

Init ==
  /\ want \in [Request -> [key: Key, body: Body]]
  /\ made = {}
  /\ answer = [q \in Request |-> Unanswered]

Tell(q, kind, of) ==
  /\ answer[q] = Unanswered
  /\ answer' = [answer EXCEPT ![q] = [kind |-> kind, of |-> of]]
  /\ UNCHANGED want

TakeEffect(q) ==
  /\ \A p \in made : want[p].key # want[q].key
  /\ made' = made \cup {q}
  /\ Tell(q, "made", q) \/ Tell(q, "lost", NoRequest)

Replay(q, p) ==
  /\ p \in made
  /\ want[p] = want[q]
  /\ Tell(q, "replayed", p)
  /\ UNCHANGED made

Conflict(q, p) ==
  /\ p \in made
  /\ want[p].key = want[q].key
  /\ want[p].body # want[q].body
  /\ Tell(q, "conflict", NoRequest)
  /\ UNCHANGED made

Fail(q) ==
  /\ Tell(q, "refused", NoRequest) \/ Tell(q, "lost", NoRequest)
  /\ UNCHANGED made

Next ==
  \E q \in Request :
     TakeEffect(q) \/ Fail(q) \/ \E p \in Request : Replay(q, p) \/ Conflict(q, p)

Spec == Init /\ [][Next]_<<want, made, answer>>
=============================================================================
