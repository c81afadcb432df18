----------------------------- MODULE Onboarding -----------------------------
(***************************************************************************)
(* How a tenant comes to be and its administrator signs in: the public     *)
(* contact form, the desk that approves or rejects a submission, the       *)
(* invite links, and the callback that maps the person who signed in       *)
(* (an actor) to the invited user.                                         *)
(*                                                                         *)
(* A tenant is created together with its administrator and its name is     *)
(* unique, so one element of User stands for both.  The module follows one *)
(* e-mail address: the form's duplicate window is per address, and the     *)
(* callback turns away an identity whose address is not the invited one    *)
(* before it touches anything.                                             *)
(*                                                                         *)
(* Requests run in threads, each in a PostgreSQL transaction of its own at *)
(* READ COMMITTED.  desk[c] and visit[v] hold what a thread has read and   *)
(* what its open transaction will write; the other variables are committed.*)
(***************************************************************************)
EXTENDS Naturals

CONSTANTS Submission,   \* requests to the public form from the one address
          User,         \* tenants, each with its administrator
          Link,         \* rows of magic_link_tokens
          Actor,        \* subjects of the customer pool with that address
          Clerk,        \* threads that serve internal administrators
          Visitor,      \* threads that serve /auth/callback
          NoSubmission, NoUser, NoRow, NoLink, NoActor

ASSUME NamesAssumption ==
  /\ NoSubmission \notin Submission
  /\ NoUser \notin User
  /\ NoRow \notin User \cup {NoUser} \cup Submission \cup {NoSubmission}
  /\ NoLink \notin Link
  /\ NoActor \notin Actor

VARIABLES
  submission,  \* submission[s]: the status of contact submission s
  window,      \* the submissions that the duplicate window still covers
  granted,     \* granted[s]: the tenant_id of submission s
  origin,      \* origin[u]: what tenant u was made for; NoRow: it does not exist
  link,        \* link[l]: the user and the status of link l
  superseded,  \* superseded[l]: the links that were there when l was made
  identity,    \* identity[a]: the user_id of the identity row of actor a
  signIns,     \* signIns[l]: the sign-ins that link l has completed
  desk,
  visit

contact == <<submission, window>>
invites == <<link, superseded>>
vars == <<contact, granted, origin, invites, identity, signIns, desk, visit>>

\* "checked" is a form request between its look-ups and its INSERT.
Status == {"none", "checked", "pending", "approved", "rejected"}

\* unsent: the mail is not out.  void: consumed_at is set and no sign-in state was issued for it, or it has
\* expired.  accepted: consumed_at is set and the browser holds a state.
\* signed: callback_consumed_at is set.
LinkStatus == {"unused", "unsent", "live", "void", "accepted", "signed"}

Job == [at: {"idle", "decided", "invalidated", "made", "notify"},
        does: {"nothing", "approve", "reject", "create", "regenerate"},
        sub: Submission \cup {NoSubmission},
        user: User \cup {NoUser},
        link: Link \cup {NoLink},
        saw: SUBSET Link]

Idle == [at |-> "idle", does |-> "nothing", sub |-> NoSubmission,
         user |-> NoUser, link |-> NoLink, saw |-> {}]

\* row is the actor whose identity row will be written, had what its user_id
\* was when it was read (NoRow: the row will be inserted).
Visit == [at: {"idle", "write"}, link: Link \cup {NoLink},
          row: Actor \cup {NoActor}, had: User \cup {NoUser, NoRow}]

Nobody == [at |-> "idle", link |-> NoLink, row |-> NoActor, had |-> NoRow]

TypeOK ==
  /\ submission \in [Submission -> Status]
  /\ window \subseteq Submission
  /\ granted \in [Submission -> User \cup {NoUser}]
  /\ origin \in [User -> Submission \cup {NoSubmission, NoRow}]
  /\ link \in [Link -> [user: User \cup {NoUser}, status: LinkStatus]]
  /\ superseded \in [Link -> SUBSET Link]
  /\ identity \in [Actor -> User \cup {NoUser, NoRow}]
  /\ signIns \in [Link -> Nat]
  /\ desk \in [Clerk -> Job]
  /\ visit \in [Visitor -> Visit]

Init ==
  /\ submission = [s \in Submission |-> "none"]
  /\ window = {}
  /\ granted = [s \in Submission |-> NoUser]
  /\ origin = [u \in User |-> NoRow]
  /\ link = [l \in Link |-> [user |-> NoUser, status |-> "unused"]]
  /\ superseded = [l \in Link |-> {}]
  /\ identity = [a \in Actor |-> NoRow]
  /\ signIns = [l \in Link |-> 0]
  /\ desk = [c \in Clerk |-> Idle]
  /\ visit = [v \in Visitor |-> Nobody]

------------------------------------------------------------------------------
(* The public contact form *)

\* The look-ups: a second submission within the window is turned away, and so
\* is one beyond the rate limit, which is never the lower of the two here.
CheckContact(s) ==
  /\ submission[s] = "none"
  /\ window = {}
  /\ submission' = [submission EXCEPT ![s] = "checked"]
  /\ UNCHANGED <<window, granted, origin, invites, identity, signIns, desk, visit>>

\* The INSERT and its commit.
PostContact(s) ==
  /\ submission[s] = "checked"
  /\ submission' = [submission EXCEPT ![s] = "pending"]
  /\ window' = window \cup {s}
  /\ UNCHANGED <<granted, origin, invites, identity, signIns, desk, visit>>

LeaveWindow(s) ==
  /\ s \in window
  /\ window' = window \ {s}
  /\ UNCHANGED <<submission, granted, origin, invites, identity,
                 signIns, desk, visit>>

------------------------------------------------------------------------------
(* The desk: approve, reject, create, regenerate *)

Existing == {u \in User : origin[u] # NoRow}
LinksOf(u) == {l \in Link : link[l].user = u}
Unconsumed == {l \in Link : link[l].status \in {"unsent", "live"}}
Drafted == {desk[c].link : c \in {c \in Clerk : desk[c].at = "made"}}

Sits(c, job) == desk' = [desk EXCEPT ![c] = job]

\* The row locks that SELECT ... FOR UPDATE holds on submissions.
Locked(s) == \E c \in Clerk : desk[c].at \in {"decided", "made"} /\ desk[c].sub = s

\* Mutant of TakeUp: the submission is read without FOR UPDATE.
TakeUpUnlocked(c, s, does) ==
  /\ desk[c].at = "idle"
  /\ submission[s] = "pending"
  /\ Sits(c, [Idle EXCEPT !.at = "decided", !.does = does, !.sub = s])
  /\ UNCHANGED <<contact, granted, origin, invites, identity, signIns, visit>>

\* Approval and rejection start alike; what is decided already is answered 409.
TakeUp(c, s, does) ==
  /\ desk[c].at = "idle"
  /\ ~Locked(s)
  /\ submission[s] = "pending"
  /\ Sits(c, [Idle EXCEPT !.at = "decided", !.does = does, !.sub = s])
  /\ UNCHANGED <<contact, granted, origin, invites, identity, signIns, visit>>

Reject(c) ==
  LET s == desk[c].sub IN
  /\ desk[c].at = "decided"
  /\ desk[c].does = "reject"
  /\ submission' = [submission EXCEPT ![s] = "rejected"]
  /\ Sits(c, Idle)
  /\ UNCHANGED <<window, granted, origin, invites, identity, signIns, visit>>

\* POST /v1/internal/tenants needs no submission.
BeginCreate(c) ==
  /\ desk[c].at = "idle"
  /\ Sits(c, [Idle EXCEPT !.at = "decided", !.does = "create"])
  /\ UNCHANGED <<contact, granted, origin, invites, identity, signIns, visit>>

\* The inserts of tenant, administrator and link.  An INSERT of a name that
\* another transaction holds waits for its end, and fails if it committed.
MakeTenant(c, u, l) ==
  /\ desk[c].at = "decided"
  /\ desk[c].does \in {"approve", "create"}
  /\ u \notin Existing
  /\ \A d \in Clerk : desk[d].at = "made" => desk[d].user # u
  /\ link[l].status = "unused"
  /\ l \notin Drafted
  /\ Sits(c, [desk[c] EXCEPT !.at = "made", !.user = u, !.link = l])
  /\ UNCHANGED <<contact, granted, origin, invites, identity, signIns, visit>>

\* The name is taken: ConflictError or IntegrityError, and all is rolled back.
NameTaken(c) ==
  /\ desk[c].at = "decided"
  /\ desk[c].does \in {"approve", "create"}
  /\ Existing # {}
  /\ Sits(c, Idle)
  /\ UNCHANGED <<contact, granted, origin, invites, identity, signIns, visit>>

\* The UPDATE of a regeneration sees the links committed when it starts.
Invalidate(c, u) ==
  /\ desk[c].at = "idle"
  /\ u \in Existing
  /\ Sits(c, [Idle EXCEPT !.at = "invalidated", !.does = "regenerate",
                          !.user = u, !.saw = LinksOf(u)])
  /\ UNCHANGED <<contact, granted, origin, invites, identity, signIns, visit>>

\* It then holds the rows of the live links, of the user, and the new one; a
\* second regeneration for the user waits here.
MakeLink(c, l) ==
  /\ desk[c].at = "invalidated"
  /\ \A d \in Clerk : desk[d].at = "made" => desk[d].user # desk[c].user
  /\ link[l].status = "unused"
  /\ l \notin Drafted
  /\ Sits(c, [desk[c] EXCEPT !.at = "made", !.link = l])
  /\ UNCHANGED <<contact, granted, origin, invites, identity, signIns, visit>>

\* Mutant of LinksAfter: the old links stay.
LinksAfterAll(j) ==
  [link EXCEPT ![j.link] = [user |-> j.user, status |-> "unsent"]]

\* The new link, and the old ones as the invalidation leaves them.
LinksAfter(j) ==
  [l \in Link |->
     IF l = j.link THEN [user |-> j.user, status |-> "unsent"]
     ELSE IF l \in j.saw \cap Unconsumed THEN [link[l] EXCEPT !.status = "void"]
     ELSE link[l]]

\* Mutant of Commit: only what is decided is committed; the tenant went first.
CommitDecisionOnly(c) ==
  /\ desk[c].at = "made"
  /\ origin' = IF desk[c].does = "regenerate" THEN origin
               ELSE [origin EXCEPT ![desk[c].user] = desk[c].sub]
  /\ link' = LinksAfter(desk[c])
  /\ Sits(c, [desk[c] EXCEPT !.at = "notify"])
  /\ UNCHANGED <<contact, granted, superseded, identity, signIns, visit>>

\* The one commit of an approval, a creation or a regeneration.
Commit(c) ==
  LET j == desk[c] IN
  /\ j.at = "made"
  /\ IF j.does = "approve"
       THEN /\ submission' = [submission EXCEPT ![j.sub] = "approved"]
            /\ granted' = [granted EXCEPT ![j.sub] = j.user]
       ELSE UNCHANGED <<submission, granted>>
  /\ origin' = IF j.does = "regenerate" THEN origin
               ELSE [origin EXCEPT ![j.user] = j.sub]
  /\ link' = LinksAfter(j)
  /\ superseded' = [superseded EXCEPT ![j.link] = j.saw]
  /\ Sits(c, [j EXCEPT !.at = "notify"])
  /\ UNCHANGED <<window, identity, signIns, visit>>

\* Resend takes the mail, after retries under the link's own idempotency key,
\* or refuses it.
Deliver(l) ==
  \/ /\ link[l].status = "unsent"
     /\ link' = [link EXCEPT ![l].status = "live"]
  \/ UNCHANGED link

\* The webhook and the mail; what became of it is audited as far as possible
\* and told to the clerk.
Notify(c) ==
  /\ desk[c].at = "notify"
  /\ Deliver(desk[c].link)
  /\ Sits(c, Idle)
  /\ UNCHANGED <<contact, granted, origin, superseded, identity, signIns, visit>>

\* The thread dies or an error ends the request: its transaction is undone.
DeskCrash(c) ==
  /\ desk[c].at # "idle"
  /\ Sits(c, Idle)
  /\ UNCHANGED <<contact, granted, origin, invites, identity, signIns, visit>>

------------------------------------------------------------------------------
(* Links and sign-ins *)

\* The rows an open regeneration has updated; whoever wants one waits.
Updating(l) == \E c \in Clerk : desk[c].at = "made" /\ desk[c].user = link[l].user

\* GET /v1/invite/accept consumes the link; the state it issues reaches the
\* browser, or is lost with the answer or for want of a base URL (503).
Accept(l) ==
  /\ link[l].status = "live"
  /\ ~Updating(l)
  /\ \E status \in {"accepted", "void"} : link' = [link EXCEPT ![l].status = status]
  /\ UNCHANGED <<contact, granted, origin, superseded, identity, signIns,
                 desk, visit>>

\* The lifetime of the link, or of the state that was issued for it.
Expire(l) ==
  /\ link[l].status \in {"unsent", "live", "accepted"}
  /\ link' = [link EXCEPT ![l].status = "void"]
  /\ UNCHANGED <<contact, granted, origin, superseded, identity, signIns,
                 desk, visit>>

ActorsOf(u) == {a \in Actor : identity[a] = u}

Calls(v, at) == visit' = [visit EXCEPT ![v] = at]

\* Mutant of RowFor: an actor that has a row keeps it, whatever user it is of.
RowForActor(u, a) ==
  IF ActorsOf(u) # {} /\ identity[a] = NoRow THEN ActorsOf(u) ELSE {a}

\* The row that the mapping writes: the user's own, whoever calls; otherwise
\* the actor's, unless another user has it (ConflictError).
RowFor(u, a) ==
  IF ActorsOf(u) # {}
    THEN {r \in ActorsOf(u) : identity[a] = NoRow \/ r = a}
    ELSE {r \in {a} : identity[a] \in {NoRow, NoUser}}

\* Mutant of Callback: the state may be used again.
CallbackAgain(v, l, a) ==
  /\ visit[v].at = "idle"
  /\ link[l].status \in {"accepted", "signed"}
  /\ \E r \in RowFor(link[l].user, a) :
       Calls(v, [at |-> "write", link |-> l, row |-> r, had |-> identity[r]])
  /\ UNCHANGED <<contact, granted, origin, invites, identity, signIns, desk>>

\* The state's token is consumed by a conditional UPDATE, which waits for any
\* other visitor's, and the rows of the user and of the actor are read.
Callback(v, l, a) ==
  /\ visit[v].at = "idle"
  /\ link[l].status = "accepted"
  /\ \A w \in Visitor : visit[w].link # l
  /\ \E r \in RowFor(link[l].user, a) :
       Calls(v, [at |-> "write", link |-> l, row |-> r, had |-> identity[r]])
  /\ UNCHANGED <<contact, granted, origin, invites, identity, signIns, desk>>

\* An identity without a user: the first one (bootstrap), or an
\* administrator's POST /v1/user-identities for an actor that has none.
Provision(v, a) ==
  /\ visit[v].at = "idle"
  /\ identity[a] = NoRow
  /\ Calls(v, [at |-> "write", link |-> NoLink, row |-> a, had |-> NoRow])
  /\ UNCHANGED <<contact, granted, origin, invites, identity, signIns, desk>>

\* Mutant of Refused: user_id has no unique index; what was read is trusted.
RefusedForRow(v) == visit[v].had = NoRow /\ identity[visit[v].row] # NoRow

\* What the write finds by the time it is made.
Refused(v) ==
  LET w == visit[v] IN
  \/ w.had = NoRow /\ identity[w.row] # NoRow
  \/ w.link # NoLink /\ w.had # link[w.link].user /\ ActorsOf(link[w.link].user) # {}

\* The write and the commit.  An INSERT or UPDATE that meets a unique index
\* fails and undoes the rest; an UPDATE of a row that had no user when it was
\* read sets user_id without looking again.
Finish(v) ==
  LET w == visit[v] IN
  /\ w.at = "write"
  /\ ~Refused(v)
  /\ IF w.link = NoLink
       THEN /\ identity' = [identity EXCEPT ![w.row] = NoUser]
            /\ UNCHANGED <<link, signIns>>
       ELSE /\ identity' = IF w.had = link[w.link].user THEN identity
                           ELSE [identity EXCEPT ![w.row] = link[w.link].user]
            /\ link' = [link EXCEPT ![w.link].status = "signed"]
            /\ signIns' = [signIns EXCEPT ![w.link] = @ + 1]
  /\ Calls(v, Nobody)
  /\ UNCHANGED <<contact, granted, origin, superseded, desk>>

\* A refused write, any other error, or the end of the thread: all is undone.
VisitCrash(v) ==
  /\ visit[v].at = "write"
  /\ Calls(v, Nobody)
  /\ UNCHANGED <<contact, granted, origin, invites, identity, signIns, desk>>

------------------------------------------------------------------------------

Contact(s) == CheckContact(s) \/ PostContact(s) \/ LeaveWindow(s)

Desk(c) ==
  \/ \E s \in Submission : TakeUp(c, s, "approve") \/ TakeUp(c, s, "reject")
  \/ BeginCreate(c)
  \/ \E u \in User, l \in Link : MakeTenant(c, u, l)
  \/ \E u \in User : Invalidate(c, u)
  \/ \E l \in Link : MakeLink(c, l)
  \/ Reject(c) \/ NameTaken(c) \/ Commit(c) \/ Notify(c) \/ DeskCrash(c)

Visits(v) ==
  \/ \E l \in Link, a \in Actor : Callback(v, l, a)
  \/ \E a \in Actor : Provision(v, a)
  \/ Finish(v) \/ VisitCrash(v)

Next ==
  \/ \E s \in Submission : Contact(s)
  \/ \E c \in Clerk : Desk(c)
  \/ \E l \in Link : Accept(l) \/ Expire(l)
  \/ \E v \in Visitor : Visits(v)

Spec == Init /\ [][Next]_vars

------------------------------------------------------------------------------
(* Properties *)

(***************************************************************************)
(* Approval and tenant stand or fall together, however many clerks decide  *)
(* at once and wherever they die: an approved submission names the one     *)
(* tenant that was made for it, no other submission has one, and whoever   *)
(* exists has a link to start from.                                        *)
(***************************************************************************)
OneTenantPerApproval ==
  /\ \A s \in Submission :
       {u \in User : origin[u] = s}
         = IF submission[s] = "approved" THEN {granted[s]} ELSE {}
  /\ \A u \in Existing : LinksOf(u) # {}

(***************************************************************************)
(* A decision is final: two clerks who decide one submission at the same   *)
(* time do not overwrite each other (api.py:3441, 3540).                   *)
(***************************************************************************)
DecisionsAreFinal ==
  [][\A s \in Submission : submission[s] \in {"approved", "rejected"} =>
        submission'[s] = submission[s] /\ granted'[s] = granted[s]]_vars

(***************************************************************************)
(* Two live links of one user can only come from regenerations that        *)
(* overlapped; a link made before the newer one's transaction began is     *)
(* dead or used by then (internal_admin.py:249).                           *)
(***************************************************************************)
SupersededLinksAreDead ==
  \A l \in Link : superseded[l] \cap Unconsumed = {}

(***************************************************************************)
(* A link completes one sign-in at most, however often its state comes     *)
(* back and however many threads serve it at once.                         *)
(***************************************************************************)
OneSignInPerLink == \A l \in Link : signIns[l] =< 1

(***************************************************************************)
(* No user signs in as two actors.                                         *)
(***************************************************************************)
OneActorPerUser ==
  \A a, b \in Actor : identity[a] \in User /\ identity[a] = identity[b] => a = b

(***************************************************************************)
(* An actor is not moved from one user to another, except by a callback    *)
(* that read its row while it had no user: that one overwrites what a      *)
(* concurrent callback has committed (internal_admin.py:708).              *)
(***************************************************************************)
ActorsKeepTheirUser ==
  [][\A a \in Actor : identity[a] \in User /\ identity'[a] # identity[a] =>
        \E v \in Visitor : visit[v].row = a /\ visit[v].had = NoUser
                           /\ visit'[v] = Nobody]_vars

(***************************************************************************)
(* The inductive invariant: what the open transactions hold.  A clerk who  *)
(* decides has the pending submission to itself, a tenant or a link being  *)
(* made is not there yet and is no other clerk's, and a callback writes    *)
(* for a link that no other callback has and that has signed nobody in.    *)
(***************************************************************************)
ClerksHoldTheirRows ==
  \A c \in Clerk : LET j == desk[c] IN
    /\ j.at \in {"decided", "made"} =>
         /\ j.does \in {"approve", "reject"} =>
              j.sub \in Submission /\ submission[j.sub] = "pending"
         /\ j.does \notin {"approve", "reject"} => j.sub = NoSubmission
    /\ j.at = "decided" => j.does \in {"approve", "reject", "create"} /\ j.saw = {}
    /\ j.at = "invalidated" =>
         j.does = "regenerate" /\ j.user \in Existing /\ j.sub = NoSubmission
    /\ j.at = "made" =>
         /\ j.does \in {"approve", "create", "regenerate"}
         /\ j.link \in Link /\ link[j.link].status = "unused"
         /\ j.user \in User
         /\ j.does = "regenerate" <=> j.user \in Existing
    /\ j.at \in {"decided", "invalidated", "made"} =>
         \A l \in j.saw : link[l].status # "unused"
    /\ j.at = "notify" => j.link \in Link

ClerksShareNothing ==
  \A c, d \in Clerk : c # d =>
    /\ /\ {desk[c].at, desk[d].at} \subseteq {"decided", "made"}
       /\ desk[c].sub \in Submission
       => desk[c].sub # desk[d].sub
    /\ desk[c].at = "made" /\ desk[d].at = "made" =>
         desk[c].link # desk[d].link /\ desk[c].user # desk[d].user

LinksArePaired ==
  /\ \A l \in Link : link[l].status = "unused" <=> link[l].user = NoUser
  /\ \A l, m \in Link : m \in superseded[l] => link[m].status # "unused"

VisitsAreApart ==
  /\ \A l \in Link : signIns[l] = IF link[l].status = "signed" THEN 1 ELSE 0
  /\ \A v \in Visitor : LET w == visit[v] IN
       /\ w.at = "idle" => w = Nobody
       /\ w.at = "write" => w.row \in Actor
       /\ w.at = "write" /\ w.link = NoLink => w.had = NoRow
       /\ w.link # NoLink =>
            /\ link[w.link].status \in {"accepted", "void"}
            /\ link[w.link].user \in User
            /\ w.had \in {NoRow, NoUser, link[w.link].user}
            /\ \A x \in Visitor : visit[x].link = w.link => x = v

IInv ==
  /\ TypeOK
  /\ OneTenantPerApproval
  /\ SupersededLinksAreDead
  /\ OneActorPerUser
  /\ ClerksHoldTheirRows
  /\ ClerksShareNothing
  /\ LinksArePaired
  /\ VisitsAreApart
=============================================================================
