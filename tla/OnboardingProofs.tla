-------------------------- MODULE OnboardingProofs --------------------------
(***************************************************************************)
(* The inductive invariant of Onboarding, and the safety properties that   *)
(* follow from it for any number of submissions, clerks, visitors, links   *)
(* and actors.                                                             *)
(***************************************************************************)
EXTENDS Onboarding, TLAPS

USE NamesAssumption

LEMMA InitIInv == Init => IInv
<1> SUFFICES ASSUME Init PROVE IInv
  OBVIOUS
<1> USE DEF Init
<1>1. Idle \in Job /\ Idle.at = "idle" /\ Idle.saw = {}
  BY DEF Idle, Job
<1>2. Nobody \in Visit /\ Nobody.at = "idle" /\ Nobody.link = NoLink
  BY DEF Nobody, Visit
<1>3. TypeOK
  BY <1>1, <1>2 DEF TypeOK, Status, LinkStatus
<1>4. OneTenantPerApproval /\ SupersededLinksAreDead /\ OneActorPerUser /\ LinksArePaired
  BY DEF OneTenantPerApproval, SupersededLinksAreDead, OneActorPerUser,
     LinksArePaired, Existing
<1>5. ClerksHoldTheirRows /\ ClerksShareNothing
  BY <1>1 DEF ClerksHoldTheirRows, ClerksShareNothing
<1>6. VisitsAreApart
  BY <1>2 DEF VisitsAreApart
<1> QED
  BY <1>3, <1>4, <1>5, <1>6 DEF IInv

\* A step of the form alone: a submission that no clerk holds moves on.
LEMMA ContactIInv ==
  ASSUME IInv, NEW s \in Submission, Contact(s)
  PROVE  IInv'
<1> USE DEF IInv, TypeOK, invites
<1>1. UNCHANGED <<granted, origin, link, superseded, identity, signIns, desk, visit>>
  BY DEF Contact, CheckContact, PostContact, LeaveWindow
<1>2. /\ submission' \in [Submission -> Status] /\ window' \subseteq Submission
      /\ \A t \in Submission :
           submission[t] \in {"pending", "approved", "rejected"}
             => submission'[t] = submission[t]
      /\ \A t \in Submission : submission'[t] = "approved" => submission[t] = "approved"
  BY DEF Contact, CheckContact, PostContact, LeaveWindow, Status
<1>3. TypeOK'
  BY <1>1, <1>2
<1>4. OneTenantPerApproval'
  BY <1>1, <1>2 DEF OneTenantPerApproval, Existing, LinksOf
<1>5. ClerksHoldTheirRows' /\ ClerksShareNothing'
  BY <1>1, <1>2 DEF ClerksHoldTheirRows, ClerksShareNothing, Existing
<1>6. SupersededLinksAreDead' /\ LinksArePaired' /\ OneActorPerUser' /\ VisitsAreApart'
  BY <1>1 DEF SupersededLinksAreDead, LinksArePaired, OneActorPerUser,
     VisitsAreApart, Unconsumed
<1> QED
  BY <1>3, <1>4, <1>5, <1>6

\* A step of a clerk that commits nothing.
LEMMA DeskOnly ==
  ASSUME IInv, TypeOK', ClerksHoldTheirRows', ClerksShareNothing',
         UNCHANGED <<contact, granted, origin, invites, identity, signIns, visit>>
  PROVE  IInv'
  BY DEF IInv, contact, invites, OneTenantPerApproval, Existing, LinksOf,
     SupersededLinksAreDead, LinksArePaired, OneActorPerUser, VisitsAreApart,
     Unconsumed

LEMMA TakeUpIInv ==
  ASSUME IInv, NEW c \in Clerk, NEW s \in Submission,
         NEW does \in {"approve", "reject"}, TakeUp(c, s, does)
  PROVE  IInv'
<1> DEFINE j == [Idle EXCEPT !.at = "decided", !.does = does, !.sub = s]
<1>1. /\ j \in Job /\ j.at = "decided" /\ j.does = does /\ j.sub = s /\ j.saw = {}
      /\ j.link = NoLink /\ j.user = NoUser
  BY DEF Idle, Job
<1>2. desk' = [desk EXCEPT ![c] = j] /\ submission[s] = "pending"
  BY DEF TakeUp, Sits
<1>3. UNCHANGED <<contact, granted, origin, invites, identity, signIns, visit>>
  BY DEF TakeUp
<1> HIDE DEF j
<1>4. TypeOK'
  BY <1>1, <1>2, <1>3 DEF IInv, TypeOK, contact, invites
<1>5. ClerksHoldTheirRows'
  BY <1>1, <1>2, <1>3 DEF IInv, TypeOK, ClerksHoldTheirRows, contact, invites, Existing
<1>6. ClerksShareNothing'
  BY <1>1, <1>2 DEF IInv, TypeOK, ClerksShareNothing, TakeUp, Locked
<1> QED
  BY <1>3, <1>4, <1>5, <1>6, DeskOnly

LEMMA BeginCreateIInv ==
  ASSUME IInv, NEW c \in Clerk, BeginCreate(c)
  PROVE  IInv'
<1> DEFINE j == [Idle EXCEPT !.at = "decided", !.does = "create"]
<1>1. /\ j \in Job /\ j.at = "decided" /\ j.does = "create" /\ j.sub = NoSubmission
      /\ j.saw = {}
  BY DEF Idle, Job
<1>2. desk' = [desk EXCEPT ![c] = j]
  BY DEF BeginCreate, Sits
<1>3. UNCHANGED <<contact, granted, origin, invites, identity, signIns, visit>>
  BY DEF BeginCreate
<1> HIDE DEF j
<1>4. TypeOK'
  BY <1>1, <1>2, <1>3 DEF IInv, TypeOK, contact, invites
<1>5. ClerksHoldTheirRows'
  BY <1>1, <1>2, <1>3 DEF IInv, TypeOK, ClerksHoldTheirRows, contact, invites, Existing
<1>6. ClerksShareNothing'
  BY <1>1, <1>2 DEF IInv, TypeOK, ClerksShareNothing
<1> QED
  BY <1>3, <1>4, <1>5, <1>6, DeskOnly

\* A clerk who goes back to idle, whatever it was at.
LEMMA SitsIdle ==
  ASSUME IInv, NEW c \in Clerk, Sits(c, Idle), UNCHANGED <<origin, invites>>,
         submission' = submission \/ /\ desk[c].at = "decided"
                                       /\ desk[c].does = "reject"
                                       /\ submission' = [submission EXCEPT ![desk[c].sub] = "rejected"]
  PROVE  /\ desk' \in [Clerk -> Job]
         /\ ClerksHoldTheirRows'
         /\ ClerksShareNothing'
<1>1. Idle \in Job /\ Idle.at = "idle" /\ Idle.saw = {}
  BY DEF Idle, Job
<1>2. desk' = [desk EXCEPT ![c] = Idle]
  BY DEF Sits
<1>3. \A d \in Clerk : d # c /\ desk[d].at \in {"decided", "made"}
         /\ desk[d].sub \in Submission => submission'[desk[d].sub] = submission[desk[d].sub]
  BY DEF IInv, TypeOK, ClerksShareNothing, ClerksHoldTheirRows
<1>4. desk' \in [Clerk -> Job]
  BY <1>1, <1>2 DEF IInv, TypeOK
<1>5. ClerksHoldTheirRows'
  BY <1>1, <1>2, <1>3 DEF IInv, TypeOK, ClerksHoldTheirRows, invites, Existing
<1>6. ClerksShareNothing'
  BY <1>1, <1>2 DEF IInv, TypeOK, ClerksShareNothing
<1> QED
  BY <1>4, <1>5, <1>6

LEMMA RejectIInv ==
  ASSUME IInv, NEW c \in Clerk, Reject(c)
  PROVE  IInv'
<1> DEFINE s == desk[c].sub
<1>1. s \in Submission /\ submission[s] = "pending"
  BY DEF Reject, IInv, ClerksHoldTheirRows
<1>2. /\ submission' = [submission EXCEPT ![s] = "rejected"]
      /\ UNCHANGED <<window, granted, origin, invites, identity, signIns, visit>>
  BY DEF Reject
<1>3. desk' \in [Clerk -> Job] /\ ClerksHoldTheirRows' /\ ClerksShareNothing'
  BY <1>2, SitsIdle DEF Reject
<1>4. TypeOK'
  BY <1>1, <1>2, <1>3 DEF IInv, TypeOK, Status, invites
<1>5. OneTenantPerApproval'
  BY <1>1, <1>2 DEF IInv, TypeOK, OneTenantPerApproval, Existing, LinksOf, invites
<1>6. SupersededLinksAreDead' /\ LinksArePaired' /\ OneActorPerUser' /\ VisitsAreApart'
  BY <1>2 DEF IInv, SupersededLinksAreDead, LinksArePaired, OneActorPerUser,
     VisitsAreApart, Unconsumed, invites
<1> QED
  BY <1>3, <1>4, <1>5, <1>6 DEF IInv

LEMMA GiveUpIInv ==
  ASSUME IInv, NEW c \in Clerk, NameTaken(c) \/ DeskCrash(c)
  PROVE  IInv'
<1>1. /\ Sits(c, Idle)
      /\ UNCHANGED <<contact, granted, origin, invites, identity, signIns, visit>>
      /\ submission' = submission
      /\ UNCHANGED <<origin, invites>>
  BY DEF NameTaken, DeskCrash, contact
<1>2. desk' \in [Clerk -> Job] /\ ClerksHoldTheirRows' /\ ClerksShareNothing'
  BY <1>1, SitsIdle
<1>3. TypeOK'
  BY <1>1, <1>2 DEF IInv, TypeOK, contact, invites
<1> QED
  BY <1>1, <1>2, <1>3, DeskOnly

LEMMA MakeTenantIInv ==
  ASSUME IInv, NEW c \in Clerk, NEW u \in User, NEW l \in Link, MakeTenant(c, u, l)
  PROVE  IInv'
<1> DEFINE j == [desk[c] EXCEPT !.at = "made", !.user = u, !.link = l]
<1>0. desk[c] \in Job
  BY DEF IInv, TypeOK
<1>1. /\ j \in Job /\ j.at = "made" /\ j.user = u /\ j.link = l
      /\ j.does = desk[c].does /\ j.sub = desk[c].sub /\ j.saw = desk[c].saw
  BY <1>0 DEF Job
<1>2. desk' = [desk EXCEPT ![c] = j]
  BY DEF MakeTenant, Sits
<1>3. UNCHANGED <<contact, granted, origin, invites, identity, signIns, visit>>
  BY DEF MakeTenant
<1> HIDE DEF j
<1>4. TypeOK'
  BY <1>1, <1>2, <1>3 DEF IInv, TypeOK, contact, invites
<1>5. ClerksHoldTheirRows'
  BY <1>1, <1>2, <1>3 DEF IInv, TypeOK, ClerksHoldTheirRows, contact, invites,
     Existing, MakeTenant
<1>6. ClerksShareNothing'
  BY <1>1, <1>2 DEF IInv, TypeOK, ClerksShareNothing, MakeTenant, Drafted
<1> QED
  BY <1>3, <1>4, <1>5, <1>6, DeskOnly

LEMMA InvalidateIInv ==
  ASSUME IInv, NEW c \in Clerk, NEW u \in User, Invalidate(c, u)
  PROVE  IInv'
<1> DEFINE j == [Idle EXCEPT !.at = "invalidated", !.does = "regenerate",
                             !.user = u, !.saw = LinksOf(u)]
<1>1. /\ j \in Job /\ j.at = "invalidated" /\ j.user = u /\ j.does = "regenerate"
      /\ j.sub = NoSubmission /\ j.saw = LinksOf(u)
  BY DEF Idle, Job, LinksOf
<1>2. desk' = [desk EXCEPT ![c] = j]
  BY DEF Invalidate, Sits
<1>3. UNCHANGED <<contact, granted, origin, invites, identity, signIns, visit>>
  BY DEF Invalidate
<1>4. \A l \in j.saw : l \in Link /\ link[l].status # "unused"
  BY <1>1 DEF LinksOf, IInv, LinksArePaired
<1> HIDE DEF j
<1>5. TypeOK'
  BY <1>1, <1>2, <1>3 DEF IInv, TypeOK, contact, invites
<1>6. ClerksHoldTheirRows'
  BY <1>1, <1>2, <1>3, <1>4 DEF IInv, TypeOK, ClerksHoldTheirRows, contact, invites,
     Existing, Invalidate
<1>7. ClerksShareNothing'
  BY <1>1, <1>2 DEF IInv, TypeOK, ClerksShareNothing
<1> QED
  BY <1>3, <1>5, <1>6, <1>7, DeskOnly

LEMMA MakeLinkIInv ==
  ASSUME IInv, NEW c \in Clerk, NEW l \in Link, MakeLink(c, l)
  PROVE  IInv'
<1> DEFINE j == [desk[c] EXCEPT !.at = "made", !.link = l]
<1>0. desk[c] \in Job
  BY DEF IInv, TypeOK
<1>1. /\ j \in Job /\ j.at = "made" /\ j.user = desk[c].user /\ j.link = l
      /\ j.does = desk[c].does /\ j.sub = desk[c].sub /\ j.saw = desk[c].saw
  BY <1>0 DEF Job
<1>2. desk' = [desk EXCEPT ![c] = j]
  BY DEF MakeLink, Sits
<1>3. UNCHANGED <<contact, granted, origin, invites, identity, signIns, visit>>
  BY DEF MakeLink
<1> HIDE DEF j
<1>4. TypeOK'
  BY <1>1, <1>2, <1>3 DEF IInv, TypeOK, contact, invites
<1>5. ClerksHoldTheirRows'
  BY <1>1, <1>2, <1>3 DEF IInv, TypeOK, ClerksHoldTheirRows, contact, invites,
     Existing, MakeLink
<1>6. ClerksShareNothing'
  BY <1>1, <1>2 DEF IInv, TypeOK, ClerksShareNothing, MakeLink, Drafted, ClerksHoldTheirRows
<1> QED
  BY <1>3, <1>4, <1>5, <1>6, DeskOnly

\* The one commit: what it writes, seen from one clerk's job.
LEMMA CommitIInv ==
  ASSUME IInv, NEW c \in Clerk, Commit(c)
  PROVE  IInv'
<1> DEFINE j == desk[c]
           k == [desk[c] EXCEPT !.at = "notify"]
<1>0. desk[c] \in Job
  BY DEF IInv, TypeOK
<1>1. /\ j.at = "made" /\ j.does \in {"approve", "create", "regenerate"}
      /\ j.link \in Link /\ link[j.link].status = "unused" /\ j.user \in User
      /\ j.saw \subseteq Link /\ \A l \in j.saw : link[l].status # "unused"
      /\ j.does = "regenerate" <=> j.user \in Existing
      /\ j.does = "approve" => j.sub \in Submission /\ submission[j.sub] = "pending"
      /\ j.does # "approve" => j.sub = NoSubmission
  BY <1>0 DEF Commit, IInv, ClerksHoldTheirRows, Job
<1>2. /\ k \in Job /\ k.at = "notify" /\ k.link = j.link
  BY <1>0 DEF Job
<1>3. /\ desk' = [desk EXCEPT ![c] = k]
      /\ superseded' = [superseded EXCEPT ![j.link] = j.saw]
      /\ UNCHANGED <<window, identity, signIns, visit>>
      /\ link' = LinksAfter(j)
  BY DEF Commit, Sits
<1>4. /\ submission' \in [Submission -> Status]
      /\ granted' \in [Submission -> User \cup {NoUser}]
      /\ origin' \in [User -> Submission \cup {NoSubmission, NoRow}]
      /\ \A s \in Submission :
           IF j.does = "approve" /\ s = j.sub
             THEN submission'[s] = "approved" /\ granted'[s] = j.user
             ELSE submission'[s] = submission[s] /\ granted'[s] = granted[s]
      /\ \A u \in User :
           origin'[u] = IF j.does # "regenerate" /\ u = j.user THEN j.sub ELSE origin[u]
  BY <1>1 DEF Commit, IInv, TypeOK, Status
<1>5. /\ link' \in [Link -> [user: User \cup {NoUser}, status: LinkStatus]]
      /\ link'[j.link].user = j.user /\ link'[j.link].status = "unsent"
      /\ \A l \in Link : l # j.link =>
           /\ link'[l].user = link[l].user
           /\ link'[l].status = IF l \in j.saw \cap Unconsumed THEN "void"
                                ELSE link[l].status
  BY <1>1, <1>3 DEF LinksAfter, IInv, TypeOK, LinkStatus
<1> HIDE DEF j, k
<1>6. TypeOK'
  BY <1>1, <1>2, <1>3, <1>4, <1>5 DEF IInv, TypeOK
<1>7. OneTenantPerApproval'
  <2>1. \A s \in Submission :
          {u \in User : origin'[u] = s}
            = IF submission'[s] = "approved" THEN {granted'[s]} ELSE {}
    BY <1>1, <1>4 DEF IInv, TypeOK, OneTenantPerApproval, Existing
  <2>2. \A u \in User : origin'[u] # NoRow => u = j.user \/ origin[u] # NoRow
    BY <1>4
  <2>3. \A u \in User : origin[u] # NoRow => \E l \in Link : link[l].user = u
    BY DEF IInv, OneTenantPerApproval, LinksOf, Existing
  <2>4. \A u \in User, l \in Link : link[l].user = u => link'[l].user = u
    BY <1>1, <1>5 DEF IInv, LinksArePaired
  <2>5. \A u \in User : origin'[u] # NoRow => \E l \in Link : link'[l].user = u
    BY <1>1, <1>5, <2>2, <2>3, <2>4
  <2>6. \A u \in Existing' : LinksOf(u)' # {}
    BY <2>5 DEF Existing, LinksOf
  <2> QED
    BY <2>1, <2>6 DEF OneTenantPerApproval
<1>8. SupersededLinksAreDead'
  <2>1. \A m \in Link : m \in Unconsumed' => m = j.link \/ m \in Unconsumed \ j.saw
    BY <1>5 DEF Unconsumed
  <2>2. j.link \notin j.saw /\ \A l \in Link : j.link \notin superseded[l]
    BY <1>1 DEF IInv, LinksArePaired
  <2>3. \A l \in Link : superseded'[l] = IF l = j.link THEN j.saw ELSE superseded[l]
    BY <1>1, <1>3 DEF IInv, TypeOK
  <2>4. \A l, m \in Link : m \in superseded'[l] => m \notin Unconsumed'
    BY <1>1, <2>1, <2>2, <2>3 DEF IInv, SupersededLinksAreDead
  <2>5. \A l \in Link : superseded'[l] \subseteq Link
    BY <1>6 DEF TypeOK
  <2> QED
    BY <2>4, <2>5 DEF SupersededLinksAreDead
<1>9. OneActorPerUser'
  BY <1>3 DEF IInv, OneActorPerUser
<1>10. ClerksHoldTheirRows'
  <2> SUFFICES ASSUME NEW d \in Clerk, d # c
               PROVE  LET i == desk[d] IN
    /\ i.at \in {"decided", "made"} =>
         /\ i.does \in {"approve", "reject"} =>
              i.sub \in Submission /\ submission'[i.sub] = "pending"
         /\ i.does \notin {"approve", "reject"} => i.sub = NoSubmission
    /\ i.at = "decided" => i.does \in {"approve", "reject", "create"} /\ i.saw = {}
    /\ i.at = "invalidated" =>
         i.does = "regenerate" /\ i.user \in Existing' /\ i.sub = NoSubmission
    /\ i.at = "made" =>
         /\ i.does \in {"approve", "create", "regenerate"}
         /\ i.link \in Link /\ link'[i.link].status = "unused"
         /\ i.user \in User
         /\ i.does = "regenerate" <=> i.user \in Existing'
    /\ i.at \in {"decided", "invalidated", "made"} =>
         \A l \in i.saw : link'[l].status # "unused"
    /\ i.at = "notify" => i.link \in Link
    BY <1>1, <1>2, <1>3 DEF ClerksHoldTheirRows, IInv, TypeOK
  <2>1. desk[d] \in Job
    BY DEF IInv, TypeOK
  <2>2. /\ desk[d].at \in {"decided", "made"} /\ desk[d].sub \in Submission
           => submission'[desk[d].sub] = submission[desk[d].sub]
    BY <1>1, <1>4 DEF IInv, ClerksShareNothing, j
  <2>3. \A u \in User : u # j.user => (u \in Existing' <=> u \in Existing)
    BY <1>4 DEF Existing
  <2>4. \A u \in Existing : u \in Existing'
    BY <1>1, <1>4 DEF Existing, IInv, TypeOK
  <2>5. desk[d].at = "made" => desk[d].link # j.link /\ desk[d].user # j.user
    BY <1>1 DEF IInv, ClerksShareNothing, j
  <2>6. \A l \in Link : link[l].status # "unused" => link'[l].status # "unused"
    BY <1>1, <1>5
  <2>7. \A l \in Link : l # j.link /\ link[l].status = "unused"
           => link'[l].status = "unused"
    BY <1>5 DEF Unconsumed
  <2> QED
    BY <2>1, <2>2, <2>3, <2>4, <2>5, <2>6, <2>7 DEF IInv, ClerksHoldTheirRows, Job
<1>11. ClerksShareNothing'
  BY <1>2, <1>3 DEF IInv, TypeOK, ClerksShareNothing
<1>12. LinksArePaired'
  <2>1. \A l \in Link : link'[l].status = "unused" <=> link'[l].user = NoUser
    BY <1>1, <1>5 DEF IInv, LinksArePaired, Unconsumed
  <2>2. \A l, m \in Link : m \in superseded'[l] => link[m].status # "unused"
    BY <1>1, <1>3 DEF IInv, LinksArePaired, TypeOK
  <2>3. \A m \in Link : link[m].status # "unused" => link'[m].status # "unused"
    BY <1>1, <1>5
  <2> QED
    BY <2>1, <2>2, <2>3 DEF LinksArePaired
<1>13. VisitsAreApart'
  <2>1. \A l \in Link : link'[l].status = "signed" <=> link[l].status = "signed"
    BY <1>1, <1>5 DEF Unconsumed
  <2>2. \A v \in Visitor : visit[v].link # NoLink =>
          /\ visit[v].link \in Link
          /\ link'[visit[v].link] = link[visit[v].link]
    <3> SUFFICES ASSUME NEW v \in Visitor, visit[v].link # NoLink
                 PROVE  /\ visit[v].link \in Link
                        /\ link'[visit[v].link] = link[visit[v].link]
      OBVIOUS
    <3>1. /\ visit[v].link \in Link
          /\ link[visit[v].link].status \in {"accepted", "void"}
      BY DEF IInv, TypeOK, VisitsAreApart, Visit
    <3>2. visit[v].link # j.link /\ visit[v].link \notin j.saw \cap Unconsumed
      BY <1>1, <3>1 DEF Unconsumed
    <3>3. LinksAfter(j)[visit[v].link] = link[visit[v].link]
      BY <3>1, <3>2 DEF LinksAfter
    <3> QED
      BY <1>3, <3>1, <3>3
  <2> QED
    BY <1>3, <2>1, <2>2 DEF IInv, VisitsAreApart
<1> QED
  BY <1>6, <1>7, <1>8, <1>9, <1>10, <1>11, <1>12, <1>13 DEF IInv

\* A link that exists changes its status and nothing else, without being made
\* usable again and not into the sign-in of a waiting callback.
LEMMA LinkOnly ==
  ASSUME IInv, NEW l \in Link, NEW status \in {"live", "accepted", "void"},
         link' = [link EXCEPT ![l].status = status],
         link[l].status \in {"unsent", "live", "accepted"},
         status = "live" => link[l].status = "unsent",
         status = "accepted" => link[l].status = "live",
         UNCHANGED <<contact, granted, origin, superseded, identity, signIns, visit>>,
         desk' \in [Clerk -> Job], ClerksHoldTheirRows', ClerksShareNothing'
  PROVE  IInv'
<1>1. /\ link' \in [Link -> [user: User \cup {NoUser}, status: LinkStatus]]
      /\ link'[l].status = status /\ link'[l].user = link[l].user
      /\ \A m \in Link : m # l => link'[m] = link[m]
  BY DEF IInv, TypeOK, LinkStatus
<1>2. UNCHANGED <<submission, window>>
  BY DEF contact
<1>3. TypeOK'
  BY <1>1, <1>2 DEF IInv, TypeOK
<1>4. \A m \in Link : link'[m].user = link[m].user
  BY <1>1
<1>5. OneTenantPerApproval'
  <2>1. \A u \in User : LinksOf(u)' = LinksOf(u)
    BY <1>4 DEF LinksOf
  <2> QED
    BY <1>2, <2>1 DEF IInv, OneTenantPerApproval, Existing
<1>6. SupersededLinksAreDead'
  BY <1>1 DEF IInv, TypeOK, SupersededLinksAreDead, Unconsumed
<1>7. OneActorPerUser'
  BY DEF IInv, OneActorPerUser
<1>8. LinksArePaired'
  BY <1>1, <1>4 DEF IInv, TypeOK, LinksArePaired
<1>9. VisitsAreApart'
  BY <1>1 DEF IInv, TypeOK, VisitsAreApart, Visit
<1> QED
  BY <1>3, <1>5, <1>6, <1>7, <1>8, <1>9 DEF IInv

\* What the clerks hold does not depend on the status of a link that exists.
LEMMA ClerksIgnoreLinks ==
  ASSUME IInv, UNCHANGED <<desk, submission, origin>>,
         link' \in [Link -> [user: User \cup {NoUser}, status: LinkStatus]],
         \A m \in Link : link'[m].status = "unused" <=> link[m].status = "unused"
  PROVE  desk' \in [Clerk -> Job] /\ ClerksHoldTheirRows' /\ ClerksShareNothing'
<1>1. \A c \in Clerk : desk[c] \in Job
  BY DEF IInv, TypeOK
<1>2. ClerksHoldTheirRows'
  BY <1>1 DEF IInv, ClerksHoldTheirRows, Existing, Job
<1> QED
  BY <1>2 DEF IInv, TypeOK, ClerksShareNothing

LEMMA NotifyIInv ==
  ASSUME IInv, NEW c \in Clerk, Notify(c)
  PROVE  IInv'
<1> DEFINE l == desk[c].link
<1>1. l \in Link
  BY DEF Notify, IInv, ClerksHoldTheirRows
<1>2. /\ Sits(c, Idle)
      /\ UNCHANGED <<contact, granted, origin, superseded, identity, signIns, visit>>
  BY DEF Notify
<1> HIDE DEF l
<1>3. CASE UNCHANGED link
  <2>1. submission' = submission /\ UNCHANGED <<origin, invites>>
    BY <1>2, <1>3 DEF contact, invites
  <2>2. desk' \in [Clerk -> Job] /\ ClerksHoldTheirRows' /\ ClerksShareNothing'
    BY <1>2, <2>1, SitsIdle
  <2>3. TypeOK'
    BY <1>2, <1>3, <2>2 DEF IInv, TypeOK, contact
  <2> QED
    BY <1>2, <1>3, <2>2, <2>3, DeskOnly DEF invites
<1>4. CASE link[l].status = "unsent" /\ link' = [link EXCEPT ![l].status = "live"]
  <2>1. Idle \in Job /\ Idle.at = "idle" /\ Idle.saw = {}
    BY DEF Idle, Job
  <2>2. desk' = [desk EXCEPT ![c] = Idle]
    BY <1>2 DEF Sits
  <2>3. desk' \in [Clerk -> Job]
    BY <2>1, <2>2 DEF IInv, TypeOK
  <2>4. \A m \in Link : link'[m].status = "unused" <=> link[m].status = "unused"
    BY <1>1, <1>4 DEF IInv, TypeOK
  <2>5. ClerksHoldTheirRows'
    <3>1. \A d \in Clerk : desk[d] \in Job
      BY DEF IInv, TypeOK
    <3> QED
      BY <1>2, <2>1, <2>2, <2>4, <3>1 DEF IInv, TypeOK, ClerksHoldTheirRows,
         Existing, Job, contact
  <2>6. ClerksShareNothing'
    BY <2>1, <2>2 DEF IInv, TypeOK, ClerksShareNothing
  <2> QED
    BY <1>1, <1>2, <1>4, <2>3, <2>5, <2>6, LinkOnly
<1> QED
  BY <1>3, <1>4 DEF Notify, Deliver, l

LEMMA AcceptIInv ==
  ASSUME IInv, NEW l \in Link, Accept(l) \/ Expire(l)
  PROVE  IInv'
<1>1. PICK status \in {"accepted", "void"} :
        /\ link' = [link EXCEPT ![l].status = status]
        /\ link[l].status \in {"unsent", "live", "accepted"}
        /\ status = "accepted" => link[l].status = "live"
        /\ UNCHANGED <<contact, granted, origin, superseded, identity, signIns,
                       desk, visit>>
  BY DEF Accept, Expire
<1>2. /\ link' \in [Link -> [user: User \cup {NoUser}, status: LinkStatus]]
      /\ \A m \in Link : link'[m].status = "unused" <=> link[m].status = "unused"
  BY <1>1 DEF IInv, TypeOK, LinkStatus
<1>3. desk' \in [Clerk -> Job] /\ ClerksHoldTheirRows' /\ ClerksShareNothing'
  BY <1>1, <1>2, ClerksIgnoreLinks DEF contact
<1> QED
  BY <1>1, <1>3, LinkOnly

\* A visitor that sits down to write, or gets up, changes its own row only.
LEMMA VisitOnly ==
  ASSUME IInv, visit' \in [Visitor -> Visit], VisitsAreApart',
         UNCHANGED <<contact, granted, origin, invites, identity, signIns, desk>>
  PROVE  IInv'
  BY DEF IInv, TypeOK, contact, invites, OneTenantPerApproval, Existing, LinksOf,
     SupersededLinksAreDead, LinksArePaired, OneActorPerUser, ClerksHoldTheirRows,
     ClerksShareNothing, Unconsumed

LEMMA CallbackIInv ==
  ASSUME IInv, NEW v \in Visitor, NEW l \in Link, NEW a \in Actor, Callback(v, l, a)
  PROVE  IInv'
<1>1. PICK r \in RowFor(link[l].user, a) :
        visit' = [visit EXCEPT ![v] =
                    [at |-> "write", link |-> l, row |-> r, had |-> identity[r]]]
  BY DEF Callback, Calls
<1>2. r \in Actor /\ identity[r] \in {NoRow, NoUser, link[l].user}
  BY DEF RowFor, ActorsOf
<1>3. link[l].status = "accepted" /\ link[l].user \in User
  BY DEF Callback, IInv, TypeOK, LinksArePaired
<1>4. /\ UNCHANGED <<contact, granted, origin, invites, identity, signIns, desk>>
      /\ \A w \in Visitor : visit[w].link # l
  BY DEF Callback
<1>5. visit' \in [Visitor -> Visit]
  BY <1>1, <1>2 DEF IInv, TypeOK, Visit
<1>6. VisitsAreApart'
  BY <1>1, <1>2, <1>3, <1>4 DEF IInv, TypeOK, VisitsAreApart, invites
<1> QED
  BY <1>4, <1>5, <1>6, VisitOnly

LEMMA ProvisionIInv ==
  ASSUME IInv, NEW v \in Visitor, NEW a \in Actor, Provision(v, a)
  PROVE  IInv'
<1>1. visit' = [visit EXCEPT ![v] =
                  [at |-> "write", link |-> NoLink, row |-> a, had |-> NoRow]]
  BY DEF Provision, Calls
<1>2. UNCHANGED <<contact, granted, origin, invites, identity, signIns, desk>>
  BY DEF Provision
<1>3. visit' \in [Visitor -> Visit]
  BY <1>1 DEF IInv, TypeOK, Visit
<1>4. VisitsAreApart'
  BY <1>1, <1>2 DEF IInv, TypeOK, VisitsAreApart, invites
<1> QED
  BY <1>2, <1>3, <1>4, VisitOnly

LEMMA VisitCrashIInv ==
  ASSUME IInv, NEW v \in Visitor, VisitCrash(v)
  PROVE  IInv'
<1>1. visit' = [visit EXCEPT ![v] = Nobody]
  BY DEF VisitCrash, Calls
<1>2. UNCHANGED <<contact, granted, origin, invites, identity, signIns, desk>>
  BY DEF VisitCrash
<1>3. Nobody \in Visit /\ Nobody.at = "idle" /\ Nobody.link = NoLink
  BY DEF Nobody, Visit
<1>4. visit' \in [Visitor -> Visit]
  BY <1>1, <1>3 DEF IInv, TypeOK
<1>5. VisitsAreApart'
  BY <1>1, <1>2, <1>3 DEF IInv, TypeOK, VisitsAreApart, invites
<1> QED
  BY <1>2, <1>4, <1>5, VisitOnly

\* What a callback or a provisioning writes into the identities.
LEMMA FinishIdentity ==
  ASSUME IInv, NEW v \in Visitor, Finish(v)
  PROVE  /\ identity' \in [Actor -> User \cup {NoUser, NoRow}]
         /\ OneActorPerUser'
         /\ \A a \in Actor : identity[a] \in User /\ identity'[a] # identity[a] =>
              visit[v].row = a /\ visit[v].had = NoUser
<1> DEFINE w == visit[v]
           u == link[w.link].user
<1>1. /\ w \in Visit /\ w.row \in Actor
      /\ w.link = NoLink => w.had = NoRow
      /\ w.link # NoLink => w.link \in Link /\ u \in User /\ w.had \in {NoRow, NoUser, u}
  BY DEF Finish, IInv, TypeOK, VisitsAreApart, Visit
<1>2. /\ w.had = NoRow => identity[w.row] = NoRow
      /\ w.link # NoLink /\ w.had # u => ActorsOf(u) = {}
  BY DEF Finish, Refused
<1>3. \/ w.link = NoLink /\ identity' = [identity EXCEPT ![w.row] = NoUser]
      \/ w.link # NoLink /\ w.had = u /\ identity' = identity
      \/ w.link # NoLink /\ w.had # u /\ identity' = [identity EXCEPT ![w.row] = u]
  BY DEF Finish
<1> HIDE DEF w, u
<1>4. identity \in [Actor -> User \cup {NoUser, NoRow}]
  BY DEF IInv, TypeOK
<1>5. identity' \in [Actor -> User \cup {NoUser, NoRow}]
  BY <1>1, <1>3, <1>4
<1>6. OneActorPerUser'
  <2>1. CASE w.link = NoLink
    BY <1>1, <1>3, <1>4, <2>1 DEF IInv, OneActorPerUser
  <2>2. CASE w.link # NoLink /\ w.had = u
    BY <1>3, <2>2 DEF IInv, OneActorPerUser
  <2>3. CASE w.link # NoLink /\ w.had # u
    <3>1. \A a \in Actor : identity[a] # u
      BY <1>2, <2>3 DEF ActorsOf
    <3> QED
      BY <1>1, <1>3, <1>4, <2>3, <3>1 DEF IInv, OneActorPerUser
  <2> QED
    BY <2>1, <2>2, <2>3
<1>7. \A a \in Actor : identity[a] \in User /\ identity'[a] # identity[a] =>
        w.row = a /\ w.had = NoUser
  BY <1>1, <1>2, <1>3, <1>4
<1> QED
  BY <1>5, <1>6, <1>7 DEF w

LEMMA FinishIInv ==
  ASSUME IInv, NEW v \in Visitor, Finish(v)
  PROVE  IInv'
<1> DEFINE l == visit[v].link
<1>1. UNCHANGED <<contact, granted, origin, superseded, desk>>
  BY DEF Finish
<1>2. UNCHANGED <<submission, window>>
  BY <1>1 DEF contact
<1>3. visit' = [visit EXCEPT ![v] = Nobody]
  BY DEF Finish, Calls
<1>4. Nobody \in Visit /\ Nobody.at = "idle" /\ Nobody.link = NoLink
  BY DEF Nobody, Visit
<1>5. visit' \in [Visitor -> Visit]
  BY <1>3, <1>4 DEF IInv, TypeOK
<1>6. identity' \in [Actor -> User \cup {NoUser, NoRow}] /\ OneActorPerUser'
  BY FinishIdentity
<1>7. CASE l = NoLink
  <2>1. UNCHANGED <<link, signIns>>
    BY <1>7 DEF Finish
  <2>2. TypeOK'
    BY <1>1, <1>2, <1>5, <1>6, <2>1 DEF IInv, TypeOK
  <2>3. VisitsAreApart'
    BY <1>3, <1>4, <2>1 DEF IInv, TypeOK, VisitsAreApart
  <2>4. /\ OneTenantPerApproval' /\ SupersededLinksAreDead' /\ LinksArePaired'
        /\ ClerksHoldTheirRows' /\ ClerksShareNothing'
    BY <1>1, <1>2, <2>1 DEF IInv, OneTenantPerApproval, Existing, LinksOf,
       SupersededLinksAreDead, LinksArePaired, ClerksHoldTheirRows, ClerksShareNothing,
       Unconsumed
  <2> QED
    BY <1>6, <2>2, <2>3, <2>4 DEF IInv
<1>8. CASE l # NoLink
  <2>1. /\ l \in Link /\ link[l].status \in {"accepted", "void"}
        /\ signIns[l] = 0
        /\ \A x \in Visitor : visit[x].link = l => x = v
    BY <1>8 DEF IInv, TypeOK, VisitsAreApart, Visit
  <2>2. /\ link' = [link EXCEPT ![l].status = "signed"]
        /\ signIns' = [signIns EXCEPT ![l] = @ + 1]
    BY <1>8 DEF Finish
  <2> HIDE DEF l
  <2>3. /\ link' \in [Link -> [user: User \cup {NoUser}, status: LinkStatus]]
        /\ link'[l].status = "signed" /\ link'[l].user = link[l].user
        /\ \A m \in Link : m # l => link'[m] = link[m]
        /\ signIns' \in [Link -> Nat] /\ signIns'[l] = 1
        /\ \A m \in Link : m # l => signIns'[m] = signIns[m]
    BY <2>1, <2>2 DEF IInv, TypeOK, LinkStatus
  <2>4. TypeOK'
    BY <1>1, <1>2, <1>5, <1>6, <2>3 DEF IInv, TypeOK
  <2>5. OneTenantPerApproval'
    <3>1. \A u \in User : LinksOf(u)' = LinksOf(u)
      BY <2>3 DEF LinksOf
    <3> QED
      BY <1>1, <1>2, <3>1 DEF IInv, OneTenantPerApproval, Existing
  <2>6. SupersededLinksAreDead'
    BY <1>1, <2>3 DEF IInv, TypeOK, SupersededLinksAreDead, Unconsumed
  <2>7. LinksArePaired'
    <3>1. \A m \in Link : link'[m].status = "unused" <=> link'[m].user = NoUser
      BY <2>1, <2>3 DEF IInv, LinksArePaired
    <3>2. \A m, n \in Link : n \in superseded[m] => link[n].status # "unused"
      BY DEF IInv, LinksArePaired
    <3>3. \A n \in Link : link[n].status # "unused" => link'[n].status # "unused"
      BY <2>1, <2>3
    <3> QED
      BY <1>1, <3>1, <3>2, <3>3 DEF LinksArePaired
  <2>8. ClerksHoldTheirRows' /\ ClerksShareNothing'
    BY <1>1, <1>2, <2>1, <2>3, ClerksIgnoreLinks
  <2>9. VisitsAreApart'
    <3>1. \A m \in Link : signIns'[m] = IF link'[m].status = "signed" THEN 1 ELSE 0
      BY <2>1, <2>3 DEF IInv, VisitsAreApart
    <3>2. \A x \in Visitor : x # v => visit'[x] = visit[x] /\ visit[x].link # l
      BY <1>3, <2>1 DEF IInv, TypeOK
    <3>3. \A x \in Visitor : visit[x].link # NoLink => visit[x].link \in Link
      BY DEF IInv, TypeOK, Visit
    <3>4. visit'[v] = Nobody
      BY <1>3 DEF IInv, TypeOK
    <3>5. \A x \in Visitor : x # v /\ visit[x].link # NoLink =>
            link'[visit[x].link] = link[visit[x].link]
      BY <2>3, <3>2, <3>3
    <3> QED
      BY <1>4, <3>1, <3>2, <3>4, <3>5 DEF IInv, VisitsAreApart
  <2> QED
    BY <1>6, <2>4, <2>5, <2>6, <2>7, <2>8, <2>9 DEF IInv
<1> QED
  BY <1>7, <1>8

LEMMA NextIInv == IInv /\ [Next]_vars => IInv'
<1> SUFFICES ASSUME IInv, [Next]_vars PROVE IInv'
  OBVIOUS
<1>1. CASE \E s \in Submission : Contact(s)
  BY <1>1, ContactIInv
<1>2. CASE \E c \in Clerk : Desk(c)
  <2> SUFFICES ASSUME NEW c \in Clerk, Desk(c) PROVE IInv'
    BY <1>2
  <2>1. CASE \E s \in Submission : TakeUp(c, s, "approve") \/ TakeUp(c, s, "reject")
    BY <2>1, TakeUpIInv
  <2>2. CASE BeginCreate(c)
    BY <2>2, BeginCreateIInv
  <2>3. CASE \E u \in User, l \in Link : MakeTenant(c, u, l)
    BY <2>3, MakeTenantIInv
  <2>4. CASE \E u \in User : Invalidate(c, u)
    BY <2>4, InvalidateIInv
  <2>5. CASE \E l \in Link : MakeLink(c, l)
    BY <2>5, MakeLinkIInv
  <2>6. CASE Reject(c)
    BY <2>6, RejectIInv
  <2>7. CASE NameTaken(c) \/ DeskCrash(c)
    BY <2>7, GiveUpIInv
  <2>8. CASE Commit(c)
    BY <2>8, CommitIInv
  <2>9. CASE Notify(c)
    BY <2>9, NotifyIInv
  <2> QED
    BY <2>1, <2>2, <2>3, <2>4, <2>5, <2>6, <2>7, <2>8, <2>9 DEF Desk
<1>3. CASE \E l \in Link : Accept(l) \/ Expire(l)
  BY <1>3, AcceptIInv
<1>4. CASE \E v \in Visitor : Visits(v)
  BY <1>4, CallbackIInv, ProvisionIInv, FinishIInv, VisitCrashIInv DEF Visits
<1>5. CASE UNCHANGED vars
  BY <1>5 DEF vars, contact, invites, IInv, TypeOK, OneTenantPerApproval, Existing,
     LinksOf, SupersededLinksAreDead, LinksArePaired, OneActorPerUser,
     ClerksHoldTheirRows, ClerksShareNothing, VisitsAreApart, Unconsumed
<1> QED
  BY <1>1, <1>2, <1>3, <1>4, <1>5 DEF Next

(***************************************************************************)
(* The invariant holds in every reachable state: what clerks and visitors  *)
(* hold is theirs alone until they commit or roll back.                    *)
(***************************************************************************)
THEOREM Invariance == Spec => []IInv
  BY InitIInv, NextIInv, PTL DEF Spec

(***************************************************************************)
(* Approval and tenant stand or fall together (api.py:3423).               *)
(***************************************************************************)
THEOREM Approvals == Spec => []OneTenantPerApproval
<1>1. IInv => OneTenantPerApproval
  BY DEF IInv
<1> QED
  BY <1>1, Invariance, PTL

(***************************************************************************)
(* A link is dead once a regeneration that knew of it has committed        *)
(* (internal_admin.py:412).                                                *)
(***************************************************************************)
THEOREM Supersession == Spec => []SupersededLinksAreDead
<1>1. IInv => SupersededLinksAreDead
  BY DEF IInv
<1> QED
  BY <1>1, Invariance, PTL

(***************************************************************************)
(* A link signs in once, and a user is one actor (internal_admin.py:553,   *)
(* 656).                                                                   *)
(***************************************************************************)
THEOREM SingleUse == Spec => [](OneSignInPerLink /\ OneActorPerUser)
<1>1. IInv => OneSignInPerLink /\ OneActorPerUser
  BY DEF IInv, OneSignInPerLink, VisitsAreApart
<1> QED
  BY <1>1, Invariance, PTL

(***************************************************************************)
(* A decision on a submission is final (api.py:3441, 3540).                *)
(***************************************************************************)
THEOREM Finality == Spec => DecisionsAreFinal
<1> DEFINE Kept == \A s \in Submission : submission[s] \in {"approved", "rejected"} =>
                     submission'[s] = submission[s] /\ granted'[s] = granted[s]
<1>1. IInv /\ [Next]_vars => [Kept]_vars
  <2> SUFFICES ASSUME IInv, Next PROVE Kept
    OBVIOUS
  <2>1. CASE \E s \in Submission : Contact(s)
    BY <2>1 DEF Contact, CheckContact, PostContact, LeaveWindow, IInv, TypeOK
  <2>2. CASE \E c \in Clerk : Commit(c) \/ Reject(c)
    <3> PICK c \in Clerk : Commit(c) \/ Reject(c)
      BY <2>2
    <3>1. CASE Commit(c)
      BY <3>1 DEF Commit, IInv, TypeOK, ClerksHoldTheirRows
    <3>2. CASE Reject(c)
      BY <3>2 DEF Reject, IInv, TypeOK, ClerksHoldTheirRows
    <3> QED
      BY <3>1, <3>2
  <2>3. CASE UNCHANGED <<submission, granted>>
    BY <2>3
  <2> QED
    BY <2>1, <2>2, <2>3 DEF Next, Desk, Visits, contact, TakeUp, BeginCreate,
       MakeTenant, NameTaken, Invalidate, MakeLink, Notify, DeskCrash, Accept,
       Expire, Callback, Provision, Finish, VisitCrash
<1> QED
  BY <1>1, Invariance, PTL DEF Spec, DecisionsAreFinal

(***************************************************************************)
(* Only a callback that read a row without a user moves an actor           *)
(* (internal_admin.py:708).                                                *)
(***************************************************************************)
THEOREM Ownership == Spec => ActorsKeepTheirUser
<1> DEFINE Kept == \A a \in Actor : identity[a] \in User /\ identity'[a] # identity[a] =>
                     \E v \in Visitor : visit[v].row = a /\ visit[v].had = NoUser
                                        /\ visit'[v] = Nobody
<1>1. IInv /\ [Next]_vars => [Kept]_vars
  <2> SUFFICES ASSUME IInv, Next PROVE Kept
    OBVIOUS
  <2>1. CASE \E v \in Visitor : Finish(v)
    <3> PICK v \in Visitor : Finish(v)
      BY <2>1
    <3>1. visit'[v] = Nobody
      BY DEF Finish, Calls, IInv, TypeOK
    <3> QED
      BY <3>1, FinishIdentity
  <2>2. CASE UNCHANGED identity
    BY <2>2
  <2> QED
    BY <2>1, <2>2 DEF Next, Desk, Visits, Contact, CheckContact, PostContact,
       LeaveWindow, TakeUp, Reject, BeginCreate, MakeTenant, NameTaken, Invalidate,
       MakeLink, Commit, Notify, DeskCrash, Accept, Expire, Callback, Provision,
       VisitCrash
<1> QED
  BY <1>1, Invariance, PTL DEF Spec, ActorsKeepTheirUser
=============================================================================
