--------------------------- MODULE AccountsProofs ---------------------------
(***************************************************************************)
(* What holds of accounts for any number of users, sessions, profiles and  *)
(* concurrent requests, and when statements fail.                          *)
(***************************************************************************)
EXTENDS Accounts, SequenceTheorems, TLAPS

\* A request in a step after getAuth has the fields of one, and so on.
LEMMA Shapes ==
  ASSUME TypeOK, NEW h \in Handlers
  PROVE  /\ h \in InChecks => handler[h] \in Checked
         /\ At(h, "hash") => handler[h] \in Registering
         /\ At(h, "issue") => handler[h] \in Issuing
         /\ Idle \notin Checked
<1>1. handler[h] \in {Idle} \cup Checked \cup Registering \cup Issuing
  BY DEF TypeOK
<1>2. h \in InChecks => handler[h] \in Checked
  BY <1>1 DEF InChecks, Registering, Issuing, Idle, Steps
<1>3. At(h, "hash") => handler[h] \in Registering
  BY <1>1 DEF At, Checked, Issuing, Idle, Steps
<1>4. At(h, "issue") => handler[h] \in Issuing
  BY <1>1 DEF At, Checked, Registering, Idle, Steps
<1>5. Idle \notin Checked
  BY DEF Checked, Idle, Steps
<1>6. QED
  BY <1>2, <1>3, <1>4, <1>5

\* Marking a request changes nothing else of it.
LEMMA RacedFields ==
  ASSUME NEW request \in Checked
  PROVE  /\ Raced(request) \in Checked /\ Raced(request).raced = TRUE
         /\ Raced(request).at = request.at /\ Raced(request).token = request.token
         /\ Raced(request).user = request.user /\ Raced(request).admin = request.admin
         /\ Raced(request).profile = request.profile /\ Raced(request).job = request.job
BY DEF Raced, Checked

\* Changing rows one by one keeps a table a table.
LEMMA Rows ==
  ASSUME NEW S, NEW rows \in Seq(S), NEW new \in [DOMAIN rows -> S]
  PROVE  new \in Seq(S)
<1>1. DOMAIN rows = 1 .. Len(rows) /\ Len(rows) \in Nat
  OBVIOUS
<1>2. QED
  BY <1>1, SeqDef

LEMMA Row ==
  ASSUME NEW S, NEW rows \in Seq(S), NEW i, NEW row, i \in DOMAIN rows => row \in S
  PROVE  [rows EXCEPT ![i] = row] \in Seq(S)
<1>1. rows \in [DOMAIN rows -> S]
  OBVIOUS
<1>2. [rows EXCEPT ![i] = row] \in [DOMAIN rows -> S]
  BY <1>1
<1>3. QED
  BY <1>2, Rows

\* A row stays one when a statement changes it.
LEMMA Tables ==
  ASSUME TypeOK
  PROVE  /\ \A u \in DOMAIN users :
              users[u] \in User /\ [users[u] EXCEPT !.there = FALSE] \in User
         /\ \A t \in DOMAIN sessions, status \in {"expired", "ended"} :
              sessions[t] \in Session /\ [sessions[t] EXCEPT !.status = status] \in Session
         /\ \A p \in DOMAIN profiles, public \in BOOLEAN :
              /\ profiles[p] \in Profile /\ [profiles[p] EXCEPT !.there = FALSE] \in Profile
              /\ [profiles[p] EXCEPT !.public = public] \in Profile
         /\ \A j \in DOMAIN jobs, status \in {"pending", "failed"} :
              jobs[j] \in Job /\ [jobs[j] EXCEPT !.status = status] \in Job
<1>1. /\ \A u \in DOMAIN users : users[u] \in User
      /\ \A t \in DOMAIN sessions : sessions[t] \in Session
      /\ \A p \in DOMAIN profiles : profiles[p] \in Profile
      /\ \A j \in DOMAIN jobs : jobs[j] \in Job
  BY DEF TypeOK
<1>2. \A row \in User : [row EXCEPT !.there = FALSE] \in User
  BY DEF User
<1>3. \A row \in Session, status \in {"expired", "ended"} :
        [row EXCEPT !.status = status] \in Session
  BY DEF Session
<1>4. \A row \in Profile, public \in BOOLEAN :
        /\ [row EXCEPT !.there = FALSE] \in Profile
        /\ [row EXCEPT !.public = public] \in Profile
  BY DEF Profile
<1>5. \A row \in Job, status \in {"pending", "failed"} : [row EXCEPT !.status = status] \in Job
  BY DEF Job
<1>6. QED
  BY <1>1, <1>2, <1>3, <1>4, <1>5

\* What the others and the one who answers are left with.
LEMMA AnswerType ==
  ASSUME TypeOK, NEW h \in Handlers,
         NEW state \in {Idle} \cup Registering \cup Issuing \cup Checked,
         NEW others \in SUBSET InChecks, Answer(h, state, others)
  PROVE  handler' \in [Handlers -> {Idle} \cup Registering \cup Issuing \cup Checked]
<1>1. \A g \in others : Raced(handler[g]) \in Checked
  BY Shapes, RacedFields DEF InChecks
<1>2. QED
  BY <1>1 DEF Answer, TypeOK

LEMMA GotoType ==
  ASSUME TypeOK, NEW h \in Handlers,
         NEW state \in {Idle} \cup Registering \cup Issuing \cup Checked, Goto(h, state)
  PROVE  handler' \in [Handlers -> {Idle} \cup Registering \cup Issuing \cup Checked]
BY DEF Goto, TypeOK

LEMMA SubmittingType ==
  ASSUME TypeOK, NEW h \in Handlers, At(h, "act"), NEW p \in Nat
  PROVE  Submitting(h, p) \in Checked
<1>1. handler[h] \in Checked
  BY Shapes DEF At, InChecks, Steps
<1>2. QED
  BY <1>1 DEF Submitting, Checked, Steps

LEMMA RefuseType ==
  ASSUME TypeOK, NEW h \in Handlers, Refuse(h)
  PROVE  TypeOK'
BY GotoType DEF Refuse, TypeOK

-----------------------------------------------------------------------------
LEMMA TypeStep == TypeOK /\ [Next]_vars => TypeOK'
<1> SUFFICES ASSUME TypeOK, [Next]_vars PROVE TypeOK'
  OBVIOUS
<1>1. ASSUME NEW h \in Handlers, NEW n \in Names, Register(h, n) PROVE TypeOK'
  <2>1. [at |-> "hash", name |-> n, first |-> ThereUsers = {}, beside |-> {}] \in Registering
    BY DEF Registering
  <2>2. QED
    BY <1>1, <2>1, GotoType DEF Register, TypeOK
<1>2. ASSUME NEW h \in Handlers, CreateUser(h) PROVE TypeOK'
  <2>1. CASE Taken(handler[h].name)
    BY <1>2, <2>1, RefuseType DEF CreateUser
  <2>2. CASE ~Taken(handler[h].name)
    <3> DEFINE id == Len(users) + 1
    <3>1. handler[h] \in Registering /\ id \in Nat
      BY <1>2, Shapes DEF CreateUser, TypeOK
    <3>2. [name |-> handler[h].name, admin |-> handler[h].first, there |-> TRUE,
           beside |-> handler[h].beside] \in User
      BY <3>1 DEF Registering, User
    <3>3. users' \in Seq(User)
      <4> DEFINE row == [name |-> handler[h].name, admin |-> handler[h].first,
                         there |-> TRUE, beside |-> handler[h].beside]
      <4>1. users' = Append(users, row)
        BY <1>2, <2>2 DEF CreateUser
      <4>2. row \in User /\ users \in Seq(User)
        BY <3>2 DEF TypeOK
      <4> HIDE DEF row
      <4>3. QED
        BY <4>1, <4>2, AppendProperties
    <3>4. [at |-> "issue", user |-> id] \in Issuing
      BY <3>1 DEF Issuing
    <3>5. \A g \in Handlers : At(g, "hash") =>
            [handler[g] EXCEPT !.beside = @ \cup {id}] \in Registering
      BY <3>1, Shapes DEF Registering
    <3>6. handler' \in [Handlers -> {Idle} \cup Registering \cup Issuing \cup Checked]
      BY <1>2, <2>2, <3>4, <3>5 DEF CreateUser, TypeOK
    <3>7. QED
      BY <1>2, <2>2, <3>3, <3>6 DEF CreateUser, TypeOK
  <2>3. QED
    BY <2>1, <2>2
<1>3. ASSUME NEW h \in Handlers, NEW u \in DOMAIN users, Login(h, u) PROVE TypeOK'
  <2>1. [at |-> "issue", user |-> u] \in Issuing
    BY DEF Issuing, TypeOK
  <2>2. QED
    BY <1>3, <2>1, GotoType DEF Login, TypeOK
<1>4. ASSUME NEW h \in Handlers, IssueSession(h) PROVE TypeOK'
  <2>1. handler[h] \in Issuing
    BY <1>4, Shapes DEF IssueSession
  <2>2. [user |-> handler[h].user, status |-> "open"] \in Session
    BY <2>1 DEF Session, Issuing
  <2>3. CASE UserThere(handler[h].user)
    <3> DEFINE row == [user |-> handler[h].user, status |-> "open"]
    <3>1. sessions' = Append(sessions, row) /\ Goto(h, Idle)
      BY <1>4, <2>3 DEF IssueSession
    <3>2. row \in Session /\ sessions \in Seq(Session)
      BY <2>2 DEF TypeOK
    <3> HIDE DEF row
    <3>3. sessions' \in Seq(Session)
      BY <3>1, <3>2, AppendProperties
    <3>4. QED
      BY <1>4, <2>3, <3>1, <3>3, GotoType DEF IssueSession, TypeOK
  <2>4. CASE ~UserThere(handler[h].user)
    BY <1>4, <2>4, RefuseType DEF IssueSession
  <2>5. QED
    BY <2>3, <2>4
<1>5. ASSUME NEW h \in Handlers, NEW t \in DOMAIN sessions, ReadSession(h, t) PROVE TypeOK'
  <2>1. sessions[t] \in Session /\ t \in Nat
    BY DEF TypeOK
  <2>2. [at |-> "user", token |-> t, user |-> sessions[t].user, admin |-> FALSE,
         profile |-> 0, job |-> 0, raced |-> FALSE] \in Checked
    BY <2>1 DEF Checked, Steps, Session
  <2>3. QED
    BY <1>5, <2>2, GotoType DEF ReadSession, TypeOK
<1>6. ASSUME NEW h \in Handlers, NEW p \in DOMAIN profiles, LookAnonymously(h, p)
      PROVE  TypeOK'
  <2>1. [at |-> "list", token |-> 0, user |-> 0, admin |-> FALSE,
         profile |-> p, job |-> 0, raced |-> FALSE] \in Checked
    BY DEF Checked, Steps, TypeOK
  <2>2. QED
    BY <1>6, <2>1, GotoType DEF LookAnonymously, TypeOK
<1>7. ASSUME NEW h \in Handlers, ReadUser(h) PROVE TypeOK'
  <2>1. handler[h] \in Checked
    BY <1>7, Shapes DEF ReadUser, At, InChecks, Steps
  <2>2. CASE UserThere(handler[h].user)
    <3>1. users[handler[h].user] \in User
      BY <2>2 DEF UserThere, ThereUsers, TypeOK
    <3>2. [handler[h] EXCEPT !.at = "act", !.admin = users[handler[h].user].admin] \in Checked
      BY <2>1, <3>1 DEF Checked, Steps, User
    <3>3. QED
      BY <1>7, <2>2, <3>2, GotoType DEF ReadUser, TypeOK
  <2>3. CASE ~UserThere(handler[h].user)
    BY <1>7, <2>3, RefuseType DEF ReadUser
  <2>4. QED
    BY <2>2, <2>3
<1>8. ASSUME NEW h \in Handlers, Logout(h) PROVE TypeOK'
  <2>1. sessions' \in Seq(Session)
    <3>1. sessions' = [sessions EXCEPT ![handler[h].token] =
                         [sessions[handler[h].token] EXCEPT !.status = "ended"]]
      BY <1>8 DEF Logout
    <3>2. QED
      BY <3>1, Tables, Row DEF TypeOK
  <2>2. QED
    BY <1>8, <2>1, AnswerType DEF Logout, With, TypeOK
<1>9. ASSUME NEW h \in Handlers, DeleteAccount(h) PROVE TypeOK'
  <2> DEFINE u == handler[h].user
             others == {g \in InChecks : handler[g].user = u} \cup About(Of(u))
  <2>1. users' \in Seq(User)
    <3>1. users' = [v \in DOMAIN users |->
                      IF v = u THEN [users[v] EXCEPT !.there = FALSE] ELSE users[v]]
      BY <1>9 DEF DeleteAccount
    <3>2. users' \in [DOMAIN users -> User]
      BY <3>1, Tables
    <3>3. QED
      BY <3>2, Rows DEF TypeOK
  <2>2. sessions' \in Seq(Session)
    <3>1. sessions' = [t \in DOMAIN sessions |->
                         IF sessions[t].user = u
                         THEN [sessions[t] EXCEPT !.status = "ended"] ELSE sessions[t]]
      BY <1>9 DEF DeleteAccount
    <3>2. sessions' \in [DOMAIN sessions -> Session]
      BY <3>1, Tables
    <3>3. QED
      BY <3>2, Rows DEF TypeOK
  <2>3. profiles' \in Seq(Profile)
    <3>1. profiles' = [p \in DOMAIN profiles |->
                         IF profiles[p].owner = u
                         THEN [profiles[p] EXCEPT !.there = FALSE] ELSE profiles[p]]
      BY <1>9 DEF DeleteAccount
    <3>2. profiles' \in [DOMAIN profiles -> Profile]
      BY <3>1, Tables
    <3>3. QED
      BY <3>2, Rows DEF TypeOK
  <2>4. Answer(h, Idle, others) /\ others \in SUBSET InChecks
    BY <1>9 DEF DeleteAccount, About
  <2>5. QED
    BY <1>9, <2>1, <2>2, <2>3, <2>4, AnswerType DEF DeleteAccount, TypeOK
<1>10. ASSUME NEW h \in Handlers, NEW slug \in Slugs, NEW public \in BOOLEAN,
              CreateProfile(h, slug, public)
       PROVE  TypeOK'
  <2> DEFINE u == handler[h].user
             free == UserThere(u) /\ \A p \in Of(u) : profiles[p].slug # slug
  <2>1. CASE free
    <3> DEFINE row == [owner |-> u, slug |-> slug, public |-> public, there |-> TRUE]
    <3>1. profiles' = Append(profiles, row) /\ Goto(h, Submitting(h, Len(profiles) + 1))
      BY <1>10, <2>1 DEF CreateProfile
    <3>2. row \in Profile /\ profiles \in Seq(Profile)
      BY <2>1 DEF UserThere, ThereUsers, TypeOK, Profile
    <3> HIDE DEF row
    <3>3. profiles' \in Seq(Profile)
      BY <3>1, <3>2, AppendProperties
    <3>4. Submitting(h, Len(profiles) + 1) \in Checked
      BY <1>10, <3>2, SubmittingType DEF CreateProfile
    <3>5. QED
      BY <1>10, <2>1, <3>1, <3>3, <3>4, GotoType DEF CreateProfile, TypeOK
  <2>2. CASE ~free
    BY <1>10, <2>2, RefuseType DEF CreateProfile
  <2>3. QED
    BY <2>1, <2>2
<1>11. ASSUME NEW h \in Handlers, NEW p \in DOMAIN profiles, NEW public \in BOOLEAN,
              UpdateProfile(h, p, public)
       PROVE  TypeOK'
  <2>1. profiles' = [profiles EXCEPT ![p] = [profiles[p] EXCEPT !.public = public]]
    BY <1>11 DEF UpdateProfile
  <2>2. profiles' \in Seq(Profile)
    BY <2>1, Tables, Row DEF TypeOK
  <2>3. Submitting(h, p) \in Checked
    <3>1. p \in Nat /\ At(h, "act")
      BY <1>11 DEF UpdateProfile, TypeOK
    <3>2. QED
      BY <3>1, SubmittingType
  <2> DEFINE others == IF public THEN {} ELSE Strangers(p)
  <2>4. Answer(h, Submitting(h, p), others) /\ others \in SUBSET InChecks
    <3>1. Strangers(p) \subseteq InChecks
      BY DEF Strangers
    <3>2. Answer(h, Submitting(h, p), others)
      BY <1>11 DEF UpdateProfile
    <3>3. QED
      BY <3>1, <3>2
  <2>5. QED
    <3> HIDE DEF others
    <3>1. QED
      BY <1>11, <2>2, <2>3, <2>4, AnswerType DEF UpdateProfile, TypeOK
<1>12. ASSUME NEW h \in Handlers, NEW p \in DOMAIN profiles, DeleteProfile(h, p) PROVE TypeOK'
  <2>1. profiles' = [profiles EXCEPT ![p] = [profiles[p] EXCEPT !.there = FALSE]]
    BY <1>12 DEF DeleteProfile
  <2>2. profiles' \in Seq(Profile)
    BY <2>1, Tables, Row DEF TypeOK
  <2>3. QED
    BY <1>12, <2>2, AnswerType DEF DeleteProfile, About, TypeOK
<1>13. ASSUME NEW h \in Handlers, NEW p \in DOMAIN profiles, CheckOwner(h, p) \/ Look(h, p)
       PROVE  TypeOK'
  <2>1. handler[h] \in Checked /\ p \in Nat
    BY <1>13, Shapes DEF CheckOwner, Look, At, InChecks, Steps, TypeOK
  <2>2. /\ Submitting(h, p) \in Checked
        /\ [handler[h] EXCEPT !.at = "list", !.profile = p] \in Checked
    BY <2>1 DEF Submitting, Checked, Steps
  <2>3. QED
    BY <1>13, <2>2, GotoType DEF CheckOwner, Look, TypeOK
<1>14. ASSUME NEW h \in Handlers, Submit(h) PROVE TypeOK'
  <2>1. handler[h] \in Checked
    BY <1>14, Shapes DEF Submit, At, InChecks, Steps
  <2> DEFINE row == [profile |-> handler[h].profile, status |-> "pending"]
  <2>2. row \in Job /\ jobs \in Seq(Job)
    BY <2>1 DEF Checked, Job, TypeOK
  <2>3. (UNCHANGED jobs \/ jobs' = Append(jobs, row)) /\ Goto(h, Idle)
    BY <1>14 DEF Submit
  <2> HIDE DEF row
  <2>4. jobs' \in Seq(Job)
    BY <2>2, <2>3, AppendProperties
  <2>5. QED
    BY <1>14, <2>3, <2>4, GotoType DEF Submit, TypeOK
<1>15. ASSUME NEW h \in Handlers, NEW j \in DOMAIN jobs, CheckJob(h, j) PROVE TypeOK'
  <2>1. handler[h] \in Checked /\ j \in Nat
    BY <1>15, Shapes DEF CheckJob, At, InChecks, Steps, TypeOK
  <2>2. [handler[h] EXCEPT !.at = "retry", !.job = j] \in Checked
    BY <2>1 DEF Checked, Steps
  <2>3. QED
    BY <1>15, <2>2, GotoType DEF CheckJob, TypeOK
<1>16. ASSUME NEW h \in Handlers, RetryJob(h) PROVE TypeOK'
  <2>1. jobs' = [jobs EXCEPT ![handler[h].job] = [jobs[handler[h].job] EXCEPT !.status = "pending"]]
    BY <1>16 DEF RetryJob
  <2>2. jobs' \in Seq(Job)
    BY <2>1, Tables, Row DEF TypeOK
  <2>3. QED
    BY <1>16, <2>2, GotoType DEF RetryJob, TypeOK
<1>17. ASSUME NEW j \in DOMAIN jobs, JobFails(j) PROVE TypeOK'
  <2>1. jobs' = [jobs EXCEPT ![j] = [jobs[j] EXCEPT !.status = "failed"]]
    BY <1>17 DEF JobFails
  <2>2. jobs' \in Seq(Job)
    BY <2>1, Tables, Row DEF TypeOK
  <2>3. QED
    BY <1>17, <2>2 DEF JobFails, TypeOK
<1>18. ASSUME NEW t \in DOMAIN sessions, Expire(t) PROVE TypeOK'
  <2>1. sessions' = [sessions EXCEPT ![t] = [sessions[t] EXCEPT !.status = "expired"]]
    BY <1>18 DEF Expire
  <2>2. sessions' \in Seq(Session)
    BY <2>1, Tables, Row DEF TypeOK
  <2>3. \A g \in With(t) : Raced(handler[g]) \in Checked
    BY Shapes, RacedFields DEF With, InChecks
  <2>4. QED
    BY <1>18, <2>2, <2>3 DEF Expire, TypeOK
<1>19. ASSUME NEW h \in Handlers, Forbidden(h) \/ List(h) \/ StatementFails(h) PROVE TypeOK'
  BY <1>19, RefuseType DEF Forbidden, List, StatementFails
<1>20. CASE UNCHANGED vars
  BY <1>20 DEF vars, TypeOK
<1>21. QED
  BY <1>1, <1>2, <1>3, <1>4, <1>5, <1>6, <1>7, <1>8, <1>9, <1>10, <1>11, <1>12, <1>13,
     <1>14, <1>15, <1>16, <1>17, <1>18, <1>19, <1>20 DEF Next, Request, Authenticated

LEMMA TypeInit == Init => TypeOK
BY EmptySeq DEF Init, TypeOK

\* Every variable keeps its type.
THEOREM TypeCorrect == Spec => []TypeOK
BY TypeInit, TypeStep, PTL DEF Spec
-----------------------------------------------------------------------------
\* Appending leaves the rows that are there alone.
LEMMA Appended ==
  ASSUME NEW S, NEW rows \in Seq(S), NEW row \in S
  PROVE  /\ DOMAIN Append(rows, row) = DOMAIN rows \cup {Len(rows) + 1}
         /\ \A i \in DOMAIN rows : Append(rows, row)[i] = rows[i]
         /\ Append(rows, row)[Len(rows) + 1] = row
BY AppendProperties, LenProperties

LEMMA OutlivesStep == TypeOK /\ NothingOutlives /\ [Next]_vars => NothingOutlives'
<1> SUFFICES ASSUME TypeOK, NothingOutlives, [Next]_vars PROVE NothingOutlives'
  OBVIOUS
<1> USE DEF NothingOutlives, UserThere, ThereUsers, ThereProfiles
<1>1. ASSUME UNCHANGED <<users, sessions, profiles>> PROVE NothingOutlives'
  BY <1>1
<1>2. ASSUME NEW h \in Handlers, CreateUser(h), ~Taken(handler[h].name) PROVE NothingOutlives'
  <2> DEFINE row == [name |-> handler[h].name, admin |-> handler[h].first,
                     there |-> TRUE, beside |-> handler[h].beside]
  <2>1. row \in User
    BY <1>2, Shapes DEF CreateUser, Registering, User
  <2>2. users' = Append(users, row) /\ UNCHANGED <<sessions, profiles>> /\ users \in Seq(User)
    BY <1>2 DEF CreateUser, TypeOK
  <2> HIDE DEF row
  <2>3. \A u \in DOMAIN users : u \in DOMAIN users' /\ users'[u] = users[u]
    BY <2>1, <2>2, Appended
  <2>4. QED
    BY <2>2, <2>3
<1>3. ASSUME NEW h \in Handlers, IssueSession(h), UserThere(handler[h].user)
      PROVE  NothingOutlives'
  <2> DEFINE row == [user |-> handler[h].user, status |-> "open"]
  <2>1. row \in Session /\ row.user = handler[h].user
    BY <1>3, Shapes DEF IssueSession, Issuing, Session
  <2>2. sessions' = Append(sessions, row) /\ UNCHANGED <<users, profiles>>
        /\ sessions \in Seq(Session)
    BY <1>3 DEF IssueSession, TypeOK
  <2> HIDE DEF row
  <2>3. \A t \in DOMAIN sessions' :
          sessions'[t] = row \/ (t \in DOMAIN sessions /\ sessions'[t] = sessions[t])
    BY <2>1, <2>2, Appended
  <2>4. QED
    BY <1>3, <2>1, <2>2, <2>3
\* Sessions that end or expire.
<1>4. ASSUME NEW t, NEW status \in {"expired", "ended"},
             t \in DOMAIN sessions => sessions[t].status # "ended" \/ status = "ended",
             sessions' = [sessions EXCEPT ![t] = [sessions[t] EXCEPT !.status = status]],
             UNCHANGED <<users, profiles>>
      PROVE  NothingOutlives'
  <2>1. t \in DOMAIN sessions =>
          sessions[t] \in Session
    BY Tables
  <2>2. DOMAIN sessions' = DOMAIN sessions
    BY <1>4
  <2>3. t \in DOMAIN sessions =>
          sessions'[t].user = sessions[t].user /\ sessions'[t].status = status
    BY <1>4, <2>1 DEF Session
  <2>4. \A s \in DOMAIN sessions : s # t => sessions'[s] = sessions[s]
    BY <1>4
  <2>5. QED
    BY <1>4, <2>2, <2>3, <2>4
\* A profile that changes keeps its owner and does not come back.
<1>5. ASSUME NEW p \in ThereProfiles, NEW row \in Profile, row.owner = profiles[p].owner,
             profiles' = [profiles EXCEPT ![p] = row], UNCHANGED <<users, sessions>>
      PROVE  NothingOutlives'
  BY <1>5
<1>6. ASSUME NEW h \in Handlers, DeleteAccount(h) PROVE NothingOutlives'
  <2> DEFINE u == handler[h].user
  <2>1. /\ DOMAIN users' = DOMAIN users
        /\ \A v \in DOMAIN users : v # u => users'[v] = users[v]
    BY <1>6 DEF DeleteAccount
  <2>2. \A t \in DOMAIN sessions : sessions[t] \in Session
    BY Tables
  <2>3. /\ DOMAIN sessions' = DOMAIN sessions
        /\ \A t \in DOMAIN sessions :
             IF sessions[t].user = u THEN sessions'[t].status = "ended"
                                     ELSE sessions'[t] = sessions[t]
    BY <1>6, <2>2 DEF DeleteAccount, Session
  <2>4. \A p \in DOMAIN profiles : profiles[p] \in Profile
    BY Tables
  <2>5. /\ DOMAIN profiles' = DOMAIN profiles
        /\ \A p \in DOMAIN profiles :
             IF profiles[p].owner = u THEN ~profiles'[p].there
                                      ELSE profiles'[p] = profiles[p]
    BY <1>6, <2>4 DEF DeleteAccount, Profile
  <2>6. QED
    BY <2>1, <2>3, <2>5
<1>7. ASSUME NEW h \in Handlers, NEW slug \in Slugs, NEW public \in BOOLEAN,
             CreateProfile(h, slug, public)
      PROVE  NothingOutlives'
  <2> DEFINE u == handler[h].user
             row == [owner |-> u, slug |-> slug, public |-> public, there |-> TRUE]
  <2>1. CASE UserThere(u) /\ \A p \in Of(u) : profiles[p].slug # slug
    <3>1. row \in Profile /\ row.owner = u
      BY <2>1 DEF TypeOK, Profile
    <3>2. profiles' = Append(profiles, row) /\ UNCHANGED <<users, sessions>>
          /\ profiles \in Seq(Profile)
      BY <1>7, <2>1 DEF CreateProfile, TypeOK
    <3> HIDE DEF row
    <3>3. \A p \in DOMAIN profiles' :
            profiles'[p] = row \/ (p \in DOMAIN profiles /\ profiles'[p] = profiles[p])
      BY <3>1, <3>2, Appended
    <3>4. QED
      BY <2>1, <3>1, <3>2, <3>3
  <2>2. CASE ~(UserThere(u) /\ \A p \in Of(u) : profiles[p].slug # slug)
    BY <1>1, <1>7, <2>2 DEF CreateProfile, Refuse
  <2>3. QED
    BY <2>1, <2>2
<1>8. ASSUME NEW h \in Handlers, NEW p \in DOMAIN profiles, NEW public \in BOOLEAN,
             UpdateProfile(h, p, public) \/ DeleteProfile(h, p)
      PROVE  NothingOutlives'
  <2>1. profiles[p] \in Profile /\ p \in ThereProfiles
    BY <1>8, Tables DEF UpdateProfile, DeleteProfile, Of
  <2>2. \/ profiles' = [profiles EXCEPT ![p] = [profiles[p] EXCEPT !.public = public]]
        \/ profiles' = [profiles EXCEPT ![p] = [profiles[p] EXCEPT !.there = FALSE]]
    BY <1>8 DEF UpdateProfile, DeleteProfile
  <2>3. \A row \in {[profiles[p] EXCEPT !.public = public], [profiles[p] EXCEPT !.there = FALSE]} :
          row \in Profile /\ row.owner = profiles[p].owner
    BY <2>1 DEF Profile
  <2>4. UNCHANGED <<users, sessions>>
    BY <1>8 DEF UpdateProfile, DeleteProfile
  <2>5. QED
    BY <1>5, <2>1, <2>2, <2>3, <2>4
<1>9. ASSUME NEW h \in Handlers, Logout(h) PROVE NothingOutlives'
  <2>1. /\ sessions' = [sessions EXCEPT ![handler[h].token] =
                          [sessions[handler[h].token] EXCEPT !.status = "ended"]]
        /\ UNCHANGED <<users, profiles>>
    BY <1>9 DEF Logout
  <2>2. QED
    BY <1>4, <2>1
<1>10. ASSUME NEW t \in DOMAIN sessions, Expire(t) PROVE NothingOutlives'
  <2>1. /\ sessions' = [sessions EXCEPT ![t] = [sessions[t] EXCEPT !.status = "expired"]]
        /\ sessions[t].status # "ended" /\ UNCHANGED <<users, profiles>>
    BY <1>10 DEF Expire
  <2>2. QED
    BY <1>4, <2>1
\* The steps that leave the tables alone, or only touch jobs.
<1>11. ASSUME NEW h \in Handlers,
              \/ \E n \in Names : Register(h, n)
              \/ CreateUser(h) /\ Taken(handler[h].name)
              \/ IssueSession(h) /\ ~UserThere(handler[h].user)
              \/ \E u \in DOMAIN users : Login(h, u)
              \/ \E t \in DOMAIN sessions : ReadSession(h, t)
              \/ \E p \in DOMAIN profiles :
                   LookAnonymously(h, p) \/ CheckOwner(h, p) \/ Look(h, p)
              \/ \E j \in DOMAIN jobs : CheckJob(h, j)
              \/ ReadUser(h) \/ Forbidden(h) \/ Submit(h) \/ RetryJob(h) \/ List(h)
              \/ StatementFails(h)
       PROVE  NothingOutlives'
  <2>1. UNCHANGED <<users, sessions, profiles>>
    BY <1>11 DEF Register, CreateUser, IssueSession, Login, ReadSession, LookAnonymously,
                 CheckOwner, Look, CheckJob, ReadUser, Forbidden, Submit, RetryJob, List,
                 StatementFails, Refuse
  <2>2. QED
    BY <1>1, <2>1
<1>12. ASSUME (\E j \in DOMAIN jobs : JobFails(j)) \/ UNCHANGED vars PROVE NothingOutlives'
  BY <1>1, <1>12 DEF JobFails, vars
<1>13. QED
  BY <1>2, <1>3, <1>6, <1>7, <1>8, <1>9, <1>10, <1>11, <1>12 DEF Next, Request, Authenticated

\* No session and no profile outlives its account, however a request to insert
\* one and a request to delete the account interleave.
THEOREM Cascades == Spec => []NothingOutlives
<1>1. Init => NothingOutlives
  BY DEF Init, NothingOutlives, ThereProfiles
<1>2. QED
  BY <1>1, TypeCorrect, OutlivesStep, PTL DEF Spec
-----------------------------------------------------------------------------
\* AdminsExplained is not inductive.  Whoever counted no user registers beside
\* all that are there by now, and before the first user is inserted everybody
\* counted none.
Counted ==
  /\ \A h \in Handlers : At(h, "hash") /\ handler[h].first => ThereUsers \subseteq handler[h].beside
  /\ users = << >> => \A h \in Handlers : At(h, "hash") => handler[h].first

AdminsInv ==
  /\ \A u, v \in Admins : u < v => u \in users[v].beside
  /\ users # << >> => \E u \in DOMAIN users : users[u].admin
  /\ Counted

\* Users may go and requests may leave.
LEMMA AdminsKept ==
  ASSUME TypeOK, AdminsInv, DOMAIN users' = DOMAIN users, users' \in Seq(User),
         \A u \in DOMAIN users : /\ users'[u].admin = users[u].admin
                                 /\ users'[u].beside = users[u].beside
                                 /\ users'[u].there => users[u].there,
         \A h \in Handlers : At(h, "hash")' => At(h, "hash") /\ handler'[h] = handler[h]
  PROVE  AdminsInv'
<1>1. Admins' \subseteq Admins /\ ThereUsers' \subseteq ThereUsers
  BY DEF Admins, ThereUsers
<1>2. users' = << >> <=> users = << >>
  BY DEF TypeOK
<1>3. \A u, v \in Admins' : u < v => u \in users'[v].beside
  BY <1>1 DEF AdminsInv, Admins, ThereUsers
<1>4. users' # << >> => \E u \in DOMAIN users' : users'[u].admin
  BY <1>2 DEF AdminsInv
<1>5. Counted'
  BY <1>1, <1>2 DEF AdminsInv, Counted
<1>6. QED
  BY <1>3, <1>4, <1>5 DEF AdminsInv

\* Where a request goes that does not register, the others stay.
LEMMA GotoKept ==
  ASSUME TypeOK, AdminsInv, UNCHANGED users, NEW h \in Handlers, NEW state,
         Goto(h, state), state.at # "hash"
  PROVE  AdminsInv'
<1>1. users' \in Seq(User)
  BY DEF TypeOK
<1>2. \A g \in Handlers : At(g, "hash")' => At(g, "hash") /\ handler'[g] = handler[g]
  BY DEF Goto, At, TypeOK
<1>3. QED
  BY <1>1, <1>2, AdminsKept

LEMMA AnswerKept ==
  ASSUME TypeOK, NEW h \in Handlers, NEW state, NEW others \in SUBSET InChecks,
         Answer(h, state, others), state.at # "hash"
  PROVE  \A g \in Handlers : At(g, "hash")' => At(g, "hash") /\ handler'[g] = handler[g]
<1>1. \A g \in others : Raced(handler[g]).at # "hash"
  BY Shapes, RacedFields DEF InChecks, Steps
<1>2. QED
  BY <1>1 DEF Answer, At

LEMMA AdminsStep == TypeOK /\ AdminsInv /\ [Next]_vars => AdminsInv'
<1> SUFFICES ASSUME TypeOK, AdminsInv, [Next]_vars PROVE AdminsInv'
  OBVIOUS
<1>0. TypeOK'
  BY TypeStep
<1>1. ASSUME NEW h \in Handlers, NEW n \in Names, Register(h, n) PROVE AdminsInv'
  <2> DEFINE state == [at |-> "hash", name |-> n, first |-> ThereUsers = {}, beside |-> {}]
  <2>1. Goto(h, state) /\ UNCHANGED users
    BY <1>1 DEF Register
  <2>2. \A g \in Handlers : handler'[g] = IF g = h THEN state ELSE handler[g]
    BY <2>1 DEF Goto, TypeOK
  <2>3. /\ state.first => ThereUsers = {}
        /\ users = << >> => ThereUsers = {} /\ state.first
    <3>1. users = << >> => ThereUsers = {}
      BY DEF ThereUsers
    <3>2. QED
      BY <3>1
  <2> HIDE DEF state
  <2>4. Counted'
    <3>1. \A g \in Handlers : At(g, "hash")' /\ handler'[g].first =>
            ThereUsers \subseteq handler'[g].beside
      BY <2>2, <2>3 DEF AdminsInv, Counted, At
    <3>2. users = << >> => \A g \in Handlers : At(g, "hash")' => handler'[g].first
      BY <2>2, <2>3 DEF AdminsInv, Counted, At
    <3>3. ThereUsers' = ThereUsers
      BY <2>1 DEF ThereUsers
    <3>4. QED
      BY <2>1, <3>1, <3>2, <3>3 DEF Counted
  <2>5. QED
    BY <2>1, <2>4 DEF AdminsInv, Admins, ThereUsers
<1>2. ASSUME NEW h \in Handlers, CreateUser(h), ~Taken(handler[h].name) PROVE AdminsInv'
  <2> DEFINE id == Len(users) + 1
             row == [name |-> handler[h].name, admin |-> handler[h].first,
                     there |-> TRUE, beside |-> handler[h].beside]
  <2>1. handler[h] \in Registering
    BY <1>2, Shapes DEF CreateUser
  <2>2. row \in User /\ row.admin = handler[h].first /\ row.beside = handler[h].beside
    BY <2>1 DEF Registering, User
  <2>3. users' = Append(users, row) /\ users \in Seq(User)
    BY <1>2 DEF CreateUser, TypeOK
  <2>4. \A g \in Handlers : At(g, "hash")' =>
          /\ At(g, "hash") /\ handler'[g].first = handler[g].first
          /\ handler'[g].beside = handler[g].beside \cup {id}
    <3>1. ASSUME NEW request \in Registering
          PROVE  /\ [request EXCEPT !.beside = @ \cup {id}].first = request.first
                 /\ [request EXCEPT !.beside = @ \cup {id}].beside = request.beside \cup {id}
      BY DEF Registering
    <3>2. \A g \in Handlers : handler'[g] =
            IF g = h THEN [at |-> "issue", user |-> id]
            ELSE IF At(g, "hash") THEN [handler[g] EXCEPT !.beside = @ \cup {id}]
            ELSE handler[g]
      BY <1>2 DEF CreateUser
    <3>3. \A g \in Handlers : At(g, "hash")' =>
            At(g, "hash") /\ handler'[g] = [handler[g] EXCEPT !.beside = @ \cup {id}]
      <4>1. ASSUME NEW g \in Handlers, At(g, "hash")'
            PROVE  g # h /\ At(g, "hash")
        <5>1. handler'[g].at = "hash"
          BY <4>1 DEF At
        <5>2. g # h
          <6>1. CASE g = h
            <7>1. handler'[g] = [at |-> "issue", user |-> id]
              BY <3>2, <6>1
            <7>2. handler'[g].at = "issue"
              BY <7>1
            <7>3. QED
              BY <5>1, <7>2
          <6>2. QED
            BY <6>1
        <5>3. QED
          BY <3>2, <5>1, <5>2 DEF At
      <4>2. QED
        BY <3>2, <4>1
    <3>4. ASSUME NEW g \in Handlers, At(g, "hash")'
          PROVE  /\ At(g, "hash") /\ handler'[g].first = handler[g].first
                 /\ handler'[g].beside = handler[g].beside \cup {id}
      <4>1. At(g, "hash") /\ handler'[g] = [handler[g] EXCEPT !.beside = @ \cup {id}]
        BY <3>3, <3>4
      <4>2. handler[g] \in Registering
        BY <4>1, Shapes
      <4>3. QED
        BY <3>1, <4>1, <4>2
    <3>5. QED
      BY <3>4
  <2> HIDE DEF row
  <2>5. /\ DOMAIN users' = DOMAIN users \cup {id} /\ users'[id] = row
        /\ \A u \in DOMAIN users : users'[u] = users[u] /\ u < id
    BY <2>2, <2>3, Appended
  <2>6. ThereUsers' \subseteq ThereUsers \cup {id}
    BY <2>5 DEF ThereUsers
  <2>7. \A u, v \in Admins' : u < v => u \in users'[v].beside
    <3>1. \A u \in Admins' : u = id \/ u \in Admins
      BY <2>5 DEF Admins, ThereUsers
    <3>2. id \in Admins' => ThereUsers \subseteq users'[id].beside
      BY <1>2, <2>2, <2>5 DEF CreateUser, AdminsInv, Counted, Admins
    <3>3. \A u \in Admins : u \in DOMAIN users /\ u \in ThereUsers /\ u < id /\ ~(id < u)
      BY <2>3, <2>5 DEF Admins, ThereUsers
    <3>4. ~(id < id)
      BY <2>3
    <3>5. QED
      BY <2>5, <3>1, <3>2, <3>3, <3>4 DEF AdminsInv
  <2>8. \E u \in DOMAIN users' : users'[u].admin
    <3>1. CASE users = << >>
      BY <1>2, <2>2, <2>5, <3>1 DEF CreateUser, AdminsInv, Counted
    <3>2. CASE users # << >>
      BY <2>5, <3>2 DEF AdminsInv
    <3>3. QED
      BY <3>1, <3>2
  <2>9. users' # << >>
    BY <2>5
  <2>10. Counted'
    BY <2>4, <2>6, <2>9 DEF AdminsInv, Counted
  <2>11. QED
    BY <2>7, <2>8, <2>10 DEF AdminsInv
<1>3. ASSUME NEW h \in Handlers, DeleteAccount(h) PROVE AdminsInv'
  <2> DEFINE u == handler[h].user
             others == {g \in InChecks : handler[g].user = u} \cup About(Of(u))
  <2>1. Answer(h, Idle, others) /\ others \in SUBSET InChecks /\ Idle.at # "hash"
    BY <1>3 DEF DeleteAccount, About, Idle
  <2>2. \A v \in DOMAIN users :
          /\ users'[v].admin = users[v].admin /\ users'[v].beside = users[v].beside
          /\ users'[v].there => users[v].there
    <3>1. \A v \in DOMAIN users : users[v] \in User
      BY Tables
    <3>2. \A v \in DOMAIN users :
            users'[v] = IF v = u THEN [users[v] EXCEPT !.there = FALSE] ELSE users[v]
      BY <1>3 DEF DeleteAccount
    <3>3. QED
      BY <3>1, <3>2 DEF User
  <2>3. DOMAIN users' = DOMAIN users
    BY <1>3 DEF DeleteAccount
  <2> HIDE DEF others
  <2>4. \A g \in Handlers : At(g, "hash")' => At(g, "hash") /\ handler'[g] = handler[g]
    BY <2>1, AnswerKept
  <2>5. users' \in Seq(User)
    BY <1>0 DEF TypeOK
  <2>6. QED
    BY <2>2, <2>3, <2>4, <2>5, AdminsKept
\* The other answers leave the users alone.
<1>4. ASSUME NEW h \in Handlers, NEW state, NEW others \in SUBSET InChecks,
             Answer(h, state, others), state.at # "hash", UNCHANGED users
      PROVE  AdminsInv'
  <2>1. users' \in Seq(User)
    BY <1>0 DEF TypeOK
  <2>2. \A g \in Handlers : At(g, "hash")' => At(g, "hash") /\ handler'[g] = handler[g]
    BY <1>4, AnswerKept
  <2>3. QED
    BY <1>4, <2>1, <2>2, AdminsKept
<1>5. ASSUME NEW h \in Handlers, Logout(h) \/ \E p \in DOMAIN profiles : DeleteProfile(h, p)
      PROVE  AdminsInv'
  <2>1. Idle.at # "hash"
    BY DEF Idle
  <2>2. /\ \A p : About({p}) \in SUBSET InChecks
        /\ With(handler[h].token) \in SUBSET InChecks
    BY DEF About, With
  <2>3. UNCHANGED users /\ \E others \in SUBSET InChecks : Answer(h, Idle, others)
    BY <1>5, <2>2 DEF DeleteProfile, Logout
  <2>4. QED
    BY <1>4, <2>1, <2>3
<1>6. ASSUME NEW h \in Handlers, NEW p \in DOMAIN profiles, NEW public \in BOOLEAN,
             UpdateProfile(h, p, public)
      PROVE  AdminsInv'
  <2> DEFINE others == IF public THEN {} ELSE Strangers(p)
  <2>1. Answer(h, Submitting(h, p), others) /\ UNCHANGED users
    BY <1>6 DEF UpdateProfile
  <2>2. others \in SUBSET InChecks
    BY DEF Strangers
  <2>3. Submitting(h, p).at # "hash"
    <3>1. handler[h] \in Checked
      BY <1>6, Shapes DEF UpdateProfile, At, InChecks, Steps
    <3>2. QED
      BY <3>1 DEF Submitting, Checked
  <2> HIDE DEF others
  <2>4. QED
    BY <1>4, <2>1, <2>2, <2>3
\* The requests that go on alone.
<1>7. ASSUME NEW h \in Handlers, UNCHANGED users, NEW state, Goto(h, state), state.at # "hash"
      PROVE  AdminsInv'
  BY <1>7, GotoKept
<1>8. ASSUME NEW h \in Handlers, Refuse(h) PROVE AdminsInv'
  <2>1. Goto(h, Idle) /\ UNCHANGED users /\ Idle.at # "hash"
    BY <1>8 DEF Refuse, Idle
  <2>2. QED
    BY <1>7, <2>1
<1>9. ASSUME NEW h \in Handlers,
             \/ CreateUser(h) /\ Taken(handler[h].name)
             \/ IssueSession(h) /\ ~UserThere(handler[h].user)
             \/ ReadUser(h) /\ ~UserThere(handler[h].user)
             \/ Forbidden(h) \/ List(h) \/ StatementFails(h)
      PROVE  AdminsInv'
  BY <1>8, <1>9 DEF CreateUser, IssueSession, ReadUser, Forbidden, List, StatementFails
<1>10. ASSUME NEW h \in Handlers,
              \/ IssueSession(h) /\ UserThere(handler[h].user)
              \/ Submit(h) \/ RetryJob(h)
       PROVE  AdminsInv'
  <2>1. Goto(h, Idle) /\ UNCHANGED users /\ Idle.at # "hash"
    BY <1>10 DEF IssueSession, Submit, RetryJob, Idle
  <2>2. QED
    BY <1>7, <2>1
<1>11. ASSUME NEW h \in Handlers,
              \/ \E u \in DOMAIN users : Login(h, u)
              \/ \E t \in DOMAIN sessions : ReadSession(h, t)
              \/ \E p \in DOMAIN profiles : LookAnonymously(h, p)
       PROVE  AdminsInv'
  <2>1. CASE \E u \in DOMAIN users : Login(h, u)
    <3>1. PICK u \in DOMAIN users : Login(h, u)
      BY <2>1
    <3>2. [at |-> "issue", user |-> u].at # "hash"
      OBVIOUS
    <3>3. QED
      BY <1>7, <3>1, <3>2 DEF Login
  <2>2. CASE \E t \in DOMAIN sessions : ReadSession(h, t)
    <3>1. PICK t \in DOMAIN sessions : ReadSession(h, t)
      BY <2>2
    <3> DEFINE state == [at |-> "user", token |-> t, user |-> sessions[t].user,
                         admin |-> FALSE, profile |-> 0, job |-> 0, raced |-> FALSE]
    <3>2. state.at # "hash" /\ Goto(h, state) /\ UNCHANGED users
      BY <3>1 DEF ReadSession
    <3> HIDE DEF state
    <3>3. QED
      BY <1>7, <3>2
  <2>3. CASE \E p \in DOMAIN profiles : LookAnonymously(h, p)
    <3>1. PICK p \in DOMAIN profiles : LookAnonymously(h, p)
      BY <2>3
    <3> DEFINE state == [at |-> "list", token |-> 0, user |-> 0, admin |-> FALSE,
                         profile |-> p, job |-> 0, raced |-> FALSE]
    <3>2. state.at # "hash" /\ Goto(h, state) /\ UNCHANGED users
      BY <3>1 DEF LookAnonymously
    <3> HIDE DEF state
    <3>3. QED
      BY <1>7, <3>2
  <2>4. QED
    BY <1>11, <2>1, <2>2, <2>3
<1>12. ASSUME NEW h \in Handlers,
              \/ ReadUser(h) /\ UserThere(handler[h].user)
              \/ \E p \in DOMAIN profiles : CheckOwner(h, p) \/ Look(h, p)
              \/ \E j \in DOMAIN jobs : CheckJob(h, j)
       PROVE  AdminsInv'
  <2>1. handler[h] \in Checked
    BY <1>12, Shapes DEF ReadUser, CheckOwner, Look, CheckJob, At, InChecks, Steps
  <2>2. /\ \A p, admin : /\ [handler[h] EXCEPT !.at = "act", !.admin = admin].at # "hash"
                         /\ Submitting(h, p).at # "hash"
                         /\ [handler[h] EXCEPT !.at = "list", !.profile = p].at # "hash"
                         /\ [handler[h] EXCEPT !.at = "retry", !.job = p].at # "hash"
    BY <2>1 DEF Submitting, Checked
  <2>3. UNCHANGED users /\ \E state : Goto(h, state) /\ state.at # "hash"
    BY <1>12, <2>2 DEF ReadUser, CheckOwner, Look, CheckJob
  <2>4. QED
    BY <1>7, <2>3
<1>13. ASSUME NEW h \in Handlers, NEW slug \in Slugs, NEW public \in BOOLEAN,
              CreateProfile(h, slug, public)
       PROVE  AdminsInv'
  <2>1. CASE Refuse(h)
    BY <1>8, <2>1
  <2>2. CASE ~Refuse(h)
    <3>1. Submitting(h, Len(profiles) + 1).at # "hash"
      <4>1. handler[h] \in Checked
        BY <1>13, Shapes DEF CreateProfile, At, InChecks, Steps
      <4>2. QED
        BY <4>1 DEF Submitting, Checked
    <3>2. Goto(h, Submitting(h, Len(profiles) + 1)) /\ UNCHANGED users
      BY <1>13, <2>2 DEF CreateProfile
    <3>3. QED
      BY <1>7, <3>1, <3>2
  <2>3. QED
    BY <2>1, <2>2
<1>14. ASSUME NEW t \in DOMAIN sessions, Expire(t) PROVE AdminsInv'
  <2>1. users' \in Seq(User) /\ UNCHANGED users
    BY <1>0, <1>14 DEF Expire, TypeOK
  <2>2. \A g \in With(t) : Raced(handler[g]).at # "hash"
    BY Shapes, RacedFields DEF With, InChecks, Steps
  <2>3. \A g \in Handlers : At(g, "hash")' => At(g, "hash") /\ handler'[g] = handler[g]
    BY <1>14, <2>2 DEF Expire, At
  <2>4. QED
    BY <2>1, <2>3, AdminsKept
<1>15. ASSUME (\E j \in DOMAIN jobs : JobFails(j)) \/ UNCHANGED vars PROVE AdminsInv'
  <2>1. UNCHANGED <<users, handler>>
    BY <1>15 DEF JobFails, vars
  <2>2. users' \in Seq(User)
    BY <1>0 DEF TypeOK
  <2>3. QED
    BY <2>1, <2>2, AdminsKept DEF At
<1>16. QED
  BY <1>1, <1>2, <1>3, <1>5, <1>6, <1>9, <1>10, <1>11, <1>12, <1>13, <1>14, <1>15
     DEF Next, Request, Authenticated

\* The count that makes the first user the administrator is no lock: two may
\* become one, but only if the second was registering when the first was
\* inserted, and as soon as there is a user there has been an administrator.
THEOREM FirstIsAdmin == Spec => []AdminsExplained
<1>1. Init => AdminsInv
  BY DEF Init, AdminsInv, Counted, Admins, ThereUsers, At, Idle
<1>2. AdminsInv => AdminsExplained
  BY DEF AdminsInv, AdminsExplained, ThereUsers
<1>3. QED
  BY <1>1, <1>2, TypeCorrect, AdminsStep, PTL DEF Spec
-----------------------------------------------------------------------------
(***************************************************************************)
(* What a statement does to the rows that are there already: ids, owners   *)
(* and payloads stay.                                                      *)
(***************************************************************************)
\* The actions that leave every table alone.
LEMMA TablesKept ==
  ASSUME NEW h \in Handlers,
         \/ \E n \in Names : Register(h, n)
         \/ \E u \in DOMAIN users : Login(h, u)
         \/ \E t \in DOMAIN sessions : ReadSession(h, t)
         \/ \E p \in DOMAIN profiles : LookAnonymously(h, p) \/ CheckOwner(h, p) \/ Look(h, p)
         \/ \E j \in DOMAIN jobs : CheckJob(h, j)
         \/ ReadUser(h) \/ Forbidden(h) \/ List(h) \/ StatementFails(h)
  PROVE  UNCHANGED <<users, sessions, profiles, jobs>>
BY DEF Register, Login, ReadSession, LookAnonymously, CheckOwner, Look, CheckJob,
       ReadUser, Forbidden, List, StatementFails, Refuse

\* An administrator stays one.
LEMMA UsersStay ==
  ASSUME TypeOK, [Next]_vars, NEW u \in DOMAIN users
  PROVE  u \in DOMAIN users' /\ users'[u].admin = users[u].admin
<1>1. CASE UNCHANGED users
  BY <1>1
<1>2. ASSUME NEW h \in Handlers, CreateUser(h), ~Taken(handler[h].name)
      PROVE  u \in DOMAIN users' /\ users'[u] = users[u]
  <2> DEFINE row == [name |-> handler[h].name, admin |-> handler[h].first,
                     there |-> TRUE, beside |-> handler[h].beside]
  <2>1. users' = Append(users, row)
    BY <1>2 DEF CreateUser
  <2>2. row \in User
    BY <1>2, Shapes DEF CreateUser, Registering, User
  <2> HIDE DEF row
  <2>3. QED
    BY <2>1, <2>2, Appended DEF TypeOK
<1>3. ASSUME NEW h \in Handlers, DeleteAccount(h)
      PROVE  u \in DOMAIN users' /\ users'[u].admin = users[u].admin
  <2>1. users'[u] = users[u] \/ users'[u] = [users[u] EXCEPT !.there = FALSE]
    BY <1>3 DEF DeleteAccount
  <2>2. users[u] \in User
    BY Tables
  <2>3. QED
    BY <1>3, <2>1, <2>2 DEF DeleteAccount, User
<1>4. ASSUME NEW h \in Handlers, Request(h), ~DeleteAccount(h),
             CreateUser(h) => Taken(handler[h].name)
      PROVE  UNCHANGED users
  BY <1>4, TablesKept DEF Request, Authenticated, CreateUser, IssueSession, Refuse,
     Logout, CreateProfile, UpdateProfile, DeleteProfile, Submit, RetryJob
<1>5. ASSUME (\E t \in DOMAIN sessions : Expire(t)) \/ (\E j \in DOMAIN jobs : JobFails(j))
               \/ UNCHANGED vars
      PROVE  UNCHANGED users
  BY <1>5 DEF Expire, JobFails, vars
<1>6. QED
  BY <1>1, <1>2, <1>3, <1>4, <1>5 DEF Next

\* A session stays its user's.
LEMMA SessionsStay ==
  ASSUME TypeOK, [Next]_vars, NEW t \in DOMAIN sessions
  PROVE  t \in DOMAIN sessions' /\ sessions'[t].user = sessions[t].user
<1>0. sessions[t] \in Session
  BY Tables
<1>1. CASE UNCHANGED sessions
  BY <1>1
<1>2. ASSUME NEW h \in Handlers, IssueSession(h), UserThere(handler[h].user)
      PROVE  t \in DOMAIN sessions' /\ sessions'[t] = sessions[t]
  <2> DEFINE row == [user |-> handler[h].user, status |-> "open"]
  <2>1. sessions' = Append(sessions, row)
    BY <1>2 DEF IssueSession
  <2>2. row \in Session
    BY <1>2, Shapes DEF IssueSession, Issuing, Session
  <2> HIDE DEF row
  <2>3. QED
    BY <2>1, <2>2, Appended DEF TypeOK
<1>3. ASSUME NEW i, NEW status \in {"expired", "ended"},
             sessions' = [sessions EXCEPT ![i].status = status]
      PROVE  t \in DOMAIN sessions' /\ sessions'[t].user = sessions[t].user
  BY <1>0, <1>3 DEF Session
<1>4. ASSUME NEW h \in Handlers, DeleteAccount(h)
      PROVE  t \in DOMAIN sessions' /\ sessions'[t].user = sessions[t].user
  <2>1. sessions'[t] = sessions[t] \/ sessions'[t] = [sessions[t] EXCEPT !.status = "ended"]
    BY <1>4 DEF DeleteAccount
  <2>2. QED
    BY <1>0, <1>4, <2>1 DEF DeleteAccount, Session
<1>5. ASSUME NEW h \in Handlers, Logout(h)
      PROVE  t \in DOMAIN sessions' /\ sessions'[t].user = sessions[t].user
  BY <1>3, <1>5 DEF Logout
<1>6. ASSUME NEW h \in Handlers, Request(h), ~DeleteAccount(h), ~Logout(h),
             IssueSession(h) => ~UserThere(handler[h].user)
      PROVE  UNCHANGED sessions
  BY <1>6, TablesKept DEF Request, Authenticated, CreateUser, IssueSession, Refuse,
     CreateProfile, UpdateProfile, DeleteProfile, Submit, RetryJob
<1>7. ASSUME NEW i \in DOMAIN sessions, Expire(i)
      PROVE  t \in DOMAIN sessions' /\ sessions'[t].user = sessions[t].user
  BY <1>3, <1>7 DEF Expire
<1>8. ASSUME (\E j \in DOMAIN jobs : JobFails(j)) \/ UNCHANGED vars
      PROVE  UNCHANGED sessions
  BY <1>8 DEF JobFails, vars
<1>9. QED
  BY <1>1, <1>2, <1>4, <1>5, <1>6, <1>7, <1>8 DEF Next

\* What a request of its owner may do to a profile.
ByOwner(h, p) ==
  /\ At(h, "act") /\ profiles[p].owner = handler[h].user
  /\ handler'[h].at # "act"

\* A profile stays its owner's, and changes only by a request of that user.
LEMMA ProfilesStay ==
  ASSUME TypeOK, [Next]_vars, NEW p \in DOMAIN profiles
  PROVE  /\ p \in DOMAIN profiles' /\ profiles'[p].owner = profiles[p].owner
         /\ profiles'[p] # profiles[p] => \E h \in Handlers : ByOwner(h, p)
<1>0. profiles[p] \in Profile
  BY Tables
<1>1. CASE UNCHANGED profiles
  BY <1>1
<1>2. ASSUME NEW h \in Handlers, NEW slug \in Slugs, NEW public \in BOOLEAN,
             CreateProfile(h, slug, public), profiles' # profiles
      PROVE  p \in DOMAIN profiles' /\ profiles'[p] = profiles[p]
  <2> DEFINE row == [owner |-> handler[h].user, slug |-> slug, public |-> public,
                     there |-> TRUE]
  <2>1. profiles' = Append(profiles, row)
    BY <1>2 DEF CreateProfile, Refuse
  <2>2. handler[h] \in Checked
    BY <1>2, Shapes DEF CreateProfile, At, InChecks, Steps
  <2>3. row \in Profile
    BY <2>2 DEF Checked, Profile
  <2> HIDE DEF row
  <2>4. QED
    BY <2>1, <2>3, Appended DEF TypeOK
<1>3. ASSUME NEW h \in Handlers, DeleteAccount(h), profiles'[p] # profiles[p]
      PROVE  profiles'[p].owner = profiles[p].owner /\ ByOwner(h, p)
  <2>1. profiles[p].owner = handler[h].user /\ profiles'[p] = [profiles[p] EXCEPT !.there = FALSE]
    BY <1>3 DEF DeleteAccount
  <2>2. handler'[h] = Idle
    BY <1>3 DEF DeleteAccount, Answer
  <2>3. QED
    BY <1>0, <1>3, <2>1, <2>2 DEF DeleteAccount, ByOwner, Profile, Idle
<1>4. ASSUME NEW h \in Handlers, DeleteAccount(h) PROVE p \in DOMAIN profiles'
  BY <1>4 DEF DeleteAccount
<1>5. ASSUME NEW h \in Handlers, NEW q \in DOMAIN profiles,
             DeleteProfile(h, q) \/ \E public \in BOOLEAN : UpdateProfile(h, q, public)
      PROVE  /\ p \in DOMAIN profiles' /\ profiles'[p].owner = profiles[p].owner
             /\ profiles'[p] # profiles[p] => ByOwner(h, p)
  <2>1. /\ p \in DOMAIN profiles' /\ profiles'[p].owner = profiles[p].owner
        /\ profiles'[p] # profiles[p] => p = q
    BY <1>0, <1>5 DEF DeleteProfile, UpdateProfile, Profile
  <2>2. handler[h] \in Checked /\ At(h, "act") /\ profiles[q].owner = handler[h].user
    BY <1>5, Shapes DEF DeleteProfile, UpdateProfile, At, InChecks, Steps, Of
  <2>3. handler'[h] = Idle \/ handler'[h] = Submitting(h, q)
    BY <1>5 DEF DeleteProfile, UpdateProfile, Answer
  <2>4. handler'[h].at # "act"
    <3>1. Submitting(h, q).at = "insert"
      BY <2>2 DEF Submitting, Checked
    <3>2. QED
      BY <2>3, <3>1 DEF Idle
  <2>5. QED
    BY <2>1, <2>2, <2>4 DEF ByOwner
<1>6. ASSUME NEW h \in Handlers, Request(h), ~DeleteAccount(h),
             \A q \in DOMAIN profiles : ~DeleteProfile(h, q)
               /\ \A public \in BOOLEAN : ~UpdateProfile(h, q, public),
             \A slug \in Slugs, public \in BOOLEAN : ~CreateProfile(h, slug, public)
      PROVE  UNCHANGED profiles
  BY <1>6, TablesKept DEF Request, Authenticated, CreateUser, IssueSession, Refuse,
     Logout, Submit, RetryJob
<1>7. ASSUME (\E t \in DOMAIN sessions : Expire(t)) \/ (\E j \in DOMAIN jobs : JobFails(j))
               \/ UNCHANGED vars
      PROVE  UNCHANGED profiles
  BY <1>7 DEF Expire, JobFails, vars
<1>8. QED
  BY <1>1, <1>2, <1>3, <1>4, <1>5, <1>6, <1>7 DEF Next
\* A job stays its profile's; a new one, and a failed one that is pending again,
\* come from a request that was let through for it.
LEMMA JobsStay ==
  ASSUME TypeOK, [Next]_vars
  PROVE  /\ \A j \in DOMAIN jobs :
              /\ j \in DOMAIN jobs' /\ jobs'[j].profile = jobs[j].profile
              /\ jobs[j].status = "failed" /\ jobs'[j].status = "pending" =>
                   \E h \in Handlers : RetryJob(h) /\ handler[h].job = j
         /\ \A j \in DOMAIN jobs' : j \notin DOMAIN jobs =>
              \E h \in Handlers : Submit(h) /\ jobs'[j].profile = handler[h].profile
<1>0. \A j \in DOMAIN jobs : jobs[j] \in Job
  BY Tables
<1>1. CASE UNCHANGED jobs
  BY <1>1
<1>2. ASSUME NEW h \in Handlers, Submit(h), jobs' # jobs
      PROVE  /\ \A j \in DOMAIN jobs : j \in DOMAIN jobs' /\ jobs'[j] = jobs[j]
             /\ \A j \in DOMAIN jobs' : j \notin DOMAIN jobs =>
                  jobs'[j].profile = handler[h].profile
  <2> DEFINE row == [profile |-> handler[h].profile, status |-> "pending"]
  <2>1. jobs' = Append(jobs, row) /\ row.profile = handler[h].profile
    BY <1>2 DEF Submit
  <2>2. handler[h] \in Checked
    BY <1>2, Shapes DEF Submit, At, InChecks, Steps
  <2>3. row \in Job /\ jobs \in Seq(Job)
    BY <2>2 DEF Checked, Job, TypeOK
  <2> HIDE DEF row
  <2>4. /\ DOMAIN jobs' = DOMAIN jobs \cup {Len(jobs) + 1}
        /\ \A j \in DOMAIN jobs : jobs'[j] = jobs[j]
        /\ jobs'[Len(jobs) + 1] = row
    BY <2>1, <2>3, Appended
  <2>5. QED
    BY <2>1, <2>4
<1>3. ASSUME NEW h \in Handlers, RetryJob(h), NEW j \in DOMAIN jobs
      PROVE  /\ DOMAIN jobs' = DOMAIN jobs /\ jobs'[j].profile = jobs[j].profile
             /\ handler[h].job # j => jobs'[j] = jobs[j]
  BY <1>0, <1>3 DEF RetryJob, Job
<1>4. ASSUME NEW i \in DOMAIN jobs, JobFails(i), NEW j \in DOMAIN jobs
      PROVE  /\ DOMAIN jobs' = DOMAIN jobs /\ jobs'[j].profile = jobs[j].profile
             /\ jobs'[j].status \in {jobs[j].status, "failed"}
  BY <1>0, <1>4 DEF JobFails, Job
<1>5. ASSUME NEW h \in Handlers, Request(h), ~Submit(h), ~RetryJob(h)
      PROVE  UNCHANGED jobs
  BY <1>5, TablesKept DEF Request, Authenticated, CreateUser, IssueSession, Refuse,
     Logout, DeleteAccount, CreateProfile, UpdateProfile, DeleteProfile
<1>6. ASSUME (\E t \in DOMAIN sessions : Expire(t)) \/ UNCHANGED vars
      PROVE  UNCHANGED jobs
  BY <1>6 DEF Expire, vars
<1>7. ASSUME NEW h \in Handlers, Submit(h), jobs' # jobs
      PROVE  /\ \A j \in DOMAIN jobs :
                  /\ j \in DOMAIN jobs' /\ jobs'[j].profile = jobs[j].profile
                  /\ jobs'[j].status = jobs[j].status
             /\ \A j \in DOMAIN jobs' : j \notin DOMAIN jobs =>
                  jobs'[j].profile = handler[h].profile
  BY <1>2, <1>7
<1>8. CASE \E h \in Handlers : RetryJob(h)
  <2>1. PICK h \in Handlers : RetryJob(h)
    BY <1>8
  <2>2. \A j \in DOMAIN jobs : /\ DOMAIN jobs' = DOMAIN jobs /\ jobs'[j].profile = jobs[j].profile
                               /\ handler[h].job # j => jobs'[j] = jobs[j]
    BY <1>3, <2>1
  <2>3. DOMAIN jobs' = DOMAIN jobs
    BY <2>1 DEF RetryJob
  <2>4. QED
    BY <2>1, <2>2, <2>3
<1>9. CASE \E i \in DOMAIN jobs : JobFails(i)
  <2>1. DOMAIN jobs' = DOMAIN jobs
    BY <1>9 DEF JobFails
  <2>2. QED
    BY <1>4, <1>9, <2>1
<1>10. QED
  BY <1>1, <1>5, <1>6, <1>7, <1>8, <1>9 DEF Next

-----------------------------------------------------------------------------
(***************************************************************************)
(* What a request was let through for.                                     *)
(***************************************************************************)
\* The steps that take a request from one check to the next.
Enters(g) ==
  \/ \E t \in DOMAIN sessions : ReadSession(g, t)
  \/ \E p \in DOMAIN profiles : LookAnonymously(g, p) \/ CheckOwner(g, p) \/ Look(g, p)
  \/ \E p \in DOMAIN profiles, public \in BOOLEAN : UpdateProfile(g, p, public)
  \/ \E slug \in Slugs, public \in BOOLEAN : CreateProfile(g, slug, public)
  \/ \E j \in DOMAIN jobs : CheckJob(g, j)
  \/ ReadUser(g)

\* The fields of a request as the one who goes on leaves them to the others.
LEMMA OthersKeep ==
  ASSUME TypeOK, NEW h \in Handlers, NEW s, Goto(h, s) \/ \E others : Answer(h, s, others)
  PROVE  /\ handler'[h] = s
         /\ \A g \in Handlers \ {h} : handler'[g] \in {handler[g], Raced(handler[g])}
BY DEF Goto, Answer, TypeOK

\* A request that is between its checks was there already, raced or not since,
\* or enters by a step of its own.
LEMMA InChecksStep ==
  ASSUME TypeOK, [Next]_vars, NEW g \in Handlers, handler'[g].at \in Steps, ~Enters(g)
  PROVE  g \in InChecks /\ handler'[g] \in {handler[g], Raced(handler[g])}
<1>1. ASSUME handler'[g] \in {handler[g], Raced(handler[g])}
      PROVE  g \in InChecks
  BY <1>1 DEF InChecks, Raced, TypeOK, Checked, Registering, Issuing, Idle, Steps
<1>2. ASSUME NEW h \in Handlers, NEW s, Goto(h, s) \/ \E others : Answer(h, s, others),
             h # g \/ s.at \notin Steps
      PROVE  handler'[g] \in {handler[g], Raced(handler[g])}
  BY <1>2, OthersKeep
<1>3. ASSUME NEW h \in Handlers, CreateUser(h)
      PROVE  handler'[g] = handler[g]
  <2>1. CASE Taken(handler[h].name)
    BY <1>3, <2>1, OthersKeep DEF CreateUser, Refuse, Goto, TypeOK, Idle, Steps
  <2>2. CASE ~Taken(handler[h].name)
    <3>1. ~At(g, "hash")
      <4>1. ASSUME At(g, "hash") PROVE handler'[g].at \in {"hash", "issue"}
        <5>1. handler[g] \in Registering
          BY <4>1, Shapes
        <5>2. QED
          BY <1>3, <2>2, <5>1 DEF CreateUser, Registering
      <4>2. QED
        BY <4>1 DEF Steps
    <3>2. QED
      BY <1>3, <2>2, <3>1 DEF CreateUser
  <2>3. QED
    BY <2>1, <2>2
<1>4. ASSUME NEW h \in Handlers, Request(h), ~CreateUser(h)
      PROVE  handler'[g] \in {handler[g], Raced(handler[g])}
  <2>1. CASE h = g
    <3>1. \E s : s.at \notin Steps /\ (Goto(h, s) \/ \E others : Answer(h, s, others))
      BY <1>4, <2>1 DEF Request, Enters, Authenticated, Register, IssueSession, Login,
         StatementFails, Logout, DeleteAccount, Forbidden, DeleteProfile, Submit,
         RetryJob, List, Refuse, Idle, Steps
    <3>2. QED
      BY <1>2, <3>1
  <2>2. CASE h # g
    <3>1. \E s : Goto(h, s) \/ \E others : Answer(h, s, others)
      BY <1>4 DEF Request, Authenticated, Register, IssueSession, Login, ReadSession,
         LookAnonymously, ReadUser, StatementFails, Logout, DeleteAccount, Forbidden,
         CreateProfile, UpdateProfile, DeleteProfile, CheckOwner, Look, CheckJob, Submit,
         RetryJob, List, Refuse
    <3>2. QED
      BY <1>2, <2>2, <3>1
  <2>3. QED
    BY <2>1, <2>2
<1>5. ASSUME NEW t \in DOMAIN sessions, Expire(t)
      PROVE  handler'[g] \in {handler[g], Raced(handler[g])}
  BY <1>5 DEF Expire
<1>6. ASSUME (\E j \in DOMAIN jobs : JobFails(j)) \/ UNCHANGED vars
      PROVE  handler'[g] = handler[g]
  BY <1>6 DEF JobFails, vars
<1>7. QED
  BY <1>1, <1>3, <1>4, <1>5, <1>6 DEF Next
\* What stays true of a request once it is let through, whatever happens to the
\* session, the account or the profile meanwhile: rows are never deleted here,
\* only marked, so that the ids it holds keep their meaning.
LinkedTo(r) ==
  /\ r.at # "list" => r.token # 0
  /\ r.token # 0 => r.token \in DOMAIN sessions /\ sessions[r.token].user = r.user
  /\ r.admin => r.user \in DOMAIN users /\ users[r.user].admin
  /\ r.at = "insert" => r.profile \in DOMAIN profiles /\ profiles[r.profile].owner = r.user
  /\ r.at = "retry" =>
       /\ r.job \in DOMAIN jobs
       /\ \/ r.admin
          \/ /\ jobs[r.job].profile \in DOMAIN profiles
             /\ profiles[jobs[r.job].profile].owner = r.user

Linked == \A h \in InChecks : LinkedTo(handler[h])

\* An authenticated request goes from one check to the next.
Advances(g) ==
  /\ handler[g] \in Checked /\ g \in InChecks
  /\ handler'[g].token = handler[g].token
  /\ handler'[g].user = handler[g].user
  /\ handler'[g].raced = handler[g].raced
  /\ handler[g].at \in {"user", "act"}
  /\ \/ /\ ReadUser(g) /\ handler'[g].at = "act"
        /\ UserThere(handler[g].user)
        /\ handler'[g].admin = users[handler[g].user].admin
     \/ /\ handler'[g].admin = handler[g].admin
        /\ \/ \E p \in DOMAIN profiles :
                /\ handler'[g].profile = p
                /\ \/ CheckOwner(g, p) /\ handler'[g].at = "insert"
                   \/ Look(g, p) /\ handler'[g].at = "list"
                   \/ /\ \E public \in BOOLEAN : UpdateProfile(g, p, public)
                      /\ handler'[g].at = "insert"
           \/ /\ \E slug \in Slugs, public \in BOOLEAN :
                   /\ CreateProfile(g, slug, public)
                   /\ profiles' = Append(profiles,
                        [owner |-> handler[g].user, slug |-> slug,
                         public |-> public, there |-> TRUE])
              /\ handler'[g].at = "insert"
              /\ handler'[g].profile = Len(profiles) + 1
           \/ \E j \in DOMAIN jobs :
                /\ CheckJob(g, j)
                /\ handler'[g].at = "retry" /\ handler'[g].job = j

\* The next state of a request that goes from one check to the next.
LEMMA Entered ==
  ASSUME TypeOK, NEW g \in Handlers, Enters(g), handler'[g].at \in Steps
  PROVE  /\ handler'[g] \in Checked
         /\ UNCHANGED users
         /\ \/ \E t \in DOMAIN sessions :
                 /\ ReadSession(g, t)
                 /\ handler'[g].at = "user" /\ handler'[g].token = t
                 /\ handler'[g].user = sessions[t].user /\ ~handler'[g].admin
            \/ \E p \in DOMAIN profiles :
                 /\ LookAnonymously(g, p)
                 /\ handler'[g].at = "list" /\ handler'[g].token = 0
                 /\ ~handler'[g].admin /\ handler'[g].profile = p
            \/ Advances(g)
<1>0. Idle.at \notin Steps /\ \A s \in Steps : s \in {"user", "act", "insert", "retry", "list"}
  BY DEF Idle, Steps
<1>1. ASSUME NEW t \in DOMAIN sessions, ReadSession(g, t)
      PROVE  /\ handler'[g] \in Checked /\ UNCHANGED users
             /\ handler'[g].at = "user" /\ handler'[g].token = t
             /\ handler'[g].user = sessions[t].user /\ ~handler'[g].admin
  <2>1. sessions[t] \in Session /\ t \in Nat
    BY DEF TypeOK
  <2>2. handler'[g] = [at |-> "user", token |-> t, user |-> sessions[t].user,
                       admin |-> FALSE, profile |-> 0, job |-> 0, raced |-> FALSE]
    BY <1>1, OthersKeep DEF ReadSession
  <2>3. QED
    BY <1>1, <2>1, <2>2, TablesKept DEF Checked, Steps, Session
<1>2. ASSUME NEW p \in DOMAIN profiles, LookAnonymously(g, p)
      PROVE  /\ handler'[g] \in Checked /\ UNCHANGED users
             /\ handler'[g].at = "list" /\ handler'[g].token = 0
             /\ ~handler'[g].admin /\ handler'[g].profile = p
  <2>1. p \in Nat
    BY DEF TypeOK
  <2>2. handler'[g] = [at |-> "list", token |-> 0, user |-> 0, admin |-> FALSE,
                       profile |-> p, job |-> 0, raced |-> FALSE]
    BY <1>2, OthersKeep DEF LookAnonymously
  <2>3. QED
    BY <1>2, <2>1, <2>2, TablesKept DEF Checked, Steps
<1>3. ASSUME At(g, "user") \/ At(g, "act")
      PROVE  handler[g] \in Checked /\ g \in InChecks /\ handler[g].at \in {"user", "act"}
  BY <1>3, Shapes DEF At, InChecks, Steps
<1>4. ASSUME At(g, "act"), NEW p \in Nat, handler'[g] = Submitting(g, p)
      PROVE  /\ handler'[g] \in Checked
             /\ handler'[g].token = handler[g].token /\ handler'[g].user = handler[g].user
             /\ handler'[g].raced = handler[g].raced /\ handler'[g].admin = handler[g].admin
             /\ handler'[g].at = "insert" /\ handler'[g].profile = p
  BY <1>3, <1>4 DEF Submitting, Checked, Steps
<1>5. CASE ReadUser(g)
  <2>1. handler[g] \in Checked /\ g \in InChecks /\ handler[g].at \in {"user", "act"}
    BY <1>3, <1>5 DEF ReadUser
  <2>2. UserThere(handler[g].user)
    BY <1>0, <1>5, OthersKeep DEF ReadUser, Refuse
  <2>3. handler'[g] = [handler[g] EXCEPT !.at = "act",
                                         !.admin = users[handler[g].user].admin]
    BY <1>5, <2>2, OthersKeep DEF ReadUser
  <2>4. users[handler[g].user] \in User
    BY <2>2 DEF UserThere, ThereUsers, TypeOK
  <2>5. /\ handler'[g] \in Checked /\ UNCHANGED users
        /\ handler'[g].token = handler[g].token /\ handler'[g].user = handler[g].user
        /\ handler'[g].raced = handler[g].raced /\ handler'[g].at = "act"
    BY <1>5, <2>1, <2>3, <2>4, TablesKept DEF Checked, Steps, User
  <2>6. handler'[g].admin = users[handler[g].user].admin
    BY <2>1, <2>3 DEF Checked
  <2>7. QED
    BY <1>5, <2>1, <2>2, <2>5, <2>6 DEF Advances
<1>6. ASSUME NEW p \in DOMAIN profiles,
             CheckOwner(g, p) \/ \E public \in BOOLEAN : UpdateProfile(g, p, public)
      PROVE  /\ handler[g] \in Checked /\ g \in InChecks /\ handler[g].at \in {"user", "act"}
             /\ handler'[g] \in Checked /\ UNCHANGED users
             /\ handler'[g].token = handler[g].token /\ handler'[g].user = handler[g].user
             /\ handler'[g].raced = handler[g].raced /\ handler'[g].admin = handler[g].admin
             /\ handler'[g].at = "insert" /\ handler'[g].profile = p
  <2>1. p \in Nat /\ At(g, "act") /\ UNCHANGED users
    BY <1>6 DEF TypeOK, CheckOwner, UpdateProfile
  <2>2. handler'[g] = Submitting(g, p)
    BY <1>6, OthersKeep DEF CheckOwner, UpdateProfile
  <2>3. QED
    BY <1>3, <1>4, <2>1, <2>2
<1>7. ASSUME NEW p \in DOMAIN profiles, Look(g, p)
      PROVE  /\ handler[g] \in Checked /\ g \in InChecks /\ handler[g].at \in {"user", "act"}
             /\ handler'[g] \in Checked /\ UNCHANGED users
             /\ handler'[g].token = handler[g].token /\ handler'[g].user = handler[g].user
             /\ handler'[g].raced = handler[g].raced /\ handler'[g].admin = handler[g].admin
             /\ handler'[g].at = "list" /\ handler'[g].profile = p
  <2>1. p \in Nat /\ At(g, "act") /\ UNCHANGED users
    BY <1>7 DEF TypeOK, Look
  <2>2. handler'[g] = [handler[g] EXCEPT !.at = "list", !.profile = p]
    BY <1>7, OthersKeep DEF Look
  <2>3. QED
    BY <1>3, <2>1, <2>2 DEF Checked, Steps
<1>8. ASSUME NEW slug \in Slugs, NEW public \in BOOLEAN, CreateProfile(g, slug, public)
      PROVE  /\ handler[g] \in Checked /\ g \in InChecks /\ handler[g].at \in {"user", "act"}
             /\ handler'[g] \in Checked /\ UNCHANGED users
             /\ handler'[g].token = handler[g].token /\ handler'[g].user = handler[g].user
             /\ handler'[g].raced = handler[g].raced /\ handler'[g].admin = handler[g].admin
             /\ handler'[g].at = "insert" /\ handler'[g].profile = Len(profiles) + 1
             /\ profiles' = Append(profiles, [owner |-> handler[g].user, slug |-> slug,
                                              public |-> public, there |-> TRUE])
  <2>1. ~Refuse(g)
    BY <1>0, OthersKeep DEF Refuse
  <2>2. /\ At(g, "act") /\ UNCHANGED users
        /\ profiles' = Append(profiles, [owner |-> handler[g].user, slug |-> slug,
                                         public |-> public, there |-> TRUE])
        /\ Goto(g, Submitting(g, Len(profiles) + 1))
    BY <1>8, <2>1 DEF CreateProfile
  <2>3. handler'[g] = Submitting(g, Len(profiles) + 1) /\ Len(profiles) + 1 \in Nat
    BY <2>2, OthersKeep DEF TypeOK
  <2>4. QED
    BY <1>3, <1>4, <2>2, <2>3
<1>9. ASSUME NEW j \in DOMAIN jobs, CheckJob(g, j)
      PROVE  /\ handler[g] \in Checked /\ g \in InChecks /\ handler[g].at \in {"user", "act"}
             /\ handler'[g] \in Checked /\ UNCHANGED users
             /\ handler'[g].token = handler[g].token /\ handler'[g].user = handler[g].user
             /\ handler'[g].raced = handler[g].raced /\ handler'[g].admin = handler[g].admin
             /\ handler'[g].at = "retry" /\ handler'[g].job = j
  <2>1. j \in Nat /\ At(g, "act") /\ UNCHANGED users
    BY <1>9 DEF TypeOK, CheckJob
  <2>2. handler'[g] = [handler[g] EXCEPT !.at = "retry", !.job = j]
    BY <1>9, OthersKeep DEF CheckJob
  <2>3. QED
    BY <1>3, <2>1, <2>2 DEF Checked, Steps
<1>10. QED
  BY <1>1, <1>2, <1>5, <1>6, <1>7, <1>8, <1>9 DEF Enters, Advances
\* The row a request has just inserted.
LEMMA NewProfile ==
  ASSUME TypeOK, NEW u \in Nat, NEW slug \in Slugs, NEW public \in BOOLEAN,
         profiles' = Append(profiles, [owner |-> u, slug |-> slug, public |-> public,
                                       there |-> TRUE])
  PROVE  /\ Len(profiles) + 1 \in DOMAIN profiles'
         /\ profiles'[Len(profiles) + 1].owner = u
         /\ profiles'[Len(profiles) + 1].there
<1> DEFINE row == [owner |-> u, slug |-> slug, public |-> public, there |-> TRUE]
<1>1. row \in Profile /\ row.owner = u /\ row.there
  BY DEF Profile
<1>2. profiles' = Append(profiles, row)
  OBVIOUS
<1> HIDE DEF row
<1>3. QED
  BY <1>1, <1>2, Appended DEF TypeOK

\* A request keeps what it was let through for.
LEMMA LinkedStep ==
  ASSUME TypeOK, Linked, [Next]_vars
  PROVE  Linked'
<1> SUFFICES ASSUME NEW g \in Handlers, handler'[g].at \in Steps
             PROVE  LinkedTo(handler[g])'
  BY DEF Linked, InChecks
<1>1. ASSUME LinkedTo(handler[g]),
             handler'[g].at = handler[g].at,
             handler'[g].token = handler[g].token, handler'[g].user = handler[g].user,
             handler'[g].admin = handler[g].admin,
             handler'[g].profile = handler[g].profile, handler'[g].job = handler[g].job
      PROVE  LinkedTo(handler[g])'
  BY <1>1, UsersStay, SessionsStay, ProfilesStay, JobsStay DEF LinkedTo
<1>2. CASE ~Enters(g)
  <2>1. /\ g \in InChecks /\ handler[g] \in Checked
        /\ handler'[g] \in {handler[g], Raced(handler[g])}
    BY <1>2, InChecksStep, Shapes
  <2>2. /\ handler'[g].at = handler[g].at
        /\ handler'[g].token = handler[g].token /\ handler'[g].user = handler[g].user
        /\ handler'[g].admin = handler[g].admin
        /\ handler'[g].profile = handler[g].profile /\ handler'[g].job = handler[g].job
    BY <2>1, RacedFields
  <2>3. QED
    BY <1>1, <2>1, <2>2 DEF Linked
<1>3. ASSUME NEW t \in DOMAIN sessions,
             handler'[g].at = "user", handler'[g].token = t,
             handler'[g].user = sessions[t].user, ~handler'[g].admin
      PROVE  LinkedTo(handler[g])'
  <2>1. t # 0
    BY DEF TypeOK
  <2>2. QED
    BY <1>3, <2>1, SessionsStay DEF LinkedTo
<1>4. ASSUME handler'[g].at = "list", handler'[g].token = 0, ~handler'[g].admin
      PROVE  LinkedTo(handler[g])'
  BY <1>4 DEF LinkedTo
<1>5. ASSUME g \in InChecks, handler[g] \in Checked, handler[g].at \in {"user", "act"},
             handler'[g].token = handler[g].token, handler'[g].user = handler[g].user,
             handler'[g].admin =>
               handler[g].user \in DOMAIN users /\ users[handler[g].user].admin,
             handler'[g].at = "insert" =>
               /\ handler'[g].profile \in DOMAIN profiles'
               /\ profiles'[handler'[g].profile].owner = handler[g].user,
             handler'[g].at = "retry" =>
               /\ handler'[g].job \in DOMAIN jobs'
               /\ \/ handler'[g].admin
                  \/ /\ jobs'[handler'[g].job].profile \in DOMAIN profiles'
                     /\ profiles'[jobs'[handler'[g].job].profile].owner = handler[g].user
      PROVE  LinkedTo(handler[g])'
  <2>1. LinkedTo(handler[g]) /\ handler[g].token # 0
    BY <1>5 DEF Linked, LinkedTo
  <2>2. /\ handler[g].token \in DOMAIN sessions'
        /\ sessions'[handler[g].token].user = handler[g].user
    BY <2>1, SessionsStay DEF LinkedTo
  <2>3. handler'[g].admin =>
          handler[g].user \in DOMAIN users' /\ users'[handler[g].user].admin
    BY <1>5, UsersStay
  <2>4. QED
    BY <1>5, <2>1, <2>2, <2>3 DEF LinkedTo
<1>6. g \in InChecks /\ handler[g].admin =>
        handler[g].user \in DOMAIN users /\ users[handler[g].user].admin
  BY DEF Linked, LinkedTo
<1>7. ASSUME NEW p \in DOMAIN profiles, CheckOwner(g, p)
               \/ \E public \in BOOLEAN : UpdateProfile(g, p, public)
      PROVE  p \in DOMAIN profiles' /\ profiles'[p].owner = handler[g].user
  BY <1>7, ProfilesStay DEF CheckOwner, UpdateProfile, Of
<1>8. ASSUME NEW j \in DOMAIN jobs, CheckJob(g, j)
      PROVE  /\ j \in DOMAIN jobs'
             /\ \/ handler[g].admin
                \/ /\ jobs'[j].profile \in DOMAIN profiles'
                   /\ profiles'[jobs'[j].profile].owner = handler[g].user
  BY <1>8, JobsStay, ProfilesStay DEF CheckJob, Of, ThereProfiles
<1>9. ASSUME handler[g] \in Checked, NEW slug \in Slugs, NEW public \in BOOLEAN,
             profiles' = Append(profiles, [owner |-> handler[g].user, slug |-> slug,
                                           public |-> public, there |-> TRUE])
      PROVE  /\ Len(profiles) + 1 \in DOMAIN profiles'
             /\ profiles'[Len(profiles) + 1].owner = handler[g].user
  <2>1. handler[g].user \in Nat
    BY <1>9 DEF Checked
  <2>2. QED
    BY <1>9, <2>1, NewProfile
<1>10. CASE Enters(g)
  <2>1. UserThere(handler[g].user) => handler[g].user \in DOMAIN users
    BY DEF UserThere, ThereUsers
  <2>2. CASE \E t \in DOMAIN sessions :
               /\ handler'[g].at = "user" /\ handler'[g].token = t
               /\ handler'[g].user = sessions[t].user /\ ~handler'[g].admin
    BY <1>3, <2>2
  <2>3. CASE handler'[g].at = "list" /\ handler'[g].token = 0 /\ ~handler'[g].admin
    BY <1>4, <2>3
  <2>4. CASE Advances(g)
    <3>0. /\ handler[g] \in Checked /\ g \in InChecks /\ handler[g].at \in {"user", "act"}
          /\ handler'[g].token = handler[g].token /\ handler'[g].user = handler[g].user
      BY <2>4 DEF Advances
    <3>1. handler'[g].admin =>
            handler[g].user \in DOMAIN users /\ users[handler[g].user].admin
      BY <1>6, <2>1, <2>4 DEF Advances
    <3>2. handler'[g].at = "insert" =>
            /\ handler'[g].profile \in DOMAIN profiles'
            /\ profiles'[handler'[g].profile].owner = handler[g].user
      BY <1>7, <1>9, <2>4, <3>0 DEF Advances
    <3>3. handler'[g].at = "retry" =>
            /\ handler'[g].job \in DOMAIN jobs'
            /\ \/ handler'[g].admin
               \/ /\ jobs'[handler'[g].job].profile \in DOMAIN profiles'
                  /\ profiles'[jobs'[handler'[g].job].profile].owner = handler[g].user
      BY <1>8, <2>4 DEF Advances
    <3>4. QED
      BY <1>5, <3>0, <3>1, <3>2, <3>3
  <2>5. QED
    BY <1>10, <2>2, <2>3, <2>4, Entered
<1>11. QED
  BY <1>2, <1>10
\* The session a request came with is of the user it acts for.
LEMMA Represents ==
  ASSUME Linked, NEW h \in InChecks, ~At(h, "list")
  PROVE  Actor(h) = handler[h].user
BY DEF Linked, LinkedTo, Actor, At

LEMMA OwnStep ==
  ASSUME TypeOK, Linked, [Next]_vars
  PROVE  /\ \A p \in DOMAIN profiles :
              profiles'[p] # profiles[p] => \E h \in Handlers :
                Acts(h, "act") /\ Actor(h) = profiles[p].owner
         /\ \A j \in DOMAIN jobs' : j \notin DOMAIN jobs => \E h \in Handlers :
              Acts(h, "insert") /\ Actor(h) = profiles[jobs'[j].profile].owner
         /\ \A j \in DOMAIN jobs :
              jobs[j].status = "failed" /\ jobs'[j].status = "pending" => \E h \in Handlers :
                /\ Acts(h, "retry")
                /\ Actor(h) = profiles[jobs[j].profile].owner \/ users[Actor(h)].admin
<1>1. ASSUME NEW p \in DOMAIN profiles, profiles'[p] # profiles[p]
      PROVE  \E h \in Handlers : Acts(h, "act") /\ Actor(h) = profiles[p].owner
  <2>1. PICK h \in Handlers : ByOwner(h, p)
    BY <1>1, ProfilesStay
  <2>2. h \in InChecks /\ ~At(h, "list")
    BY <2>1 DEF ByOwner, At, InChecks, Steps
  <2>3. QED
    BY <2>1, <2>2, Represents DEF ByOwner, Acts
<1>2. ASSUME NEW j \in DOMAIN jobs', j \notin DOMAIN jobs
      PROVE  \E h \in Handlers : Acts(h, "insert") /\ Actor(h) = profiles[jobs'[j].profile].owner
  <2>1. PICK h \in Handlers : Submit(h) /\ jobs'[j].profile = handler[h].profile
    BY <1>2, JobsStay
  <2>2. h \in InChecks /\ ~At(h, "list") /\ At(h, "insert")
    BY <2>1 DEF Submit, At, InChecks, Steps
  <2>3. profiles[handler[h].profile].owner = handler[h].user
    BY <2>2 DEF Linked, LinkedTo, At
  <2>4. handler'[h] = Idle
    BY <2>1, OthersKeep DEF Submit
  <2>5. QED
    BY <2>1, <2>2, <2>3, <2>4, Represents DEF Acts, Idle
<1>3. ASSUME NEW j \in DOMAIN jobs, jobs[j].status = "failed", jobs'[j].status = "pending"
      PROVE  \E h \in Handlers :
               /\ Acts(h, "retry")
               /\ Actor(h) = profiles[jobs[j].profile].owner \/ users[Actor(h)].admin
  <2>1. PICK h \in Handlers : RetryJob(h) /\ handler[h].job = j
    BY <1>3, JobsStay
  <2>2. h \in InChecks /\ ~At(h, "list") /\ At(h, "retry")
    BY <2>1 DEF RetryJob, At, InChecks, Steps
  <2>3. \/ users[handler[h].user].admin
        \/ profiles[jobs[j].profile].owner = handler[h].user
    BY <2>1, <2>2 DEF Linked, LinkedTo, At
  <2>4. handler'[h] = Idle
    BY <2>1, OthersKeep DEF RetryJob
  <2>5. QED
    BY <2>2, <2>3, <2>4, Represents DEF Acts, Idle
<1>4. QED
  BY <1>1, <1>2, <1>3

LEMMA LinkedInit == Init => Linked
BY DEF Init, Linked, InChecks, Idle, Steps

\* Whatever has happened to session, account and profile since the checks of a
\* request, only requests of its owner change a profile and submit jobs for it.
THEOREM OwnersOnly == Spec => OnlyTheirOwn
<1>1. Spec => [](TypeOK /\ Linked)
  BY LinkedInit, LinkedStep, TypeInit, TypeStep, PTL DEF Spec
<1>2. TypeOK /\ Linked /\ [Next]_vars =>
        [/\ \A p \in DOMAIN profiles :
              profiles'[p] # profiles[p] => \E h \in Handlers :
                Acts(h, "act") /\ Actor(h) = profiles[p].owner
         /\ \A j \in DOMAIN jobs' : j \notin DOMAIN jobs => \E h \in Handlers :
              Acts(h, "insert") /\ Actor(h) = profiles[jobs'[j].profile].owner
         /\ \A j \in DOMAIN jobs :
              jobs[j].status = "failed" /\ jobs'[j].status = "pending" => \E h \in Handlers :
                /\ Acts(h, "retry")
                /\ Actor(h) = profiles[jobs[j].profile].owner \/ users[Actor(h)].admin]_vars
  BY OwnStep
<1>3. QED
  BY <1>1, <1>2, PTL DEF Spec, OnlyTheirOwn
-----------------------------------------------------------------------------
(***************************************************************************)
(* What the checks of a request found out, as long as it is not undone.    *)
(***************************************************************************)
Confirmed(r) ==
  /\ r.token # 0 => /\ sessions[r.token].status = "open"
                    /\ sessions[r.token].user = r.user
                    /\ UserThere(r.user)
  /\ r.admin => r.user \in Admins
  /\ r.at = "insert" => r.profile \in Of(r.user)
  /\ r.at = "retry" => r.admin \/ jobs[r.job].profile \in Of(r.user)
  /\ r.at = "list" => /\ r.profile \in ThereProfiles
                      /\ profiles[r.profile].public \/ r.profile \in Of(r.user)

LEMMA ConfirmedMeans ==
  ChecksHold <=> \A h \in InChecks : ~handler[h].raced => Confirmed(handler[h])
BY DEF ChecksHold, Confirmed, At

\* Who is among the others of an answer has been raced.
LEMMA OthersAreRaced ==
  ASSUME TypeOK, NEW g \in InChecks, handler'[g] = handler[g], ~handler[g].raced,
         NEW h \in Handlers, NEW s, NEW others, Answer(h, s, others), s.at # handler[g].at
  PROVE  g # h /\ g \notin others
<1>1. handler[g] \in Checked /\ g \in Handlers
  BY Shapes DEF InChecks
<1>2. Raced(handler[g]) # handler[g]
  BY <1>1, RacedFields
<1>3. QED
  BY <1>1, <1>2 DEF Answer

\* A session that the others end or let expire is not that of a request that
\* has not been raced.
LEMMA SessionUntouched ==
  ASSUME TypeOK, [Next]_vars, NEW g \in InChecks, handler'[g] = handler[g],
         ~handler[g].raced, NEW t \in DOMAIN sessions,
         t = handler[g].token, sessions[t].user = handler[g].user,
         sessions[t].status = "open"
  PROVE  sessions'[t].status = "open"
<1>0. handler[g].at \in Steps /\ Idle.at # handler[g].at /\ sessions[t] \in Session
  BY Tables DEF InChecks, Idle, Steps
<1>1. CASE UNCHANGED sessions
  BY <1>1
<1>2. ASSUME NEW h \in Handlers, IssueSession(h), UserThere(handler[h].user)
      PROVE  sessions'[t] = sessions[t]
  <2> DEFINE row == [user |-> handler[h].user, status |-> "open"]
  <2>1. sessions' = Append(sessions, row)
    BY <1>2 DEF IssueSession
  <2>2. row \in Session
    BY <1>2, Shapes DEF IssueSession, Issuing, Session
  <2> HIDE DEF row
  <2>3. QED
    BY <2>1, <2>2, Appended DEF TypeOK
<1>3. ASSUME NEW h \in Handlers, DeleteAccount(h) PROVE sessions'[t] = sessions[t]
  <2>1. g \notin {f \in InChecks : handler[f].user = handler[h].user} \cup About(Of(handler[h].user))
    BY <1>0, <1>3, OthersAreRaced DEF DeleteAccount
  <2>2. sessions[t].user # handler[h].user
    BY <2>1
  <2>3. QED
    BY <1>3, <2>2 DEF DeleteAccount
<1>4. ASSUME NEW h \in Handlers, Logout(h) PROVE sessions'[t] = sessions[t]
  <2>1. g \notin With(handler[h].token)
    BY <1>0, <1>4, OthersAreRaced DEF Logout
  <2>2. t # handler[h].token
    BY <2>1 DEF With
  <2>3. QED
    BY <1>4, <2>2 DEF Logout
<1>5. ASSUME NEW i \in DOMAIN sessions, Expire(i) PROVE sessions'[t] = sessions[t]
  <2>1. handler[g] \in Checked /\ g \in Handlers
    BY Shapes DEF InChecks
  <2>2. g \notin With(i)
    BY <1>5, <2>1, RacedFields DEF Expire
  <2>3. t # i
    BY <2>2 DEF With
  <2>4. QED
    BY <1>5, <2>3 DEF Expire
<1>6. ASSUME NEW h \in Handlers, Request(h), ~DeleteAccount(h), ~Logout(h),
             IssueSession(h) => ~UserThere(handler[h].user)
      PROVE  UNCHANGED sessions
  BY <1>6, TablesKept DEF Request, Authenticated, CreateUser, IssueSession, Refuse,
     CreateProfile, UpdateProfile, DeleteProfile, Submit, RetryJob
<1>7. ASSUME (\E j \in DOMAIN jobs : JobFails(j)) \/ UNCHANGED vars
      PROVE  UNCHANGED sessions
  BY <1>7 DEF JobFails, vars
<1>8. QED
  BY <1>1, <1>2, <1>3, <1>4, <1>5, <1>6, <1>7 DEF Next

\* Neither is the account it acts for.
LEMMA UserUntouched ==
  ASSUME TypeOK, [Next]_vars, NEW g \in InChecks, handler'[g] = handler[g],
         ~handler[g].raced, NEW u, u = handler[g].user, UserThere(u)
  PROVE  u \in ThereUsers'
<1>0. Idle.at # handler[g].at /\ u \in DOMAIN users /\ users[u].there
  BY DEF InChecks, Idle, Steps, UserThere, ThereUsers
<1>1. CASE UNCHANGED users
  BY <1>0, <1>1 DEF ThereUsers
<1>2. ASSUME NEW h \in Handlers, CreateUser(h), ~Taken(handler[h].name)
      PROVE  u \in DOMAIN users' /\ users'[u] = users[u]
  <2> DEFINE row == [name |-> handler[h].name, admin |-> handler[h].first,
                     there |-> TRUE, beside |-> handler[h].beside]
  <2>1. users' = Append(users, row)
    BY <1>2 DEF CreateUser
  <2>2. row \in User
    BY <1>2, Shapes DEF CreateUser, Registering, User
  <2> HIDE DEF row
  <2>3. QED
    BY <1>0, <2>1, <2>2, Appended DEF TypeOK
<1>3. ASSUME NEW h \in Handlers, DeleteAccount(h)
      PROVE  u \in DOMAIN users' /\ users'[u] = users[u]
  <2>1. g \notin {f \in InChecks : handler[f].user = handler[h].user} \cup About(Of(handler[h].user))
    BY <1>0, <1>3, OthersAreRaced DEF DeleteAccount
  <2>2. u # handler[h].user
    BY <2>1
  <2>3. QED
    BY <1>0, <1>3, <2>2 DEF DeleteAccount
<1>4. ASSUME NEW h \in Handlers, Request(h), ~DeleteAccount(h),
             CreateUser(h) => Taken(handler[h].name)
      PROVE  UNCHANGED users
  BY <1>4, TablesKept DEF Request, Authenticated, CreateUser, IssueSession, Refuse,
     Logout, CreateProfile, UpdateProfile, DeleteProfile, Submit, RetryJob
<1>5. ASSUME (\E t \in DOMAIN sessions : Expire(t)) \/ (\E j \in DOMAIN jobs : JobFails(j))
               \/ UNCHANGED vars
      PROVE  UNCHANGED users
  BY <1>5 DEF Expire, JobFails, vars
<1>6. QED
  BY <1>0, <1>1, <1>2, <1>3, <1>4, <1>5 DEF Next, ThereUsers

\* Nor the profile: who was let through for it would have been raced.
LEMMA ProfileUntouched ==
  ASSUME TypeOK, [Next]_vars, NEW g \in InChecks, handler'[g] = handler[g],
         ~handler[g].raced, NEW p \in ThereProfiles
  PROVE  /\ g \in About({p}) => p \in ThereProfiles'
         /\ profiles[p].public /\ g \in Strangers(p) => profiles'[p].public
<1>0. /\ Idle.at # handler[g].at /\ p \in DOMAIN profiles /\ profiles[p].there
      /\ profiles[p] \in Profile
  BY Tables DEF InChecks, Idle, Steps, ThereProfiles
<1> DEFINE Kept == p \in DOMAIN profiles' /\ profiles'[p] = profiles[p]
<1>1. ASSUME NEW h \in Handlers, NEW slug \in Slugs, NEW public \in BOOLEAN,
             CreateProfile(h, slug, public), profiles' # profiles
      PROVE  Kept
  <2> DEFINE row == [owner |-> handler[h].user, slug |-> slug, public |-> public,
                     there |-> TRUE]
  <2>1. profiles' = Append(profiles, row)
    BY <1>1 DEF CreateProfile, Refuse
  <2>2. handler[h] \in Checked
    BY <1>1, Shapes DEF CreateProfile, At, InChecks, Steps
  <2>3. row \in Profile
    BY <2>2 DEF Checked, Profile
  <2> HIDE DEF row
  <2>4. QED
    BY <1>0, <2>1, <2>3, Appended DEF TypeOK
<1>2. ASSUME NEW h \in Handlers, DeleteAccount(h), g \in About({p}) \cup Strangers(p)
      PROVE  Kept
  <2>1. g \notin {f \in InChecks : handler[f].user = handler[h].user} \cup About(Of(handler[h].user))
    BY <1>0, <1>2, OthersAreRaced DEF DeleteAccount
  <2>2. p \notin Of(handler[h].user)
    BY <1>2, <2>1 DEF About, Strangers
  <2>3. profiles[p].owner # handler[h].user
    BY <2>2 DEF Of
  <2>4. QED
    BY <1>0, <1>2, <2>3 DEF DeleteAccount
<1>3. ASSUME NEW h \in Handlers, NEW q \in DOMAIN profiles, DeleteProfile(h, q),
             g \in About({p}) \cup Strangers(p)
      PROVE  Kept
  <2>1. g \notin About({q})
    BY <1>0, <1>3, OthersAreRaced DEF DeleteProfile
  <2>2. p # q
    BY <1>3, <2>1 DEF About, Strangers
  <2>3. QED
    BY <1>0, <1>3, <2>2 DEF DeleteProfile
<1>4. ASSUME NEW h \in Handlers, NEW q \in DOMAIN profiles, NEW public \in BOOLEAN,
             UpdateProfile(h, q, public)
      PROVE  /\ p \in DOMAIN profiles' /\ profiles'[p].there
             /\ profiles[p].public /\ g \in Strangers(p) => profiles'[p].public
  <2>1. /\ p \in DOMAIN profiles' /\ profiles'[p].there
        /\ profiles'[p].public = IF p = q THEN public ELSE profiles[p].public
    BY <1>0, <1>4 DEF UpdateProfile, Profile
  <2>2. h # g => g \notin (IF public THEN {} ELSE Strangers(q))
    <3>1. handler[g] \in Checked /\ g \in Handlers
      BY Shapes DEF InChecks
    <3>2. Raced(handler[g]) # handler[g]
      BY <3>1, RacedFields
    <3>3. QED
      BY <1>4, <3>1, <3>2 DEF UpdateProfile, Answer
  <2>3. h = g => g \notin Strangers(p)
    BY <1>4 DEF UpdateProfile, Strangers, At
  <2>4. QED
    BY <2>1, <2>2, <2>3
<1>5. ASSUME NEW h \in Handlers, Request(h), ~DeleteAccount(h),
             \A q \in DOMAIN profiles : ~DeleteProfile(h, q)
               /\ \A public \in BOOLEAN : ~UpdateProfile(h, q, public),
             \A slug \in Slugs, public \in BOOLEAN : ~CreateProfile(h, slug, public)
      PROVE  UNCHANGED profiles
  BY <1>5, TablesKept DEF Request, Authenticated, CreateUser, IssueSession, Refuse,
     Logout, Submit, RetryJob
<1>6. ASSUME (\E t \in DOMAIN sessions : Expire(t)) \/ (\E j \in DOMAIN jobs : JobFails(j))
               \/ UNCHANGED vars
      PROVE  UNCHANGED profiles
  BY <1>6 DEF Expire, JobFails, vars
<1>7. Kept => p \in ThereProfiles' /\ (profiles[p].public => profiles'[p].public)
  BY <1>0 DEF ThereProfiles
<1>8. UNCHANGED profiles => Kept
  BY <1>0
<1> HIDE DEF Kept
<1>9. CASE \E h \in Handlers : Request(h)
  <2>1. PICK h \in Handlers : Request(h)
    BY <1>9
  <2>2. CASE \E q \in DOMAIN profiles, public \in BOOLEAN : UpdateProfile(h, q, public)
    BY <1>4, <2>2 DEF ThereProfiles
  <2>3. CASE ~\E q \in DOMAIN profiles, public \in BOOLEAN : UpdateProfile(h, q, public)
    BY <1>1, <1>2, <1>3, <1>5, <1>7, <1>8, <2>1, <2>3
  <2>4. QED
    BY <2>2, <2>3
<1>10. QED
  BY <1>6, <1>7, <1>8, <1>9 DEF Next
\* A request that waits between its checks, and is not raced meanwhile.
LEMMA ConfirmedKept ==
  ASSUME TypeOK, Linked, [Next]_vars, NEW g \in InChecks, handler'[g] = handler[g],
         ~handler[g].raced, Confirmed(handler[g])
  PROVE  Confirmed(handler[g])'
<1> DEFINE r == handler[g]
<1>1. r.token # 0 => /\ r.token \in DOMAIN sessions'
                     /\ sessions'[r.token].status = "open"
                     /\ sessions'[r.token].user = r.user
                     /\ r.user \in ThereUsers'
  <2>1. ASSUME r.token # 0
        PROVE  /\ r.token \in DOMAIN sessions /\ sessions[r.token].user = r.user
               /\ sessions[r.token].status = "open" /\ UserThere(r.user)
    BY <2>1 DEF Linked, LinkedTo, Confirmed
  <2>2. QED
    BY <2>1, SessionsStay, SessionUntouched, UserUntouched
<1>2. r.admin => r.user \in Admins'
  <2>1. r.admin => UserThere(r.user) /\ r.user \in DOMAIN users /\ users[r.user].admin
    BY DEF Confirmed, Admins, UserThere, ThereUsers
  <2>2. QED
    BY <2>1, UserUntouched, UsersStay DEF Admins
<1>3. ASSUME NEW p \in Of(r.user), g \in About({p})
      PROVE  p \in Of(r.user)'
  <2>1. p \in ThereProfiles /\ p \in DOMAIN profiles /\ profiles[p].owner = r.user
    BY DEF Of, ThereProfiles
  <2>2. p \in ThereProfiles' /\ profiles'[p].owner = r.user
    BY <1>3, <2>1, ProfilesStay, ProfileUntouched
  <2>3. QED
    BY <2>2 DEF Of
<1>4. r.at = "insert" => r.profile \in Of(r.user)'
  <2>1. r.at = "insert" => r.profile \in Of(r.user) /\ g \in About({r.profile})
    BY DEF Confirmed, About, At
  <2>2. QED
    BY <1>3, <2>1
<1>5. r.at = "retry" => r.admin \/ jobs'[r.job].profile \in Of(r.user)'
  <2>1. ASSUME r.at = "retry", ~r.admin
        PROVE  jobs'[r.job].profile \in Of(r.user)'
    <3>1. r.job \in DOMAIN jobs /\ jobs[r.job].profile \in Of(r.user)
      BY <2>1 DEF Linked, LinkedTo, Confirmed
    <3>2. g \in About({jobs[r.job].profile})
      BY <2>1, <3>1 DEF About, At
    <3>3. jobs'[r.job].profile = jobs[r.job].profile
      BY <3>1, JobsStay
    <3>4. QED
      BY <1>3, <3>1, <3>2, <3>3
  <2>2. QED
    BY <2>1
<1>6. r.at = "list" => /\ r.profile \in ThereProfiles'
                       /\ profiles'[r.profile].public \/ r.profile \in Of(r.user)'
  <2>1. ASSUME r.at = "list"
        PROVE  /\ r.profile \in ThereProfiles'
               /\ profiles'[r.profile].public \/ r.profile \in Of(r.user)'
    <3>1. r.profile \in ThereProfiles /\ g \in About({r.profile})
      BY <2>1 DEF Confirmed, About, At
    <3>2. r.profile \in ThereProfiles'
      BY <3>1, ProfileUntouched
    <3>3. CASE r.profile \in Of(r.user)
      BY <1>3, <3>1, <3>2, <3>3
    <3>4. CASE r.profile \notin Of(r.user)
      <4>1. profiles[r.profile].public /\ g \in Strangers(r.profile)
        BY <2>1, <3>1, <3>4 DEF Confirmed, Of, Strangers, At
      <4>2. QED
        BY <3>1, <3>2, <4>1, ProfileUntouched
    <3>5. QED
      BY <3>3, <3>4
  <2>2. QED
    BY <2>1
<1>7. QED
  BY <1>1, <1>2, <1>4, <1>5, <1>6 DEF Confirmed, UserThere

\* The checks themselves change no account and no session.
LEMMA EntersOnly ==
  ASSUME NEW g \in Handlers, Enters(g)
  PROVE  UNCHANGED <<users, sessions>>
BY TablesKept DEF Enters, UpdateProfile, CreateProfile, Refuse

\* What a request finds out is true of the state it finds it out in.
LEMMA ConfirmedEntering ==
  ASSUME TypeOK, Linked, NothingOutlives, ChecksHold, [Next]_vars, NEW g \in Handlers,
         Enters(g), handler'[g].at \in Steps, ~handler'[g].raced
  PROVE  Confirmed(handler[g])'
<1> DEFINE r == handler'[g]
<1>0. /\ UNCHANGED <<users, sessions>> /\ ThereUsers' = ThereUsers /\ Admins' = Admins
  BY EntersOnly DEF ThereUsers, Admins
<1>1. ASSUME NEW t \in DOMAIN sessions, ReadSession(g, t),
             r.at = "user", r.token = t, r.user = sessions[t].user, ~r.admin
      PROVE  Confirmed(handler[g])'
  <2>1. sessions[t].status = "open" /\ sessions[t].user \in ThereUsers
    BY <1>1 DEF ReadSession, NothingOutlives, UserThere
  <2>2. QED
    BY <1>0, <1>1, <2>1 DEF Confirmed, UserThere
<1>2. ASSUME NEW p \in DOMAIN profiles, LookAnonymously(g, p),
             r.at = "list", r.token = 0, ~r.admin, r.profile = p
      PROVE  Confirmed(handler[g])'
  <2>1. UNCHANGED profiles /\ p \in ThereProfiles /\ profiles[p].public
    BY <1>2 DEF LookAnonymously
  <2>2. ThereProfiles' = ThereProfiles
    BY <2>1 DEF ThereProfiles
  <2>3. QED
    BY <1>2, <2>1, <2>2 DEF Confirmed
\* The later checks go with the session and the account found before.
<1> DEFINE Owned(p) == p \in ThereProfiles' /\ profiles'[p].owner = handler[g].user
<1>3. ASSUME g \in InChecks, ~handler[g].raced,
             r.token = handler[g].token, r.user = handler[g].user,
             r.admin => handler[g].user \in Admins,
             r.at = "insert" => Owned(r.profile),
             r.at = "retry" => r.admin \/ Owned(jobs'[r.job].profile),
             r.at = "list" => /\ r.profile \in ThereProfiles'
                              /\ profiles'[r.profile].public \/ Owned(r.profile)
      PROVE  Confirmed(handler[g])'
  <2>1. Confirmed(handler[g])
    BY <1>3, ConfirmedMeans
  <2>2. r.token # 0 => /\ sessions'[r.token].status = "open"
                       /\ sessions'[r.token].user = r.user /\ r.user \in ThereUsers'
    BY <1>0, <1>3, <2>1 DEF Confirmed, UserThere
  <2>3. QED
    BY <1>0, <1>3, <2>2 DEF Confirmed, UserThere, Of
<1>4. ASSUME g \in InChecks, ~handler[g].raced, handler[g].admin
      PROVE  handler[g].user \in Admins
  BY <1>4, ConfirmedMeans DEF Confirmed
<1>5. ASSUME UserThere(handler[g].user), users[handler[g].user].admin
      PROVE  handler[g].user \in Admins
  BY <1>5 DEF UserThere, Admins
<1>6. ASSUME NEW p \in DOMAIN profiles, CheckOwner(g, p)
      PROVE  Owned(p)
  BY <1>6 DEF CheckOwner, Of, ThereProfiles
<1>7. ASSUME NEW p \in DOMAIN profiles, NEW public \in BOOLEAN, UpdateProfile(g, p, public)
      PROVE  Owned(p)
  <2>1. profiles[p] \in Profile
    BY Tables
  <2>2. QED
    BY <1>7, <2>1 DEF UpdateProfile, Of, ThereProfiles, Profile
<1>8. ASSUME NEW p \in DOMAIN profiles, Look(g, p)
      PROVE  p \in ThereProfiles' /\ (profiles'[p].public \/ Owned(p))
  BY <1>8 DEF Look, ThereProfiles
<1>9. ASSUME handler[g] \in Checked, NEW slug \in Slugs, NEW public \in BOOLEAN,
             profiles' = Append(profiles, [owner |-> handler[g].user, slug |-> slug,
                                           public |-> public, there |-> TRUE])
      PROVE  Owned(Len(profiles) + 1)
  <2>1. handler[g].user \in Nat
    BY <1>9 DEF Checked
  <2>2. QED
    BY <1>9, <2>1, NewProfile DEF ThereProfiles
<1>10. ASSUME NEW j \in DOMAIN jobs, CheckJob(g, j)
       PROVE  handler[g].admin \/ Owned(jobs'[j].profile)
  BY <1>10 DEF CheckJob, Of, ThereProfiles
<1> HIDE DEF Owned
<1>11. \/ \E t \in DOMAIN sessions :
            /\ ReadSession(g, t)
            /\ r.at = "user" /\ r.token = t /\ r.user = sessions[t].user /\ ~r.admin
       \/ \E p \in DOMAIN profiles :
            LookAnonymously(g, p) /\ r.at = "list" /\ r.token = 0 /\ ~r.admin /\ r.profile = p
       \/ /\ handler[g] \in Checked /\ g \in InChecks
          /\ r.token = handler[g].token /\ r.user = handler[g].user
          /\ r.raced = handler[g].raced
          /\ \/ /\ r.at = "act" /\ UserThere(handler[g].user)
                /\ r.admin = users[handler[g].user].admin
             \/ /\ r.admin = handler[g].admin
                /\ \/ r.at = "insert" /\ Owned(r.profile)
                   \/ /\ r.at = "list" /\ r.profile \in ThereProfiles'
                      /\ profiles'[r.profile].public \/ Owned(r.profile)
                   \/ r.at = "retry" /\ (handler[g].admin \/ Owned(jobs'[r.job].profile))
  <2>1. ASSUME handler[g] \in Checked, NEW slug \in Slugs, NEW public \in BOOLEAN,
               profiles' = Append(profiles, [owner |-> handler[g].user, slug |-> slug,
                                             public |-> public, there |-> TRUE]),
               r.at = "insert", r.profile = Len(profiles) + 1
        PROVE  r.at = "insert" /\ Owned(r.profile)
    BY <1>9, <2>1
  <2>2. ASSUME NEW p \in DOMAIN profiles, r.profile = p,
               \/ CheckOwner(g, p) /\ r.at = "insert"
               \/ (\E public \in BOOLEAN : UpdateProfile(g, p, public)) /\ r.at = "insert"
        PROVE  r.at = "insert" /\ Owned(r.profile)
    BY <1>6, <1>7, <2>2
  <2>3. ASSUME NEW p \in DOMAIN profiles, r.profile = p, Look(g, p)
        PROVE  /\ r.profile \in ThereProfiles'
               /\ profiles'[r.profile].public \/ Owned(r.profile)
    BY <1>8, <2>3
  <2>4. ASSUME NEW j \in DOMAIN jobs, r.job = j, CheckJob(g, j)
        PROVE  handler[g].admin \/ Owned(jobs'[r.job].profile)
    BY <1>10, <2>4
  <2>5. QED
    BY <2>1, <2>2, <2>3, <2>4, Entered DEF Advances
<1>12. QED
  BY <1>1, <1>2, <1>3, <1>4, <1>5, <1>11

LEMMA ChecksStep ==
  ASSUME TypeOK, Linked, NothingOutlives, ChecksHold, [Next]_vars
  PROVE  ChecksHold'
<1>1. ASSUME NEW g \in Handlers, handler'[g].at \in Steps, ~handler'[g].raced
      PROVE  Confirmed(handler[g])'
  <2>1. CASE Enters(g)
    BY <1>1, <2>1, ConfirmedEntering
  <2>2. CASE ~Enters(g)
    <3>1. g \in InChecks /\ handler'[g] \in {handler[g], Raced(handler[g])}
      BY <1>1, <2>2, InChecksStep
    <3>2. handler'[g] = handler[g]
      BY <1>1, <3>1, Shapes, RacedFields
    <3>3. Confirmed(handler[g])
      BY <1>1, <3>1, <3>2, ConfirmedMeans
    <3>4. QED
      BY <1>1, <3>1, <3>2, <3>3, ConfirmedKept
  <2>3. QED
    BY <2>1, <2>2
<1>2. (\A h \in InChecks : ~handler[h].raced => Confirmed(handler[h]))'
  BY <1>1 DEF InChecks
<1>3. QED
  BY <1>2 DEF ChecksHold, Confirmed, At

\* What the checks of a request found out about session, account, owner,
\* administrator and visibility is true until its last statement, unless
\* another request has undone it meanwhile, or the session has run out.
THEOREM ChecksKept == Spec => []ChecksHold
<1>1. Init => ChecksHold
  BY DEF Init, ChecksHold, InChecks, Idle, Steps
<1>2. Spec => [](TypeOK /\ Linked /\ NothingOutlives)
  BY LinkedInit, LinkedStep, TypeCorrect, Cascades, PTL DEF Spec
<1>3. QED
  BY <1>1, <1>2, ChecksStep, PTL DEF Spec
=============================================================================
