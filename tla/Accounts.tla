------------------------------ MODULE Accounts ------------------------------
(***************************************************************************)
(* Users, sessions and the ownership of profiles, as the requests of       *)
(* cmd/api see them.  A request is authenticated, checks what it may do    *)
(* and then does it, in statements of their own: between two of them other *)
(* requests log the session out, delete the account or the profile, and    *)
(* hide what was public.  An action is one statement; rows refer to each   *)
(* other by ids, which are positions here and are never given out twice.   *)
(***************************************************************************)
EXTENDS Integers, Sequences, FiniteSets

CONSTANTS
  Names,        \* user names
  Slugs,        \* slugs of profiles
  Handlers,     \* concurrent requests
  Faults,       \* {"db"}: a statement may fail
  MaxUsers,     \* bounds: registrations,
  MaxSessions,  \*         sessions,
  MaxProfiles,  \*         profiles
  MaxJobs       \*         and jobs

ASSUME FaultsAssumption == Faults \subseteq {"db"}
ASSUME BoundsAssumption ==
  MaxUsers \in Nat /\ MaxSessions \in Nat /\ MaxProfiles \in Nat /\ MaxJobs \in Nat

VARIABLES users, sessions, profiles, jobs, handler

vars == <<users, sessions, profiles, jobs, handler>>

\* beside is a history variable: the users inserted while this one registered.
User    == [name : Names, admin : BOOLEAN, there : BOOLEAN, beside : SUBSET Nat]
\* An "ended" session has no row any more, an "expired" one still has.
Session == [user : Nat, status : {"open", "expired", "ended"}]
Profile == [owner : Nat, slug : Slugs, public : BOOLEAN, there : BOOLEAN]
Job     == [profile : Nat, status : {"pending", "failed"}]

\* user, admin: the authContext; profile, job: what a check was passed for;
\* raced is a history variable: since the request came in, what it was let
\* through for has been undone.
Idle == [at |-> "idle"]
Registering == [at : {"hash"}, name : Names, first : BOOLEAN, beside : SUBSET Nat]
Issuing     == [at : {"issue"}, user : Nat]
Steps == {"user", "act", "insert", "retry", "list"}
Checked ==
  [at : Steps, token : Nat, user : Nat,
   admin : BOOLEAN, profile : Nat, job : Nat, raced : BOOLEAN]

TypeOK ==
  /\ users \in Seq(User) /\ sessions \in Seq(Session)
  /\ profiles \in Seq(Profile) /\ jobs \in Seq(Job)
  /\ handler \in [Handlers -> {Idle} \cup Registering \cup Issuing \cup Checked]

Init ==
  /\ users = << >> /\ sessions = << >> /\ profiles = << >> /\ jobs = << >>
  /\ handler = [h \in Handlers |-> Idle]

ThereUsers == {u \in DOMAIN users : users[u].there}
ThereProfiles == {p \in DOMAIN profiles : profiles[p].there}
UserThere(u)  == u \in ThereUsers

At(h, step) == handler[h].at = step
Goto(h, state) == handler' = [handler EXCEPT ![h] = state]

InChecks == {h \in Handlers : handler[h].at \in Steps}

Raced(request) == [request EXCEPT !.raced = TRUE]

\* The request goes on, and those of others have been raced.
Answer(h, state, others) ==
  handler' = [g \in Handlers |-> IF g = h THEN state
                                 ELSE IF g \in others THEN Raced(handler[g])
                                 ELSE handler[g]]

\* A request gives up, with an error for its client.
Refuse(h) == Goto(h, Idle) /\ UNCHANGED <<users, sessions, profiles, jobs>>

StatementFails(h) ==
  /\ "db" \in Faults /\ handler[h] # Idle
  /\ Refuse(h)

-----------------------------------------------------------------------------
(***************************************************************************)
(* Registration and login.                                                 *)
(***************************************************************************)
InFlight(step) == {h \in Handlers : handler[h].at = step}

\* Mutant of Register: off by one.
RegisterSecond(h, n) ==
  /\ handler[h] = Idle
  /\ Len(users) + Cardinality(InFlight("hash")) < MaxUsers
  /\ Goto(h, [at |-> "hash", name |-> n, first |-> Cardinality(ThereUsers) <= 1,
              beside |-> {}])
  /\ UNCHANGED <<users, sessions, profiles, jobs>>

\* CountUsers; then the hash of the password takes its time.
Register(h, n) ==
  /\ handler[h] = Idle
  /\ Len(users) + Cardinality(InFlight("hash")) < MaxUsers
  /\ Goto(h, [at |-> "hash", name |-> n, first |-> ThereUsers = {}, beside |-> {}])
  /\ UNCHANGED <<users, sessions, profiles, jobs>>

Taken(n) == \E u \in ThereUsers : users[u].name = n

\* CreateUser: the first user is the administrator.  A name that is taken is
\* refused by the unique index.
CreateUser(h) ==
  /\ At(h, "hash")
  /\ IF Taken(handler[h].name) THEN Refuse(h)
     ELSE LET id == Len(users) + 1 IN
       /\ users' = Append(users, [name |-> handler[h].name, admin |-> handler[h].first,
                                  there |-> TRUE, beside |-> handler[h].beside])
       /\ handler' = [g \in Handlers |->
            IF g = h THEN [at |-> "issue", user |-> id]
            ELSE IF At(g, "hash") THEN [handler[g] EXCEPT !.beside = @ \cup {id}]
            ELSE handler[g]]
       /\ UNCHANGED <<sessions, profiles, jobs>>

\* GetAuthUserByUsername; then the password is compared.
Login(h, u) ==
  /\ handler[h] = Idle
  /\ UserThere(u)
  /\ Goto(h, [at |-> "issue", user |-> u])
  /\ UNCHANGED <<users, sessions, profiles, jobs>>

\* Mutant of IssueSession: no foreign key.
IssueSessionUnchecked(h) ==
  /\ At(h, "issue") /\ Len(sessions) < MaxSessions
  /\ sessions' = Append(sessions, [user |-> handler[h].user, status |-> "open"])
  /\ Goto(h, Idle)
  /\ UNCHANGED <<users, profiles, jobs>>

\* CreateSession: the foreign key refuses an account that was deleted since.
IssueSession(h) ==
  /\ At(h, "issue")
  /\ IF UserThere(handler[h].user)
     THEN /\ Len(sessions) < MaxSessions
          /\ sessions' = Append(sessions, [user |-> handler[h].user, status |-> "open"])
          /\ Goto(h, Idle)
          /\ UNCHANGED <<users, profiles, jobs>>
     ELSE Refuse(h)

With(t) == {g \in InChecks : handler[g].token = t}

\* sessionTTL goes by.
Expire(t) ==
  /\ sessions[t].status = "open"
  /\ sessions' = [sessions EXCEPT ![t].status = "expired"]
  /\ handler' = [g \in Handlers |->
                   IF g \in With(t) THEN Raced(handler[g]) ELSE handler[g]]
  /\ UNCHANGED <<users, profiles, jobs>>

-----------------------------------------------------------------------------
(***************************************************************************)
(* getAuth and withAuth: the session, then the user.                       *)
(***************************************************************************)
\* Mutant of ReadSession: the time of expiry is not looked at.
ReadSessionAnyTime(h, t) ==
  /\ handler[h] = Idle
  /\ sessions[t].status # "ended"
  /\ Goto(h, [at |-> "user", token |-> t, user |-> sessions[t].user, admin |-> FALSE,
              profile |-> 0, job |-> 0, raced |-> FALSE])
  /\ UNCHANGED <<users, sessions, profiles, jobs>>

ReadSession(h, t) ==
  /\ handler[h] = Idle
  /\ sessions[t].status = "open"
  /\ Goto(h, [at |-> "user", token |-> t, user |-> sessions[t].user, admin |-> FALSE,
              profile |-> 0, job |-> 0, raced |-> FALSE])
  /\ UNCHANGED <<users, sessions, profiles, jobs>>

ReadUser(h) ==
  /\ At(h, "user")
  /\ IF UserThere(handler[h].user)
     THEN /\ Goto(h, [handler[h] EXCEPT !.at = "act",
                                        !.admin = users[handler[h].user].admin])
          /\ UNCHANGED <<users, sessions, profiles, jobs>>
     ELSE Refuse(h)

-----------------------------------------------------------------------------
(***************************************************************************)
(* What an authenticated request does.                                     *)
(***************************************************************************)
\* handleLogout drops the error of its statement, which StatementFails covers.
Logout(h) ==
  /\ At(h, "act")
  /\ sessions' = [sessions EXCEPT ![handler[h].token].status = "ended"]
  /\ Answer(h, Idle, With(handler[h].token))
  /\ UNCHANGED <<users, profiles, jobs>>

Of(u) == {p \in ThereProfiles : profiles[p].owner = u}

\* The requests a check let through for one of these profiles.
About(gone) ==
  {g \in InChecks : \/ At(g, "insert") /\ handler[g].profile \in gone
                    \/ At(g, "list") /\ handler[g].profile \in gone
                    \/ /\ At(g, "retry") /\ ~handler[g].admin
                       /\ jobs[handler[g].job].profile \in gone}

\* ON DELETE CASCADE: sessions and profiles go with the user, jobs stay.
DeleteAccount(h) ==
  /\ At(h, "act")
  /\ LET u == handler[h].user IN
       /\ users' = [v \in DOMAIN users |->
                      IF v = u THEN [users[v] EXCEPT !.there = FALSE] ELSE users[v]]
       /\ sessions' = [t \in DOMAIN sessions |->
                         IF sessions[t].user = u
                         THEN [sessions[t] EXCEPT !.status = "ended"] ELSE sessions[t]]
       /\ profiles' = [p \in DOMAIN profiles |->
                         IF profiles[p].owner = u
                         THEN [profiles[p] EXCEPT !.there = FALSE] ELSE profiles[p]]
       /\ Answer(h, Idle, {g \in InChecks : handler[g].user = u} \cup About(Of(u)))
  /\ UNCHANGED jobs

\* What is left of a request that has saved a profile, or has found its owner.
Submitting(h, p) == [handler[h] EXCEPT !.at = "insert", !.profile = p]

\* CreateProfile: UNIQUE (user_id, slug), and the user must be there.
CreateProfile(h, slug, public) ==
  /\ At(h, "act")
  /\ LET u == handler[h].user IN
       IF UserThere(u) /\ \A p \in Of(u) : profiles[p].slug # slug
       THEN /\ Len(profiles) < MaxProfiles
            /\ profiles' = Append(profiles, [owner |-> u, slug |-> slug,
                                             public |-> public, there |-> TRUE])
            /\ Goto(h, Submitting(h, Len(profiles) + 1))
            /\ UNCHANGED <<users, sessions, jobs>>
       ELSE Refuse(h)

\* The id of the request names nothing, or nothing of the user's: 403 or 404.
Forbidden(h) == At(h, "act") /\ Refuse(h)

\* The requests that a profile was shown to because it was public.
Strangers(p) ==
  {g \in InChecks : /\ At(g, "list") /\ handler[g].profile = p
                    /\ handler[g].user # profiles[p].owner}

\* Mutant of UpdateProfile: WHERE id = $1.
UpdateProfileOfAnyone(h, p, public) ==
  /\ At(h, "act")
  /\ p \in ThereProfiles
  /\ profiles' = [profiles EXCEPT ![p].public = public]
  /\ Answer(h, Submitting(h, p), IF public THEN {} ELSE Strangers(p))
  /\ UNCHANGED <<users, sessions, jobs>>

\* UPDATE .. WHERE id = $1 AND user_id = $2
UpdateProfile(h, p, public) ==
  /\ At(h, "act")
  /\ p \in Of(handler[h].user)
  /\ profiles' = [profiles EXCEPT ![p].public = public]
  /\ Answer(h, Submitting(h, p), IF public THEN {} ELSE Strangers(p))
  /\ UNCHANGED <<users, sessions, jobs>>

\* DELETE .. WHERE id = $1 AND user_id = $2
DeleteProfile(h, p) ==
  /\ At(h, "act")
  /\ p \in Of(handler[h].user)
  /\ profiles' = [profiles EXCEPT ![p].there = FALSE]
  /\ Answer(h, Idle, About({p}))
  /\ UNCHANGED <<users, sessions, jobs>>

\* The handlers that look for the owner first and submit jobs afterwards.
CheckOwner(h, p) ==
  /\ At(h, "act")
  /\ p \in Of(handler[h].user)
  /\ Goto(h, Submitting(h, p))
  /\ UNCHANGED <<users, sessions, profiles, jobs>>

\* There may be nothing to submit, and one job stands for many.
Submit(h) ==
  /\ At(h, "insert")
  /\ \/ UNCHANGED jobs
     \/ /\ Len(jobs) < MaxJobs
        /\ jobs' = Append(jobs, [profile |-> handler[h].profile, status |-> "pending"])
  /\ Goto(h, Idle)
  /\ UNCHANGED <<users, sessions, profiles>>

\* handleRetryJob: the job, and its profile unless an administrator asks.
CheckJob(h, j) ==
  /\ At(h, "act")
  /\ handler[h].admin \/ jobs[j].profile \in Of(handler[h].user)
  /\ Goto(h, [handler[h] EXCEPT !.at = "retry", !.job = j])
  /\ UNCHANGED <<users, sessions, profiles, jobs>>

RetryJob(h) ==
  /\ At(h, "retry")
  /\ jobs' = [jobs EXCEPT ![handler[h].job].status = "pending"]
  /\ Goto(h, Idle)
  /\ UNCHANGED <<users, sessions, profiles>>

\* cmd/worker settles a job.
JobFails(j) ==
  /\ jobs[j].status = "pending"
  /\ jobs' = [jobs EXCEPT ![j].status = "failed"]
  /\ UNCHANGED <<users, sessions, profiles, handler>>

-----------------------------------------------------------------------------
(***************************************************************************)
(* Reading: the profile with its visibility, then what it holds.           *)
(***************************************************************************)
\* A client without a session, for whom getAuth has nothing.
LookAnonymously(h, p) ==
  /\ handler[h] = Idle
  /\ p \in ThereProfiles /\ profiles[p].public
  /\ Goto(h, [at |-> "list", token |-> 0, user |-> 0, admin |-> FALSE,
              profile |-> p, job |-> 0, raced |-> FALSE])
  /\ UNCHANGED <<users, sessions, profiles, jobs>>

Look(h, p) ==
  /\ At(h, "act")
  /\ p \in ThereProfiles
  /\ profiles[p].public \/ profiles[p].owner = handler[h].user
  /\ Goto(h, [handler[h] EXCEPT !.at = "list", !.profile = p])
  /\ UNCHANGED <<users, sessions, profiles, jobs>>

\* ListProfileLikes, ListProfilePaperAnalysis and the list of candidates.
List(h) == At(h, "list") /\ Refuse(h)

-----------------------------------------------------------------------------
Authenticated(h) ==
  \/ ReadUser(h) \/ Logout(h) \/ DeleteAccount(h) \/ Forbidden(h)
  \/ \E slug \in Slugs, public \in BOOLEAN : CreateProfile(h, slug, public)
  \/ \E p \in DOMAIN profiles, public \in BOOLEAN : UpdateProfile(h, p, public)
  \/ \E p \in DOMAIN profiles : DeleteProfile(h, p) \/ CheckOwner(h, p) \/ Look(h, p)
  \/ \E j \in DOMAIN jobs : CheckJob(h, j)
  \/ Submit(h) \/ RetryJob(h) \/ List(h)

Request(h) ==
  \/ \E n \in Names : Register(h, n)
  \/ CreateUser(h) \/ IssueSession(h)
  \/ \E u \in DOMAIN users : Login(h, u)
  \/ \E t \in DOMAIN sessions : ReadSession(h, t)
  \/ \E p \in DOMAIN profiles : LookAnonymously(h, p)
  \/ Authenticated(h) \/ StatementFails(h)

Next ==
  \/ \E h \in Handlers : Request(h)
  \/ \E t \in DOMAIN sessions : Expire(t)
  \/ \E j \in DOMAIN jobs : JobFails(j)

Spec == Init /\ [][Next]_vars

-----------------------------------------------------------------------------
Admins == {u \in ThereUsers : users[u].admin}

\* Of two administrators the later one was registering already when the first
\* was inserted, and no account is without an administrator unless one has
\* left: the count that makes the first user one is no lock.
AdminsExplained ==
  /\ \A u, v \in Admins : u < v => u \in users[v].beside
  /\ ThereUsers # {} => \E u \in DOMAIN users : users[u].admin

\* No row outlives the account it belongs to, neither a session nor a profile
\* whose request was let in before the account was deleted.
NothingOutlives ==
  /\ \A t \in DOMAIN sessions : sessions[t].status # "ended" => UserThere(sessions[t].user)
  /\ \A p \in ThereProfiles : UserThere(profiles[p].owner)

\* What the checks of a request found out is true until its last statement:
\* session, account, owner, administrator and visibility, unless one of them
\* was undone while the request ran.
ChecksHold ==
  \A h \in InChecks :
    LET request == handler[h]
        p == request.profile IN
      ~request.raced =>
        /\ request.token # 0 => /\ sessions[request.token].status = "open"
                                /\ sessions[request.token].user = request.user
                                /\ UserThere(request.user)
        /\ request.admin => request.user \in Admins
        /\ At(h, "insert") => p \in Of(request.user)
        /\ At(h, "retry") => request.admin \/ jobs[request.job].profile \in Of(request.user)
        /\ At(h, "list") => p \in ThereProfiles /\ (profiles[p].public \/ p \in Of(request.user))

\* Whose session a request came with.
Actor(h) == sessions[handler[h].token].user

Acts(h, step) == At(h, step) /\ handler'[h].at # step

\* A profile is changed by requests of its owner only, and a job is submitted
\* or submitted again by those of the owner of its profile, or of an
\* administrator, whatever has happened to session and account meanwhile.
OnlyTheirOwn ==
  [][/\ \A p \in DOMAIN profiles :
          profiles'[p] # profiles[p] => \E h \in Handlers :
            Acts(h, "act") /\ Actor(h) = profiles[p].owner
     /\ \A j \in DOMAIN jobs' : j \notin DOMAIN jobs => \E h \in Handlers :
          Acts(h, "insert") /\ Actor(h) = profiles[jobs'[j].profile].owner
     /\ \A j \in DOMAIN jobs :
          jobs[j].status = "failed" /\ jobs'[j].status = "pending" => \E h \in Handlers :
            /\ Acts(h, "retry")
            /\ Actor(h) = profiles[jobs[j].profile].owner \/ users[Actor(h)].admin]_vars
=============================================================================
