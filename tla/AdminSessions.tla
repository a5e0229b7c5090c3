---------------------------- MODULE AdminSessions ----------------------------
(***************************************************************************)
(* The administration handler (internal/app/admin.go): logins, sessions    *)
(* and login failures of one server.  Every request runs in a goroutine of *)
(* its own.  The maps are under one mutex, but the clock is read before it *)
(* is taken and the password is checked outside, so a request acts on a    *)
(* time, and on an answer of loginBlocked, that may be old.  Instants are  *)
(* kept as distances from the present: an age, a time left, and for a      *)
(* request how long ago it read the clock.                                 *)
(***************************************************************************)
EXTENDS AdminCredentials, Integers, FiniteSets, Functions

CONSTANTS
    Handlers,     \* goroutines that serve a request
    Clients,      \* remote addresses
    Tokens,       \* session tokens that randomToken(32) may return, each once
    MaxFailures,  \* adminMaxLoginFailures
    Window,       \* adminFailureWindow
    Lifetime,     \* adminSessionLifetime
    MaxLag        \* bound on the time between reading the clock and the mutex

ASSUME HandlersAssumption == IsFiniteSet(Handlers)
ASSUME NamesAssumption == None \notin Clients /\ None \notin Tokens
ASSUME LimitsAssumption ==
    MaxFailures \in Nat \ {0} /\ Window \in Nat \ {0} /\ Lifetime \in Nat /\ MaxLag \in Nat

VARIABLES
    req,        \* the request each handler serves
    failures,   \* server.failures: failures and age of the window; zero for no entry
    sessions,   \* server.sessions: the time each session has left
    given,      \* tokens created so far: what a cookie may hold
    forms,      \* tokens whose CSRF value an editor page carries
    ended       \* history: tokens whose session has ended

vars == <<credentialVars, req, failures, sessions, given, forms, ended>>

\* A request: what its handler does next, its address, the token in its cookie or
\* in that of the answer, how long ago the handler read the clock; history: was
\* the session over when the request arrived?
Idle == [at |-> "idle", client |-> None, cookie |-> None, lag |-> 0, late |-> FALSE]

NoFailures == [count |-> 0, age |-> 0]
NoSessions == [t \in {} |-> 0]

Init ==
    /\ CredentialsInit
    /\ req = [h \in Handlers |-> Idle]
    /\ failures = [c \in Clients |-> NoFailures]
    /\ sessions = NoSessions
    /\ given = {}
    /\ forms = {}
    /\ ended = {}

\* Handlers that hold a time they have read.
Timed == {h \in Handlers : req[h].at \in {"asking", "failing", "opening", "entering"}}

\* The handler goes on; the clock is read now, or no longer needed.
Goes(h, where) == req' = [req EXCEPT ![h] = [@ EXCEPT !.at = where, !.lag = 0]]

Answers(h) == req' = [req EXCEPT ![h] = Idle]

\* now.Sub(windowStart) < adminFailureWindow, now being d ago.
Running(failure, d) == failure.age - d < Window

\* pruneLocked, now being d ago.
KeptSessions(d) == Restrict(sessions, {t \in DOMAIN sessions : sessions[t] + d > 0})
KeptFailures(d) ==
    [c \in Clients |-> IF Running(failures[c], d) THEN failures[c] ELSE NoFailures]
-----------------------------------------------------------------------------
\* A login is posted over HTTPS from the same origin; loginBlocked reads the clock.
PostLogin(h, c) ==
    /\ req[h].at = "idle"
    /\ req' = [req EXCEPT ![h] = [Idle EXCEPT !.at = "asking", !.client = c]]
    /\ UNCHANGED <<failures, sessions, given, forms, ended>>

\* Mutant of Blocked: one failure too many.
BlockedAbove(c, d) == Running(failures[c], d) /\ failures[c].count > MaxFailures

Blocked(c, d) == Running(failures[c], d) /\ failures[c].count >= MaxFailures

\* Mutant of AskBlocked: a refused attempt starts the window again.
RefusalProlongs(h) ==
    /\ req[h].at = "asking"
    /\ \/ /\ Blocked(req[h].client, req[h].lag)
          /\ failures' = [failures EXCEPT ![req[h].client].age = 0]
          /\ Answers(h)
       \/ ~Blocked(req[h].client, req[h].lag) /\ Goes(h, "checking") /\ UNCHANGED failures
    /\ UNCHANGED <<sessions, given, forms, ended>>

\* loginBlocked, under the mutex: 429, or the password is checked.
AskBlocked(h) ==
    /\ req[h].at = "asking"
    /\ IF Blocked(req[h].client, req[h].lag) THEN Answers(h) ELSE Goes(h, "checking")
    /\ UNCHANGED <<failures, sessions, given, forms, ended>>

\* The digests differ: recordLoginFailure reads the clock.
WrongPassword(h) ==
    /\ req[h].at = "checking"
    /\ Goes(h, "failing")
    /\ UNCHANGED <<failures, sessions, given, forms, ended>>

\* recordLoginFailure, under the mutex: a failure more in the window, or a new window.
RecordLoginFailure(h) ==
    LET c == req[h].client
        window == IF failures[c].count > 0 /\ Running(failures[c], req[h].lag)
                  THEN failures[c]
                  ELSE [count |-> 0, age |-> req[h].lag]
    IN
    /\ req[h].at = "failing"
    /\ failures' = [failures EXCEPT
                       ![c] = [count |-> window.count + 1, age |-> window.age]]
    /\ Answers(h)
    /\ UNCHANGED <<sessions, given, forms, ended>>

\* The digests agree, which takes somebody who has seen the password in the log:
\* clearLoginFailures.
RightPassword(h) ==
    /\ req[h].at = "checking"
    /\ held \in logged
    /\ failures' = [failures EXCEPT ![req[h].client] = NoFailures]
    /\ Goes(h, "cleared")
    /\ UNCHANGED <<sessions, given, forms, ended>>

\* The tokens of the sessions that are being created.
Drawn == {req[h].cookie : h \in {g \in Handlers : req[g].at = "opening"}}

\* The token and the CSRF value are drawn, which may fail, and the clock is read.
DrawToken(h) ==
    /\ req[h].at = "cleared"
    /\ \/ \E t \in Tokens \ (given \union Drawn) :
            req' = [req EXCEPT ![h] = [@ EXCEPT !.at = "opening", !.cookie = t]]
       \/ Answers(h)
    /\ UNCHANGED <<failures, sessions, given, forms, ended>>

\* The session is created, under the mutex, and its cookie answered.
CreateSession(h) ==
    LET kept == KeptSessions(req[h].lag)
        token == req[h].cookie
    IN
    /\ req[h].at = "opening"
    /\ sessions' = [t \in DOMAIN kept \union {token} |->
                       IF t = token THEN Lifetime - req[h].lag ELSE kept[t]]
    /\ given' = given \union {token}
    /\ failures' = KeptFailures(req[h].lag)
    /\ Answers(h)
    /\ UNCHANGED <<forms, ended>>
-----------------------------------------------------------------------------
\* A request with a cookie: session() reads the clock.
PostWithCookie(h, t) ==
    /\ req[h].at = "idle"
    /\ req' = [req EXCEPT ![h] = [at |-> "entering", client |-> None, cookie |-> t,
                                  lag |-> 0, late |-> t \in ended]]
    /\ UNCHANGED <<failures, sessions, given, forms, ended>>

\* session(), under the mutex: expired entries are pruned, then the token looked up.
FindSession(h) ==
    /\ req[h].at = "entering"
    /\ sessions' = KeptSessions(req[h].lag)
    /\ failures' = KeptFailures(req[h].lag)
    /\ IF req[h].cookie \in DOMAIN sessions' THEN Goes(h, "granted") ELSE Answers(h)
    /\ UNCHANGED <<given, forms, ended>>

\* handleEditor, or handleSave when the registry refuses the pools: a form with
\* the CSRF value of the session is answered.
ShowEditor(h) ==
    /\ req[h].at = "granted"
    /\ forms' = forms \union {req[h].cookie}
    /\ Answers(h)
    /\ UNCHANGED <<failures, sessions, given, ended>>

\* The request changes nothing more here: a redirect from the login page, another
\* origin, a form of another session, or a save that the registry accepts.
Finish(h) ==
    /\ req[h].at = "granted"
    /\ Answers(h)
    /\ UNCHANGED <<failures, sessions, given, forms, ended>>

\* Mutant of Logout: only the cookie is cleared.
LogoutKeepsSession(h) ==
    /\ req[h].at = "granted"
    /\ req[h].cookie \in forms
    /\ ended' = ended \union {req[h].cookie}
    /\ Answers(h)
    /\ UNCHANGED <<failures, sessions, given, forms>>

\* handleLogout with a form of this very session: the session is deleted.
Logout(h) ==
    /\ req[h].at = "granted"
    /\ req[h].cookie \in forms
    /\ sessions' = Restrict(sessions, DOMAIN sessions \ {req[h].cookie})
    /\ ended' = ended \union {req[h].cookie}
    /\ Answers(h)
    /\ UNCHANGED <<failures, given, forms>>
-----------------------------------------------------------------------------
\* Time passes: windows age, sessions run out.  Ages and times left are kept only
\* as far as a handler with an old time can tell them apart.
Tick ==
    /\ \A h \in Timed : req[h].lag < MaxLag
    /\ req' = [h \in Handlers |->
                  IF h \in Timed THEN [req[h] EXCEPT !.lag = @ + 1] ELSE req[h]]
    /\ failures' = [c \in Clients |->
           IF failures[c].count > 0 /\ failures[c].age < Window + MaxLag
           THEN [failures[c] EXCEPT !.age = @ + 1] ELSE failures[c]]
    /\ sessions' = [t \in DOMAIN sessions |->
           IF sessions[t] > -MaxLag THEN sessions[t] - 1 ELSE sessions[t]]
    /\ ended' = ended \union {t \in DOMAIN sessions : sessions[t] <= 1}
    /\ UNCHANGED <<given, forms>>

\* The server ends: the maps are lost, requests are cut off.
Forget ==
    /\ req' = [h \in Handlers |-> Idle]
    /\ failures' = [c \in Clients |-> NoFailures]
    /\ sessions' = NoSessions
    /\ ended' = given
    /\ UNCHANGED <<given, forms>>

\* A request arrives at ServeHTTP.
Arrive(h) ==
    \/ \E c \in Clients : PostLogin(h, c)
    \/ \E t \in given : PostWithCookie(h, t)

\* A handler goes on with the request it serves.
Continue(h) ==
    \/ AskBlocked(h) \/ WrongPassword(h) \/ RecordLoginFailure(h)
    \/ RightPassword(h) \/ DrawToken(h) \/ CreateSession(h)
    \/ FindSession(h) \/ ShowEditor(h) \/ Finish(h) \/ Logout(h)

Serving == start = "serving" /\ UNCHANGED credentialVars

Next ==
    \/ StartStep /\ UNCHANGED <<req, failures, sessions, given, forms, ended>>
    \/ Stop /\ Forget
    \/ \E h \in Handlers : Serving /\ (Arrive(h) \/ Continue(h))
    \/ Tick /\ UNCHANGED credentialVars

\* Time passes, and a request that is being served is served to its end.
Fairness ==
    /\ WF_vars(Tick /\ UNCHANGED credentialVars)
    /\ \A h \in Handlers : WF_vars(Serving /\ Continue(h))

Spec == Init /\ [][Next]_vars /\ Fairness
-----------------------------------------------------------------------------
Places == {"idle", "asking", "checking", "failing", "cleared", "opening", "entering", "granted"}

\* Types; what a handler has read is no older than it may be.
TypeOK ==
    /\ CredentialsTypeOK
    /\ req \in [Handlers -> [at : Places, client : Clients \union {None},
                             cookie : Tokens \union {None}, lag : 0 .. MaxLag, late : BOOLEAN]]
    /\ \A h \in Handlers :
        /\ req[h].at \in {"asking", "checking", "failing"} => req[h].client \in Clients
        /\ req[h].at = "opening" => req[h].cookie \in Tokens \ given
        /\ req[h].at \in {"entering", "granted"} => req[h].cookie \in given
    /\ failures \in [Clients -> [count : Nat, age : 0 .. Window + MaxLag]]
    /\ DOMAIN sessions \subseteq given
    /\ \A t \in DOMAIN sessions : sessions[t] \in -MaxLag .. Lifetime
    /\ given \subseteq Tokens
    /\ forms \subseteq given
    /\ ended \subseteq given

\* Attempts that are served at the same time ask loginBlocked before any of them
\* has recorded its failure, so the limit can be passed, but by no more than the
\* other attempts in flight: old times and windows that end meanwhile do not add up.
FailuresAreBounded ==
    \A c \in Clients : failures[c].count < MaxFailures + Cardinality(Handlers)

\* A session that has ended, by a logout, by its age or with the server, lets no
\* request in that arrives afterwards; only one that had arrived before may still act.
EndedSessionsStayEnded == \A h \in Handlers : req[h].at = "granted" => ~req[h].late

Attempts(c) == \E h \in Handlers : req[h].at = "asking" /\ req[h].client = c
Checks(c) == \E h \in Handlers : req[h].at = "checking" /\ req[h].client = c

\* An address that keeps trying is let in again and again to have its password
\* checked, as long as the server runs: refusals never prolong a lockout.
LockoutsEnd ==
    \A c \in Clients : <>[](start = "serving") /\ []<>Attempts(c) => []<>Checks(c)
=============================================================================
