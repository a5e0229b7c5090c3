------------------------- MODULE AdminSessions_proof -------------------------
(***************************************************************************)
(* Proofs about AdminSessions for any number of handlers, addresses and    *)
(* tokens and for all limits: logged passwords keep working, failures are  *)
(* bounded, and ended sessions stay ended.                                 *)
(***************************************************************************)
EXTENDS AdminSessions, FiniteSetTheorems, TLAPS

Request == [at : Places, client : Clients \union {None},
            cookie : Tokens \union {None}, lag : 0 .. MaxLag, late : BOOLEAN]

Failure == [count : Nat, age : 0 .. Window + MaxLag]

\* No two sessions that are being created share a token.
DrawnApart ==
    \A g, h \in Handlers :
        g # h /\ req[g].at = "opening" /\ req[h].at = "opening" => req[g].cookie # req[h].cookie

\* The file, the passwords and the progress of a start keep their types.
LEMMA CredentialsType ==
    ASSUME CredentialsTypeOK, StartStep \/ Stop \/ UNCHANGED credentialVars
    PROVE  CredentialsTypeOK'
<1> USE PasswordsAssumption DEF CredentialsTypeOK, Serve, Fresh
<1>1. CASE LoadFile
    BY <1>1 DEF LoadFile
<1>2. CASE Generate
    BY <1>2 DEF Generate
<1>3. CASE CreateFile
    BY <1>3 DEF CreateFile
<1>4. CASE WriteFile
    BY <1>4 DEF WriteFile
<1>5. CASE LogPassword
    BY <1>5 DEF LogPassword
<1>6. CASE Rival
    BY <1>6 DEF Rival
<1>7. CASE RemoveFile
    BY <1>7 DEF RemoveFile
<1>8. CASE Stop
    BY <1>8 DEF Stop
<1>9. CASE UNCHANGED credentialVars
    BY <1>9 DEF credentialVars
<1> QED
    BY <1>1, <1>2, <1>3, <1>4, <1>5, <1>6, <1>7, <1>8, <1>9 DEF StartStep

\* A logged password is that of the file: only the file that a start has created
\* itself, exclusively, is written, and only what was written is logged.
LEMMA LoggedInductive ==
    ASSUME CredentialsTypeOK, LoggedPasswordsWork, start = "written" => file = own,
           start = "writing" => file = "torn",
           StartStep \/ Stop \/ UNCHANGED credentialVars
    PROVE  LoggedPasswordsWork' /\ (start = "written" => file = own)'
           /\ (start = "writing" => file = "torn")'
<1> USE PasswordsAssumption DEF CredentialsTypeOK, LoggedPasswordsWork, Serve, Fresh
<1>1. CASE LoadFile
    BY <1>1 DEF LoadFile
<1>2. CASE Generate
    BY <1>2 DEF Generate
<1>3. CASE CreateFile
    BY <1>3 DEF CreateFile
<1>4. CASE WriteFile
    BY <1>4 DEF WriteFile
<1>5. CASE LogPassword
    BY <1>5 DEF LogPassword
<1>6. CASE Rival
    BY <1>6 DEF Rival
<1>7. CASE RemoveFile
    BY <1>7 DEF RemoveFile
<1>8. CASE Stop
    BY <1>8 DEF Stop
<1>9. CASE UNCHANGED credentialVars
    BY <1>9 DEF credentialVars
<1> QED
    BY <1>1, <1>2, <1>3, <1>4, <1>5, <1>6, <1>7, <1>8, <1>9 DEF StartStep

\* Every step of the server is one of the credentials too.
LEMMA CredentialsStep == [Next]_vars => StartStep \/ Stop \/ UNCHANGED credentialVars
    BY DEF Next, vars, Serving

\* What the start of the server keeps true about the file.
FileInv ==
    /\ CredentialsTypeOK
    /\ LoggedPasswordsWork
    /\ start = "written" => file = own
    /\ start = "writing" => file = "torn"

\* No start of the server and no death of it loses a password that was logged.
THEOREM LoggedWork == Spec => []LoggedPasswordsWork
<1>1. Init => FileInv
    BY PasswordsAssumption
    DEF Init, CredentialsInit, FileInv, CredentialsTypeOK, LoggedPasswordsWork
<1>2. FileInv /\ [Next]_vars => FileInv'
    BY CredentialsStep, CredentialsType, LoggedInductive DEF FileInv
<1>3. FileInv => LoggedPasswordsWork
    BY DEF FileInv
<1> QED
    BY <1>1, <1>2, <1>3, PTL DEF Spec

\* Pruning keeps the types, and only entries that were there.
LEMMA PruneType ==
    ASSUME TypeOK, NEW d \in 0 .. MaxLag
    PROVE  /\ KeptFailures(d) \in [Clients -> Failure]
           /\ DOMAIN KeptSessions(d) \subseteq DOMAIN sessions
           /\ \A t \in DOMAIN KeptSessions(d) :
                KeptSessions(d)[t] = sessions[t] /\ sessions[t] + d > 0
<1>1. KeptFailures(d) \in [Clients -> Failure]
    BY LimitsAssumption DEF TypeOK, KeptFailures, NoFailures, Failure
<1>2. DOMAIN KeptSessions(d) = {t \in DOMAIN sessions : sessions[t] + d > 0}
    BY DEF KeptSessions, Restrict
<1> QED
    BY <1>1, <1>2 DEF KeptSessions, Restrict

\* What the requests of the handlers look like when one of them changes.
LEMMA RequestType ==
    ASSUME TypeOK, NEW h \in Handlers, NEW r \in Request,
           req' = [req EXCEPT ![h] = r], given' = given,
           r.at \in {"asking", "checking", "failing"} => r.client \in Clients,
           r.at = "opening" => r.cookie \in Tokens \ given,
           r.at \in {"entering", "granted"} => r.cookie \in given
    PROVE  /\ req' \in [Handlers -> Request]
           /\ \A g \in Handlers :
                /\ req'[g].at \in {"asking", "checking", "failing"} => req'[g].client \in Clients
                /\ req'[g].at = "opening" => req'[g].cookie \in Tokens \ given'
                /\ req'[g].at \in {"entering", "granted"} => req'[g].cookie \in given'
<1>1. req \in [Handlers -> Request]
    BY DEF TypeOK, Request
<1>2. req' \in [Handlers -> Request]
    BY <1>1
<1>3. ASSUME NEW g \in Handlers
      PROVE  /\ req'[g].at \in {"asking", "checking", "failing"} => req'[g].client \in Clients
             /\ req'[g].at = "opening" => req'[g].cookie \in Tokens \ given'
             /\ req'[g].at \in {"entering", "granted"} => req'[g].cookie \in given'
  <2>1. CASE g = h
    <3>1. req'[g] = r
        BY <1>1, <2>1
    <3> QED
        BY <3>1
  <2>2. CASE g # h
    <3>1. req'[g] = req[g]
        BY <1>1, <2>2
    <3> QED
        BY <3>1 DEF TypeOK
  <2> QED
    BY <2>1, <2>2
<1> QED
    BY <1>2, <1>3

\* A request that its handler has answered, or goes on with, is one again.
LEMMA NextRequest ==
    ASSUME TypeOK, NEW h \in Handlers
    PROVE  /\ Idle \in Request /\ Idle.at = "idle"
           /\ req[h] \in Request
           /\ \A place \in Places :
                LET r == [req[h] EXCEPT !.at = place, !.lag = 0]
                IN  r \in Request /\ r.at = place /\ r.client = req[h].client
                    /\ r.cookie = req[h].cookie /\ r.late = req[h].late /\ r.lag = 0
<1>1. 0 \in 0 .. MaxLag /\ "idle" \in Places
    BY LimitsAssumption DEF Places
<1>2. Idle \in Request /\ Idle.at = "idle"
    BY <1>1 DEF Request, Idle
<1>3. req[h] \in Request
    BY DEF TypeOK, Request
<1>4. ASSUME NEW place \in Places
      PROVE  LET r == [req[h] EXCEPT !.at = place, !.lag = 0]
             IN  r \in Request /\ r.at = place /\ r.client = req[h].client
                 /\ r.cookie = req[h].cookie /\ r.late = req[h].late /\ r.lag = 0
    BY <1>1, <1>3 DEF Request
<1> QED
    BY <1>2, <1>3, <1>4

\* The types of the maps, when the requests keep theirs.
MapsOK ==
    /\ failures \in [Clients -> Failure]
    /\ DOMAIN sessions \subseteq given
    /\ \A t \in DOMAIN sessions : sessions[t] \in -MaxLag .. Lifetime
    /\ given \subseteq Tokens
    /\ forms \subseteq given
    /\ ended \subseteq given

RequestsOK ==
    /\ req \in [Handlers -> Request]
    /\ \A g \in Handlers :
        /\ req[g].at \in {"asking", "checking", "failing"} => req[g].client \in Clients
        /\ req[g].at = "opening" => req[g].cookie \in Tokens \ given
        /\ req[g].at \in {"entering", "granted"} => req[g].cookie \in given

LEMMA TypeParts == TypeOK <=> CredentialsTypeOK /\ RequestsOK /\ MapsOK
    BY DEF TypeOK, RequestsOK, MapsOK, Request, Failure

\* A handler that answers leaves the requests well typed, whatever is given meanwhile.
LEMMA AnswerType ==
    ASSUME TypeOK, NEW h \in Handlers, Answers(h), given' = given
    PROVE  RequestsOK'
    BY NextRequest, RequestType DEF Answers, RequestsOK

LEMMA GoType ==
    ASSUME TypeOK, NEW h \in Handlers, NEW place \in Places, Goes(h, place), given' = given,
           place \in {"asking", "checking", "failing"} => req[h].client \in Clients,
           place # "opening",
           place \in {"entering", "granted"} => req[h].cookie \in given
    PROVE  RequestsOK'
<1>1. PICK r \in Request : /\ r = [req[h] EXCEPT !.at = place, !.lag = 0]
                           /\ r.at = place /\ r.client = req[h].client
                           /\ r.cookie = req[h].cookie
    BY NextRequest
<1>2. req' = [req EXCEPT ![h] = r]
    BY <1>1 DEF Goes, TypeOK
<1> QED
    BY <1>1, <1>2, RequestType DEF RequestsOK

\* The types are kept by a step of a handler.
LEMMA HandlerType ==
    ASSUME TypeOK, DrawnApart, NEW h \in Handlers, Arrive(h) \/ Continue(h)
    PROVE  RequestsOK' /\ MapsOK'
<1>0. RequestsOK /\ MapsOK /\ req[h] \in Request /\ req[h].lag \in 0 .. MaxLag
    BY TypeParts DEF RequestsOK, Request
<1>1. ASSUME NEW c \in Clients, PostLogin(h, c) PROVE RequestsOK' /\ MapsOK'
  <2>1. PICK r \in Request : /\ r = [Idle EXCEPT !.at = "asking", !.client = c]
                             /\ r.at = "asking" /\ r.client = c
    <3>1. "asking" \in Places
        BY DEF Places
    <3>2. [Idle EXCEPT !.at = "asking", !.client = c] \in Request
        BY <3>1, NextRequest DEF Request
    <3> QED
        BY <3>2, NextRequest DEF Request
  <2>2. req' = [req EXCEPT ![h] = r] /\ given' = given
      BY <1>1, <2>1 DEF PostLogin
  <2>3. RequestsOK'
      BY <2>1, <2>2, RequestType DEF RequestsOK
  <2> QED
      BY <1>0, <1>1, <2>3 DEF PostLogin, MapsOK
<1>2. ASSUME NEW t \in given, PostWithCookie(h, t) PROVE RequestsOK' /\ MapsOK'
  <2>1. PICK r \in Request :
            /\ r = [at |-> "entering", client |-> None, cookie |-> t, lag |-> 0,
                    late |-> t \in ended]
            /\ r.at = "entering" /\ r.cookie = t
    <3>1. "entering" \in Places /\ t \in Tokens
        BY <1>0 DEF Places, MapsOK
    <3>2. [at |-> "entering", client |-> None, cookie |-> t, lag |-> 0, late |-> t \in ended]
            \in Request
        BY <3>1, LimitsAssumption DEF Request
    <3> QED
        BY <3>2
  <2>2. req' = [req EXCEPT ![h] = r] /\ given' = given
      BY <1>2, <2>1 DEF PostWithCookie
  <2>3. RequestsOK'
      BY <2>1, <2>2, RequestType DEF RequestsOK
  <2> QED
      BY <1>0, <1>2, <2>3 DEF PostWithCookie, MapsOK
<1>3. CASE AskBlocked(h)
  <2>1. req[h].client \in Clients
      BY <1>0, <1>3 DEF AskBlocked, RequestsOK
  <2>2. RequestsOK'
      BY <1>3, <2>1, AnswerType, GoType DEF AskBlocked, Places
  <2> QED
      BY <1>0, <1>3, <2>2 DEF AskBlocked, MapsOK
<1>4. CASE WrongPassword(h)
  <2>1. req[h].client \in Clients
      BY <1>0, <1>4 DEF WrongPassword, RequestsOK
  <2>2. RequestsOK'
      BY <1>4, <2>1, GoType DEF WrongPassword, Places
  <2> QED
      BY <1>0, <1>4, <2>2 DEF WrongPassword, MapsOK
<1>5. CASE RecordLoginFailure(h)
  <2>1. req[h].client \in Clients
      BY <1>0, <1>5 DEF RecordLoginFailure, RequestsOK
  <2>2. RequestsOK'
      BY <1>5, AnswerType DEF RecordLoginFailure
  <2>3. PICK f \in Failure : failures' = [failures EXCEPT ![req[h].client] = f]
    <3>1. /\ failures[req[h].client] \in Failure
          /\ [count |-> 0, age |-> req[h].lag] \in Failure
        BY <1>0, <2>1, LimitsAssumption DEF MapsOK, Failure
    <3>2. PICK w \in Failure : failures' = [failures EXCEPT ![req[h].client] =
                                              [count |-> w.count + 1, age |-> w.age]]
        BY <1>5, <3>1 DEF RecordLoginFailure
    <3>3. [count |-> w.count + 1, age |-> w.age] \in Failure
        BY DEF Failure
    <3> QED
        BY <3>2, <3>3
  <2>4. failures' \in [Clients -> Failure]
      BY <1>0, <2>3 DEF MapsOK
  <2> QED
      BY <1>0, <1>5, <2>2, <2>4 DEF RecordLoginFailure, MapsOK
<1>6. CASE RightPassword(h)
  <2>1. RequestsOK'
      BY <1>6, GoType DEF RightPassword, Places
  <2>2. failures' \in [Clients -> Failure]
    <3>1. NoFailures \in Failure
        BY LimitsAssumption DEF NoFailures, Failure
    <3> QED
        BY <1>0, <1>6, <3>1 DEF RightPassword, MapsOK
  <2> QED
      BY <1>0, <1>6, <2>1, <2>2 DEF RightPassword, MapsOK
<1>7. CASE DrawToken(h)
  <2>1. CASE Answers(h)
      BY <1>0, <1>7, <2>1, AnswerType DEF DrawToken, MapsOK
  <2>2. ASSUME NEW t \in Tokens \ (given \union Drawn),
               req' = [req EXCEPT ![h] = [@ EXCEPT !.at = "opening", !.cookie = t]]
        PROVE  RequestsOK' /\ MapsOK'
    <3>1. PICK r \in Request : /\ r = [req[h] EXCEPT !.at = "opening", !.cookie = t]
                               /\ r.at = "opening" /\ r.cookie = t
      <4>1. "opening" \in Places
          BY DEF Places
      <4>2. [req[h] EXCEPT !.at = "opening", !.cookie = t] \in Request
          BY <1>0, <4>1 DEF Request
      <4> QED
          BY <1>0, <4>2 DEF Request
    <3>2. req' = [req EXCEPT ![h] = r] /\ given' = given
        BY <1>0, <1>7, <2>2, <3>1 DEF DrawToken, RequestsOK
    <3>3. RequestsOK'
        BY <3>1, <3>2, RequestType DEF RequestsOK
    <3> QED
        BY <1>0, <1>7, <3>3 DEF DrawToken, MapsOK
  <2> QED
      BY <1>7, <2>1, <2>2 DEF DrawToken
<1>8. CASE CreateSession(h)
  <2>1. req[h].cookie \in Tokens \ given /\ req[h].lag \in 0 .. MaxLag
      BY <1>0, <1>8 DEF CreateSession, RequestsOK
  <2>2. RequestsOK'
    <3>1. req' = [req EXCEPT ![h] = Idle] /\ given' = given \union {req[h].cookie}
        BY <1>8 DEF CreateSession, Answers
    <3>2. req' \in [Handlers -> Request]
        BY <1>0, <3>1, NextRequest DEF RequestsOK
    <3>3. ASSUME NEW g \in Handlers
          PROVE  /\ req'[g].at \in {"asking", "checking", "failing"} => req'[g].client \in Clients
                 /\ req'[g].at = "opening" => req'[g].cookie \in Tokens \ given'
                 /\ req'[g].at \in {"entering", "granted"} => req'[g].cookie \in given'
      <4>1. CASE g = h
        <5>1. req'[g].at = "idle"
            BY <1>0, <3>1, <4>1, NextRequest DEF RequestsOK
        <5> QED
            BY <5>1
      <4>2. CASE g # h
        <5>1. req'[g] = req[g]
            BY <1>0, <3>1, <4>2 DEF RequestsOK
        <5>2. req[g].at = "opening" => req[g].cookie # req[h].cookie
            BY <1>8, <4>2 DEF DrawnApart, CreateSession
        <5> QED
            BY <1>0, <3>1, <5>1, <5>2 DEF RequestsOK
      <4> QED
        BY <4>1, <4>2
    <3> QED
      BY <3>2, <3>3 DEF RequestsOK
  <2>3. failures' \in [Clients -> Failure]
      BY <1>8, <2>1, PruneType DEF CreateSession
  <2>4. /\ DOMAIN sessions' \subseteq given'
        /\ \A t \in DOMAIN sessions' : sessions'[t] \in -MaxLag .. Lifetime
    <3>1. PICK kept : /\ kept = KeptSessions(req[h].lag)
                      /\ DOMAIN kept \subseteq DOMAIN sessions
                      /\ \A t \in DOMAIN kept : kept[t] = sessions[t]
        BY <2>1, PruneType
    <3>2. /\ DOMAIN sessions' = DOMAIN kept \union {req[h].cookie}
          /\ sessions'[req[h].cookie] = Lifetime - req[h].lag
          /\ \A t \in DOMAIN kept : t # req[h].cookie => sessions'[t] = kept[t]
        BY <1>8, <3>1 DEF CreateSession
    <3>3. Lifetime - req[h].lag \in -MaxLag .. Lifetime
        BY <2>1, LimitsAssumption
    <3> QED
        BY <1>0, <1>8, <3>1, <3>2, <3>3 DEF MapsOK, CreateSession
  <2> QED
      BY <1>0, <1>8, <2>1, <2>2, <2>3, <2>4 DEF CreateSession, MapsOK
<1>9. CASE FindSession(h)
  <2>1. RequestsOK'
    <3>1. req[h].cookie \in given
        BY <1>0, <1>9 DEF FindSession, RequestsOK
    <3> QED
        BY <1>9, <3>1, AnswerType, GoType DEF FindSession, Places
  <2>2. /\ failures' \in [Clients -> Failure]
        /\ DOMAIN sessions' \subseteq DOMAIN sessions
        /\ \A t \in DOMAIN sessions' : sessions'[t] = sessions[t]
      BY <1>0, <1>9, PruneType DEF FindSession
  <2> QED
      BY <1>0, <1>9, <2>1, <2>2 DEF FindSession, MapsOK
<1>10. CASE ShowEditor(h)
  <2>1. req[h].cookie \in given
      BY <1>0, <1>10 DEF ShowEditor, RequestsOK
  <2> QED
      BY <1>0, <1>10, <2>1, AnswerType DEF ShowEditor, MapsOK
<1>11. CASE Finish(h)
    BY <1>0, <1>11, AnswerType DEF Finish, MapsOK
<1>12. CASE Logout(h)
  <2>1. req[h].cookie \in given
      BY <1>0, <1>12 DEF Logout, RequestsOK
  <2>2. /\ DOMAIN sessions' \subseteq DOMAIN sessions
        /\ \A t \in DOMAIN sessions' : sessions'[t] = sessions[t]
      BY <1>12 DEF Logout, Restrict
  <2> QED
      BY <1>0, <1>12, <2>1, <2>2, AnswerType DEF Logout, MapsOK
<1> QED
    BY <1>1, <1>2, <1>3, <1>4, <1>5, <1>6, <1>7, <1>8, <1>9, <1>10, <1>11, <1>12
    DEF Arrive, Continue

\* The types are kept by the clock and by a restart.
LEMMA ServerType ==
    ASSUME TypeOK, Tick \/ Forget
    PROVE  RequestsOK' /\ MapsOK'
<1>0. RequestsOK /\ MapsOK
    BY TypeParts
<1>1. CASE Tick
  <2>1. ASSUME NEW g \in Handlers
        PROVE  /\ req'[g] \in Request
               /\ req'[g].at = req[g].at
               /\ req'[g].client = req[g].client
               /\ req'[g].cookie = req[g].cookie
    <3>1. req[g] \in Request
        BY <1>0 DEF RequestsOK
    <3>2. CASE g \in Timed
      <4>1. req[g].lag + 1 \in 0 .. MaxLag
          BY <1>1, <3>1, <3>2, LimitsAssumption DEF Tick, Request
      <4>2. req'[g] = [req[g] EXCEPT !.lag = req[g].lag + 1]
          BY <1>1, <3>2 DEF Tick
      <4> QED
          BY <3>1, <4>1, <4>2 DEF Request
    <3>3. CASE g \notin Timed
        BY <1>1, <3>1, <3>3 DEF Tick
    <3> QED
        BY <3>2, <3>3
  <2>2. req' = [g \in Handlers |-> req'[g]] /\ given' = given
      BY <1>1 DEF Tick
  <2>3. RequestsOK'
      BY <1>0, <2>1, <2>2 DEF RequestsOK
  <2>4. failures' \in [Clients -> Failure]
    <3>1. ASSUME NEW c \in Clients PROVE failures'[c] \in Failure
      <4>1. failures[c] \in Failure
          BY <1>0 DEF MapsOK
      <4>2. CASE failures[c].count > 0 /\ failures[c].age < Window + MaxLag
        <5>1. failures[c].age + 1 \in 0 .. Window + MaxLag
            BY <4>1, <4>2, LimitsAssumption DEF Failure
        <5>2. failures'[c] = [failures[c] EXCEPT !.age = failures[c].age + 1]
            BY <1>1, <4>2 DEF Tick
        <5> QED
            BY <4>1, <5>1, <5>2 DEF Failure
      <4>3. CASE ~(failures[c].count > 0 /\ failures[c].age < Window + MaxLag)
          BY <1>1, <4>1, <4>3 DEF Tick
      <4> QED
          BY <4>2, <4>3
    <3>2. failures' = [c \in Clients |-> failures'[c]]
        BY <1>1 DEF Tick
    <3> QED
        BY <3>1, <3>2
  <2>5. /\ DOMAIN sessions' = DOMAIN sessions
        /\ \A t \in DOMAIN sessions : sessions'[t] \in -MaxLag .. Lifetime
      BY <1>0, <1>1, LimitsAssumption DEF Tick, MapsOK
  <2> QED
      BY <1>0, <1>1, <2>3, <2>4, <2>5 DEF Tick, MapsOK
<1>2. CASE Forget
  <2>1. RequestsOK'
    <3>1. req' = [h \in Handlers |-> Idle] /\ Idle \in Request /\ Idle.at = "idle"
        BY <1>2, LimitsAssumption DEF Forget, Idle, Request, Places
    <3> QED
        BY <3>1 DEF RequestsOK
  <2>2. failures' \in [Clients -> Failure]
      BY <1>2, LimitsAssumption DEF Forget, NoFailures, Failure
  <2> QED
      BY <1>0, <1>2, <2>1, <2>2 DEF Forget, NoSessions, MapsOK
<1> QED
    BY <1>1, <1>2

\* Two sessions that are being created never draw the same token.
LEMMA ApartInductive == TypeOK /\ DrawnApart /\ [Next]_vars => DrawnApart'
<1> SUFFICES ASSUME TypeOK, DrawnApart, [Next]_vars PROVE DrawnApart'
    OBVIOUS
<1>0. req \in [Handlers -> Request]
    BY TypeParts DEF RequestsOK
<1>1. ASSUME NEW h \in Handlers, NEW r, req' = [req EXCEPT ![h] = r],
             r.at = "opening" => r.cookie \notin Drawn
      PROVE  DrawnApart'
  <2> SUFFICES ASSUME NEW f \in Handlers, NEW g \in Handlers, f # g,
                      req'[f].at = "opening", req'[g].at = "opening"
               PROVE  req'[f].cookie # req'[g].cookie
      BY DEF DrawnApart
  <2>1. \A k \in Handlers : k # h => req'[k] = req[k]
      BY <1>0, <1>1
  <2>2. req'[h] = r
      BY <1>0, <1>1
  <2>3. \A k \in Handlers : req[k].at = "opening" => req[k].cookie \in Drawn
      BY DEF Drawn
  <2> QED
      BY <1>1, <2>1, <2>2, <2>3 DEF DrawnApart
<1>2. ASSUME NEW h \in Handlers, Answers(h) PROVE DrawnApart'
    BY <1>1, <1>2 DEF Answers, Idle
<1>3. ASSUME NEW h \in Handlers, NEW place \in Places \ {"opening"}, Goes(h, place)
      PROVE  DrawnApart'
  <2>1. req' = [req EXCEPT ![h] = [req[h] EXCEPT !.at = place, !.lag = 0]]
      BY <1>3 DEF Goes
  <2>2. [req[h] EXCEPT !.at = place, !.lag = 0].at # "opening"
      BY <1>3, NextRequest
  <2> QED
      BY <1>1, <2>1, <2>2
<1>4. ASSUME NEW h \in Handlers, Arrive(h) PROVE DrawnApart'
  <2>1. ASSUME NEW c \in Clients, PostLogin(h, c) PROVE DrawnApart'
    <3>1. [Idle EXCEPT !.at = "asking", !.client = c].at # "opening"
        BY DEF Idle
    <3> QED
        BY <1>1, <2>1, <3>1 DEF PostLogin
  <2>2. ASSUME NEW t \in given, PostWithCookie(h, t) PROVE DrawnApart'
    <3>1. [at |-> "entering", client |-> None, cookie |-> t, lag |-> 0,
           late |-> t \in ended].at # "opening"
        OBVIOUS
    <3> QED
        BY <1>1, <2>2, <3>1 DEF PostWithCookie
  <2> QED
      BY <1>4, <2>1, <2>2 DEF Arrive
<1>5. ASSUME NEW h \in Handlers, DrawToken(h) PROVE DrawnApart'
  <2>1. ASSUME NEW t \in Tokens \ (given \union Drawn),
               req' = [req EXCEPT ![h] = [@ EXCEPT !.at = "opening", !.cookie = t]]
        PROVE  DrawnApart'
    <3>1. req' = [req EXCEPT ![h] = [req[h] EXCEPT !.at = "opening", !.cookie = t]]
        BY <2>1
    <3>2. [req[h] EXCEPT !.at = "opening", !.cookie = t].cookie = t
        BY <1>0 DEF Request
    <3> QED
        BY <1>1, <2>1, <3>1, <3>2
  <2> QED
      BY <1>2, <1>5, <2>1 DEF DrawToken
<1>6. ASSUME NEW h \in Handlers, Continue(h) PROVE DrawnApart'
    BY <1>2, <1>3, <1>5, <1>6
    DEF Continue, AskBlocked, WrongPassword, RecordLoginFailure, RightPassword,
        CreateSession, FindSession, ShowEditor, Finish, Logout, Places
<1>7. CASE Tick
  <2>1. \A g \in Handlers : req'[g].at = req[g].at /\ req'[g].cookie = req[g].cookie
      BY <1>0, <1>7 DEF Tick, Request
  <2> QED
      BY <2>1 DEF DrawnApart
<1>8. CASE Forget
    BY <1>8 DEF Forget, Idle, DrawnApart
<1>9. CASE UNCHANGED req
    BY <1>9 DEF DrawnApart
<1> QED
    BY <1>4, <1>6, <1>7, <1>8, <1>9 DEF Next, vars

\* The requests, the maps and the credentials keep their types.
LEMMA TypeInductive == TypeOK /\ DrawnApart /\ [Next]_vars => TypeOK'
<1> SUFFICES ASSUME TypeOK, DrawnApart, [Next]_vars PROVE TypeOK'
    OBVIOUS
<1>1. CredentialsTypeOK'
    BY CredentialsStep, CredentialsType DEF TypeOK
<1>2. RequestsOK' /\ MapsOK'
  <2>1. ASSUME NEW h \in Handlers, Arrive(h) \/ Continue(h) PROVE RequestsOK' /\ MapsOK'
      BY <2>1, HandlerType
  <2>2. CASE Tick \/ Forget
      BY <2>2, ServerType
  <2>3. CASE UNCHANGED <<req, failures, sessions, given, forms, ended>>
      BY <2>3, TypeParts DEF RequestsOK, MapsOK
  <2> QED
      BY <2>1, <2>2, <2>3 DEF Next, vars
<1> QED
    BY <1>1, <1>2, TypeParts DEF RequestsOK, MapsOK, TypeOK, Request, Failure

LEMMA InitType == Init => TypeOK /\ DrawnApart
    BY PasswordsAssumption, LimitsAssumption
    DEF Init, CredentialsInit, CredentialsTypeOK, TypeOK, DrawnApart, Idle, Places,
        NoFailures, NoSessions

\* Every variable keeps its type.
THEOREM TypeCorrect == Spec => []TypeOK
<1>1. TypeOK /\ DrawnApart /\ [Next]_vars => (TypeOK /\ DrawnApart)'
    BY TypeInductive, ApartInductive
<1> QED
    BY <1>1, InitType, PTL DEF Spec

\* A session that has ended has left the map or has no time left, and a request
\* that came too late either finds it gone or, with the time it has read, run out.
EndInv ==
    /\ \A t \in ended \cap DOMAIN sessions : sessions[t] <= 0
    /\ \A h \in Handlers :
        req[h].late /\ req[h].at = "entering" /\ req[h].cookie \in DOMAIN sessions =>
            sessions[req[h].cookie] + req[h].lag <= 0
    /\ EndedSessionsStayEnded

\* The end of a session is kept by every step.
LEMMA EndInductive == TypeOK /\ DrawnApart /\ EndInv /\ [Next]_vars => EndInv'
<1> SUFFICES ASSUME TypeOK, DrawnApart, EndInv, [Next]_vars PROVE EndInv'
    OBVIOUS
<1>0. /\ RequestsOK /\ MapsOK
      /\ \A h \in Handlers : req[h] \in Request /\ req[h].lag \in 0 .. MaxLag
    BY TypeParts DEF RequestsOK, Request
<1>1. ASSUME NEW h \in Handlers, Answers(h),
             \A t \in DOMAIN sessions' \cap given : t \in DOMAIN sessions /\ sessions'[t] = sessions[t],
             ended' \subseteq given,
             \A t \in ended' : t \in ended \/ t \notin DOMAIN sessions'
      PROVE  EndInv'
  <2>1. /\ req'[h].at = "idle"
        /\ \A g \in Handlers : g # h => req'[g] = req[g]
      BY <1>0, <1>1, NextRequest DEF Answers, RequestsOK
  <2>2. \A t \in ended' \cap DOMAIN sessions' : sessions'[t] <= 0
      BY <1>0, <1>1 DEF EndInv, MapsOK
  <2>3. ASSUME NEW g \in Handlers, req'[g].late, req'[g].at = "entering",
               req'[g].cookie \in DOMAIN sessions'
        PROVE  sessions'[req'[g].cookie] + req'[g].lag <= 0
    <3>1. g # h /\ req'[g] = req[g] /\ req[g].cookie \in given
        BY <1>0, <2>1, <2>3 DEF RequestsOK
    <3> QED
        BY <1>1, <2>3, <3>1 DEF EndInv
  <2>4. EndedSessionsStayEnded'
      BY <2>1 DEF EndInv, EndedSessionsStayEnded
  <2> QED
      BY <2>2, <2>3, <2>4 DEF EndInv
<1>2. ASSUME NEW h \in Handlers, NEW place \in Places \ {"entering", "granted"},
             Goes(h, place), UNCHANGED <<sessions, ended>>
      PROVE  EndInv'
  <2>1. /\ req'[h].at = place
        /\ \A g \in Handlers : g # h => req'[g] = req[g]
      BY <1>0, <1>2, NextRequest DEF Goes, RequestsOK
  <2> QED
      BY <1>2, <2>1 DEF EndInv, EndedSessionsStayEnded
<1>3. ASSUME NEW h \in Handlers, Arrive(h) PROVE EndInv'
  <2>1. ASSUME NEW c \in Clients, PostLogin(h, c) PROVE EndInv'
    <3>1. /\ req'[h].at = "asking"
          /\ \A g \in Handlers : g # h => req'[g] = req[g]
        BY <1>0, <2>1 DEF PostLogin, Idle, RequestsOK
    <3> QED
        BY <2>1, <3>1 DEF PostLogin, EndInv, EndedSessionsStayEnded
  <2>2. ASSUME NEW t \in given, PostWithCookie(h, t) PROVE EndInv'
    <3>1. /\ req'[h].at = "entering" /\ req'[h].cookie = t /\ req'[h].lag = 0
          /\ req'[h].late <=> t \in ended
          /\ \A g \in Handlers : g # h => req'[g] = req[g]
        BY <1>0, <2>2 DEF PostWithCookie, Idle, RequestsOK
    <3>2. t \in DOMAIN sessions => sessions[t] \in Int
        BY <1>0, LimitsAssumption DEF MapsOK
    <3> QED
        BY <2>2, <3>1, <3>2 DEF PostWithCookie, EndInv, EndedSessionsStayEnded
  <2> QED
      BY <1>3, <2>1, <2>2 DEF Arrive
<1>4. ASSUME NEW h \in Handlers, DrawToken(h) PROVE EndInv'
  <2>1. ASSUME NEW t \in Tokens,
               req' = [req EXCEPT ![h] = [@ EXCEPT !.at = "opening", !.cookie = t]]
        PROVE  EndInv'
    <3>1. /\ req'[h].at = "opening"
          /\ \A g \in Handlers : g # h => req'[g] = req[g]
        BY <1>0, <2>1 DEF RequestsOK, Request
    <3> QED
        BY <1>4, <3>1 DEF DrawToken, EndInv, EndedSessionsStayEnded
  <2>2. CASE Answers(h)
      BY <1>0, <1>1, <1>4, <2>2 DEF DrawToken, MapsOK
  <2> QED
      BY <1>4, <2>1, <2>2 DEF DrawToken
<1>5. ASSUME NEW h \in Handlers, CreateSession(h) PROVE EndInv'
  <2>1. PICK kept : /\ kept = KeptSessions(req[h].lag)
                    /\ DOMAIN kept \subseteq DOMAIN sessions
                    /\ \A t \in DOMAIN kept : kept[t] = sessions[t]
      BY <1>0, PruneType
  <2>2. /\ DOMAIN sessions' = DOMAIN kept \union {req[h].cookie}
        /\ \A t \in DOMAIN kept : t # req[h].cookie => sessions'[t] = kept[t]
        /\ req[h].cookie \notin given
        /\ ended' = ended
      BY <1>0, <1>5, <2>1 DEF CreateSession, RequestsOK
  <2> QED
      BY <1>0, <1>1, <1>5, <2>1, <2>2 DEF CreateSession, MapsOK
<1>6. ASSUME NEW h \in Handlers, FindSession(h) PROVE EndInv'
  <2>1. /\ DOMAIN sessions' \subseteq DOMAIN sessions
        /\ \A t \in DOMAIN sessions' :
             sessions'[t] = sessions[t] /\ sessions[t] + req[h].lag > 0
        /\ ended' = ended
      BY <1>0, <1>6, PruneType DEF FindSession
  <2>2. CASE Answers(h)
      BY <1>0, <1>1, <2>1, <2>2 DEF MapsOK
  <2>3. CASE req[h].cookie \in DOMAIN sessions' /\ Goes(h, "granted")
    <3>1. /\ req'[h].at = "granted" /\ req'[h].late = req[h].late
          /\ \A g \in Handlers : g # h => req'[g] = req[g]
        BY <1>0, <2>3, NextRequest DEF Goes, RequestsOK, Places
    <3>2. sessions[req[h].cookie] \in Int /\ req[h].lag \in Int
        BY <1>0, <2>1, <2>3, LimitsAssumption DEF MapsOK
    <3>3. ~req[h].late
        BY <1>6, <2>1, <2>3, <3>2 DEF FindSession, EndInv
    <3> QED
        BY <2>1, <3>1, <3>3 DEF EndInv, EndedSessionsStayEnded
  <2> QED
      BY <1>6, <2>2, <2>3 DEF FindSession
<1>7. ASSUME NEW h \in Handlers, Logout(h) PROVE EndInv'
  <2>1. req[h].cookie \in given
      BY <1>0, <1>7 DEF Logout, RequestsOK
  <2>2. /\ DOMAIN sessions' \subseteq DOMAIN sessions \ {req[h].cookie}
        /\ \A t \in DOMAIN sessions' : sessions'[t] = sessions[t]
      BY <1>7 DEF Logout, Restrict
  <2> QED
      BY <1>0, <1>1, <1>7, <2>1, <2>2 DEF Logout, MapsOK
<1>8. ASSUME NEW h \in Handlers, Continue(h) PROVE EndInv'
  <2>1. \A t \in DOMAIN sessions : t \in ended => t \in given
      BY <1>0 DEF MapsOK
  <2> QED
      BY <1>0, <1>1, <1>2, <1>4, <1>5, <1>6, <1>7, <1>8
      DEF Continue, AskBlocked, WrongPassword, RecordLoginFailure, RightPassword,
          ShowEditor, Finish, Places, MapsOK
<1>9. CASE Tick
  <2>1. \A t \in DOMAIN sessions : sessions[t] \in -MaxLag .. Lifetime
      BY <1>0 DEF MapsOK
  <2>2. /\ DOMAIN sessions' = DOMAIN sessions
        /\ \A t \in DOMAIN sessions : sessions[t] <= 1 => sessions'[t] <= 0
        /\ \A t \in DOMAIN sessions : sessions'[t] <= sessions[t]
      BY <1>9, <2>1, LimitsAssumption DEF Tick
  <2>3. \A t \in ended' \cap DOMAIN sessions' : sessions'[t] <= 0
      BY <1>9, <2>1, <2>2, LimitsAssumption DEF Tick, EndInv
  <2>4. ASSUME NEW g \in Handlers
        PROVE  /\ req'[g].at = req[g].at /\ req'[g].late = req[g].late
               /\ req'[g].cookie = req[g].cookie
               /\ req[g].at = "entering" => req'[g].lag = req[g].lag + 1 /\ req[g].lag < MaxLag
      BY <1>0, <1>9 DEF Tick, Timed, Request
  <2>5. ASSUME NEW g \in Handlers, req'[g].late, req'[g].at = "entering",
               req'[g].cookie \in DOMAIN sessions'
        PROVE  sessions'[req'[g].cookie] + req'[g].lag <= 0
    <3>1. PICK t \in DOMAIN sessions : t = req[g].cookie /\ t = req'[g].cookie
        BY <2>2, <2>4, <2>5
    <3>2. sessions[t] + req[g].lag <= 0 /\ req'[g].lag = req[g].lag + 1 /\ req[g].lag < MaxLag
        BY <2>4, <2>5, <3>1 DEF EndInv
    <3>3. sessions[t] \in Int /\ req[g].lag \in Int /\ sessions[t] >= -MaxLag
        BY <1>0, <2>1, LimitsAssumption
    <3>4. sessions'[t] = IF sessions[t] > -MaxLag THEN sessions[t] - 1 ELSE sessions[t]
        BY <1>9 DEF Tick
    <3> QED
        BY <3>1, <3>2, <3>3, <3>4, LimitsAssumption
  <2>6. EndedSessionsStayEnded'
      BY <2>4 DEF EndInv, EndedSessionsStayEnded
  <2> QED
      BY <2>3, <2>5, <2>6 DEF EndInv
<1>10. CASE Forget
    BY <1>10 DEF Forget, NoSessions, Idle, EndInv, EndedSessionsStayEnded
<1>11. CASE UNCHANGED <<req, failures, sessions, given, forms, ended>>
    BY <1>11 DEF EndInv, EndedSessionsStayEnded
<1> QED
    BY <1>3, <1>8, <1>9, <1>10, <1>11 DEF Next, vars

\* A request that arrives after its session has ended is not let in.
THEOREM EndedStayEnded == Spec => []EndedSessionsStayEnded
<1>1. Init => EndInv
    BY DEF Init, NoSessions, Idle, EndInv, EndedSessionsStayEnded
<1>2. TypeOK /\ DrawnApart /\ EndInv /\ [Next]_vars => (TypeOK /\ DrawnApart /\ EndInv)'
    BY TypeInductive, ApartInductive, EndInductive
<1>3. EndInv => EndedSessionsStayEnded
    BY DEF EndInv
<1> QED
    BY <1>1, <1>2, <1>3, InitType, PTL DEF Spec

\* The attempts whose failure would still be counted in the window of an address.
Counting(c) ==
    {h \in Handlers :
        /\ req[h].client = c
        /\ \/ req[h].at = "checking" /\ Running(failures[c], 0)
           \/ req[h].at = "failing" /\ Running(failures[c], req[h].lag)}

\* An open window has room for what these attempts may still add.
CountInv ==
    \A c \in Clients : failures[c].count > 0 =>
        failures[c].count + Cardinality(Counting(c)) < MaxFailures + Cardinality(Handlers)

LEMMA CountingFinite ==
    ASSUME NEW S \in SUBSET Handlers
    PROVE  /\ IsFiniteSet(S)
           /\ Cardinality(S) \in Nat
           /\ Cardinality(Handlers) \in Nat
           /\ Cardinality(S) <= Cardinality(Handlers)
    BY HandlersAssumption, FS_Subset, FS_CardinalityType

\* A window that is left as it is keeps its room, when no attempt is added.
LEMMA FewerKeepRoom ==
    ASSUME NEW c \in Clients, TypeOK, CountInv, TypeOK',
           failures'[c].count > 0 => failures[c].count = failures'[c].count,
           failures'[c].count > 0 => Counting(c)' \subseteq Counting(c)
    PROVE  failures'[c].count > 0 =>
             failures'[c].count + Cardinality(Counting(c)') < MaxFailures + Cardinality(Handlers)
<1>1. Counting(c) \in SUBSET Handlers /\ Counting(c)' \in SUBSET Handlers
    BY DEF Counting
<1>2. IsFiniteSet(Counting(c))
    BY <1>1, CountingFinite
<1>3. Counting(c)' \subseteq Counting(c) => Cardinality(Counting(c)') <= Cardinality(Counting(c))
    BY <1>2, FS_Subset
<1>4. failures[c].count \in Nat /\ failures'[c].count \in Nat
    BY DEF TypeOK
<1>5. Cardinality(Counting(c)) \in Nat /\ Cardinality(Counting(c)') \in Nat
      /\ Cardinality(Handlers) \in Nat
    BY <1>1, CountingFinite
<1>6. PICK k, n, m \in Nat : /\ k = Cardinality(Counting(c)) /\ n = Cardinality(Counting(c)')
                             /\ m = Cardinality(Handlers)
    BY <1>5
<1> QED
    BY <1>3, <1>4, <1>6, LimitsAssumption DEF CountInv

\* No attempt is added when a handler stops being one and windows are kept or closed.
LEMMA LeavingKeepsRoom ==
    ASSUME TypeOK, TypeOK', CountInv, NEW h \in Handlers,
           req'[h].at \notin {"checking", "failing"},
           \A g \in Handlers : g # h => req'[g] = req[g],
           \A c \in Clients : failures'[c].count > 0 => failures'[c] = failures[c]
    PROVE  CountInv'
<1> SUFFICES ASSUME NEW c \in Clients
             PROVE  failures'[c].count > 0 => failures'[c].count + Cardinality(Counting(c)')
                                                < MaxFailures + Cardinality(Handlers)
    BY DEF CountInv
<1>1. failures'[c].count > 0 => Counting(c)' \subseteq Counting(c)
    BY DEF Counting, Running
<1> QED
    BY <1>1, FewerKeepRoom

\* Every step leaves an open window room for the attempts that may count in it.
LEMMA CountInductive == TypeOK /\ TypeOK' /\ CountInv /\ [Next]_vars => CountInv'
<1> SUFFICES ASSUME TypeOK, TypeOK', CountInv, [Next]_vars PROVE CountInv'
    OBVIOUS
<1>0. /\ RequestsOK /\ MapsOK
      /\ \A h \in Handlers : req[h] \in Request /\ req[h].lag \in 0 .. MaxLag
      /\ \A c \in Clients : failures[c].count \in Nat /\ failures[c].age \in Nat
    BY TypeParts, LimitsAssumption DEF RequestsOK, Request, MapsOK, Failure
<1>1. ASSUME NEW h \in Handlers, Answers(h),
             \A c \in Clients : failures'[c].count > 0 => failures'[c] = failures[c]
      PROVE  CountInv'
  <2>1. /\ req'[h].at = "idle"
        /\ \A g \in Handlers : g # h => req'[g] = req[g]
      BY <1>0, <1>1, NextRequest DEF Answers, RequestsOK
  <2> QED
      BY <1>1, <2>1, LeavingKeepsRoom
<1>2. ASSUME NEW h \in Handlers, NEW place \in Places \ {"checking", "failing"}, Goes(h, place),
             \A c \in Clients : failures'[c].count > 0 => failures'[c] = failures[c]
      PROVE  CountInv'
  <2>1. /\ req'[h].at = place
        /\ \A g \in Handlers : g # h => req'[g] = req[g]
      BY <1>0, <1>2, NextRequest DEF Goes, RequestsOK
  <2> QED
      BY <1>2, <2>1, LeavingKeepsRoom
<1>3. ASSUME NEW h \in Handlers, Arrive(h) PROVE CountInv'
  <2>1. /\ req'[h].at \in {"asking", "entering"}
        /\ \A g \in Handlers : g # h => req'[g] = req[g]
        /\ failures' = failures
    <3>1. PICK r : req' = [req EXCEPT ![h] = r] /\ r.at \in {"asking", "entering"}
      <4>1. ASSUME NEW c \in Clients, PostLogin(h, c)
            PROVE  \E r : req' = [req EXCEPT ![h] = r] /\ r.at \in {"asking", "entering"}
        <5>1. [Idle EXCEPT !.at = "asking", !.client = c].at = "asking"
            BY DEF Idle
        <5> QED
            BY <4>1, <5>1 DEF PostLogin
      <4>2. ASSUME NEW t \in given, PostWithCookie(h, t)
            PROVE  \E r : req' = [req EXCEPT ![h] = r] /\ r.at \in {"asking", "entering"}
        <5>1. [at |-> "entering", client |-> None, cookie |-> t, lag |-> 0,
               late |-> t \in ended].at = "entering"
            OBVIOUS
        <5> QED
            BY <4>2, <5>1 DEF PostWithCookie
      <4> QED
        BY <1>3, <4>1, <4>2 DEF Arrive
    <3>2. failures' = failures
        BY <1>3 DEF Arrive, PostLogin, PostWithCookie
    <3> QED
        BY <1>0, <3>1, <3>2 DEF RequestsOK
  <2> QED
      BY <2>1, LeavingKeepsRoom
<1>4. ASSUME NEW h \in Handlers, AskBlocked(h) PROVE CountInv'
  <2>1. CASE Answers(h)
      BY <1>1, <1>4, <2>1 DEF AskBlocked
  <2>2. CASE Goes(h, "checking") /\ ~Blocked(req[h].client, req[h].lag)
    <3>1. /\ req'[h].at = "checking" /\ req'[h].client = req[h].client
          /\ \A g \in Handlers : g # h => req'[g] = req[g]
          /\ failures' = failures
        BY <1>0, <1>4, <2>2, NextRequest DEF AskBlocked, Goes, RequestsOK, Places
    <3>2. ASSUME NEW c \in Clients
          PROVE  failures'[c].count > 0 => failures'[c].count + Cardinality(Counting(c)')
                                             < MaxFailures + Cardinality(Handlers)
      <4>1. CASE h \notin Counting(c)'
        <5>1. Counting(c)' \subseteq Counting(c)
            BY <3>1, <4>1 DEF Counting
        <5> QED
            BY <3>1, <5>1, FewerKeepRoom
      <4>2. CASE h \in Counting(c)'
        <5>1. c = req[h].client /\ Running(failures[c], 0)
            BY <3>1, <4>2 DEF Counting
        <5>2. Running(failures[c], req[h].lag)
            BY <1>0, <5>1, LimitsAssumption DEF Running
        <5>3. failures[c].count < MaxFailures
            BY <1>0, <2>2, <5>1, <5>2, LimitsAssumption DEF Blocked
        <5>4. PICK n, m \in Nat : /\ n = Cardinality(Counting(c)') /\ m = Cardinality(Handlers)
                                  /\ n <= m
          <6>1. Counting(c)' \in SUBSET Handlers
              BY DEF Counting
          <6> QED
              BY <6>1, CountingFinite
        <5> QED
            BY <1>0, <3>1, <5>3, <5>4, LimitsAssumption
      <4> QED
        BY <4>1, <4>2
    <3> QED
      BY <3>2 DEF CountInv
  <2> QED
      BY <1>4, <2>1, <2>2 DEF AskBlocked
<1>5. ASSUME NEW h \in Handlers, WrongPassword(h) PROVE CountInv'
  <2>1. /\ req'[h].at = "failing" /\ req'[h].client = req[h].client /\ req'[h].lag = 0
        /\ req[h].at = "checking"
        /\ \A g \in Handlers : g # h => req'[g] = req[g]
        /\ failures' = failures
      BY <1>0, <1>5, NextRequest DEF WrongPassword, Goes, RequestsOK, Places
  <2>2. \A c \in Clients : Counting(c)' \subseteq Counting(c)
      BY <2>1 DEF Counting
  <2> QED
      BY <2>1, <2>2, FewerKeepRoom DEF CountInv
<1>6. ASSUME NEW h \in Handlers, RecordLoginFailure(h) PROVE CountInv'
  <2>1. /\ req'[h].at = "idle"
        /\ req[h].at = "failing"
        /\ \A g \in Handlers : g # h => req'[g] = req[g]
        /\ req[h].client \in Clients
      BY <1>0, <1>6, NextRequest DEF RecordLoginFailure, Answers, RequestsOK
  <2>2. ASSUME NEW c \in Clients, c # req[h].client
        PROVE  failures'[c].count > 0 => failures'[c].count + Cardinality(Counting(c)')
                                           < MaxFailures + Cardinality(Handlers)
    <3>1. failures'[c] = failures[c]
        BY <1>0, <1>6, <2>1, <2>2 DEF RecordLoginFailure, MapsOK
    <3>2. Counting(c)' \subseteq Counting(c)
        BY <2>1, <3>1 DEF Counting
    <3> QED
        BY <3>1, <3>2, FewerKeepRoom
  <2>3. ASSUME NEW c \in Clients, c = req[h].client
        PROVE  failures'[c].count > 0 => failures'[c].count + Cardinality(Counting(c)')
                                           < MaxFailures + Cardinality(Handlers)
    <3>1. Counting(c) \in SUBSET Handlers /\ Counting(c)' \in SUBSET Handlers
        BY DEF Counting
    <3>2. PICK k, n, m \in Nat : /\ k = Cardinality(Counting(c)) /\ n = Cardinality(Counting(c)')
                                 /\ m = Cardinality(Handlers)
        BY <3>1, CountingFinite
    <3>3. CASE failures[c].count > 0 /\ Running(failures[c], req[h].lag)
      <4>1. failures'[c] = [count |-> failures[c].count + 1, age |-> failures[c].age]
          BY <1>0, <1>6, <2>3, <3>3 DEF RecordLoginFailure, MapsOK
      <4>2. h \in Counting(c)
          BY <2>1, <2>3, <3>3 DEF Counting
      <4>3. Counting(c)' \subseteq Counting(c) \ {h}
          BY <2>1, <4>1 DEF Counting, Running
      <4>4. n <= k - 1
        <5>1. IsFiniteSet(Counting(c))
            BY <3>1, CountingFinite
        <5>2. Cardinality(Counting(c) \ {h}) = k - 1 /\ IsFiniteSet(Counting(c) \ {h})
            BY <3>2, <4>2, <5>1, FS_RemoveElement
        <5> QED
            BY <3>2, <4>3, <5>2, FS_Subset
      <4>5. failures[c].count + k < MaxFailures + m
          BY <3>2, <3>3 DEF CountInv
      <4> QED
          BY <1>0, <3>2, <4>1, <4>4, <4>5, LimitsAssumption
    <3>4. CASE ~(failures[c].count > 0 /\ Running(failures[c], req[h].lag))
      <4>1. failures'[c].count = 1
          BY <1>0, <1>6, <2>3, <3>4 DEF RecordLoginFailure, MapsOK
      <4>2. Counting(c)' \subseteq Handlers \ {h}
          BY <2>1 DEF Counting
      <4>3. n <= m - 1
        <5>1. Cardinality(Handlers \ {h}) = m - 1 /\ IsFiniteSet(Handlers \ {h})
            BY <3>2, HandlersAssumption, FS_RemoveElement
        <5> QED
            BY <3>2, <4>2, <5>1, FS_Subset
      <4> QED
          BY <3>2, <4>1, <4>3, LimitsAssumption
    <3> QED
      BY <3>3, <3>4
  <2> QED
    BY <2>2, <2>3 DEF CountInv
<1>7. ASSUME NEW h \in Handlers, RightPassword(h) PROVE CountInv'
  <2>1. req[h].client \in Clients /\ "cleared" \in Places
      BY <1>0, <1>7 DEF RightPassword, RequestsOK, Places
  <2>2. \A c \in Clients : failures'[c].count > 0 => failures'[c] = failures[c]
      BY <1>0, <1>7, <2>1 DEF RightPassword, NoFailures, MapsOK
  <2> QED
      BY <1>2, <1>7, <2>1, <2>2 DEF RightPassword
<1>8. ASSUME NEW h \in Handlers, DrawToken(h) PROVE CountInv'
  <2>1. ASSUME NEW t \in Tokens,
               req' = [req EXCEPT ![h] = [@ EXCEPT !.at = "opening", !.cookie = t]]
        PROVE  CountInv'
    <3>1. /\ req'[h].at = "opening"
          /\ \A g \in Handlers : g # h => req'[g] = req[g]
        BY <1>0, <2>1 DEF RequestsOK, Request
    <3> QED
        BY <1>8, <3>1, LeavingKeepsRoom DEF DrawToken
  <2> QED
      BY <1>1, <1>8, <2>1 DEF DrawToken
<1>9. ASSUME NEW d \in 0 .. MaxLag, failures' = KeptFailures(d)
      PROVE  \A c \in Clients : failures'[c].count > 0 => failures'[c] = failures[c]
    BY <1>0, <1>9 DEF KeptFailures, NoFailures
<1>10. ASSUME NEW h \in Handlers, Continue(h) PROVE CountInv'
  <2>1. CASE CreateSession(h) \/ FindSession(h)
    <3>1. failures' = KeptFailures(req[h].lag) /\ "granted" \in Places
        BY <2>1 DEF CreateSession, FindSession, Places
    <3> QED
        BY <1>0, <1>1, <1>2, <1>9, <2>1, <3>1 DEF CreateSession, FindSession
  <2>2. CASE ShowEditor(h) \/ Finish(h) \/ Logout(h)
      BY <1>1, <2>2 DEF ShowEditor, Finish, Logout
  <2> QED
      BY <1>4, <1>5, <1>6, <1>7, <1>8, <1>10, <2>1, <2>2 DEF Continue
<1>11. CASE Tick
  <2> SUFFICES ASSUME NEW c \in Clients
               PROVE  failures'[c].count > 0 => failures'[c].count + Cardinality(Counting(c)')
                                                  < MaxFailures + Cardinality(Handlers)
      BY DEF CountInv
  <2>1. ASSUME NEW g \in Handlers
        PROVE  /\ req'[g].at = req[g].at /\ req'[g].client = req[g].client
               /\ req[g].at = "failing" =>
                    req'[g].lag = req[g].lag + 1 /\ req[g].lag < MaxLag
      BY <1>0, <1>11 DEF Tick, Timed, Request
  <2>2. /\ failures'[c].count = failures[c].count
        /\ failures[c].count > 0 /\ failures[c].age < Window + MaxLag =>
             failures'[c].age = failures[c].age + 1
        /\ failures[c].count > 0 /\ ~(failures[c].age < Window + MaxLag) =>
             failures'[c].age = failures[c].age
    <3>1. failures[c] \in Failure
        BY <1>0 DEF MapsOK
    <3>2. failures'[c] = IF failures[c].count > 0 /\ failures[c].age < Window + MaxLag
                         THEN [failures[c] EXCEPT !.age = failures[c].age + 1] ELSE failures[c]
        BY <1>11 DEF Tick
    <3> QED
        BY <3>1, <3>2 DEF Failure
  <2>3. failures'[c].count > 0 => Counting(c)' \subseteq Counting(c)
    <3> SUFFICES ASSUME failures'[c].count > 0, NEW g \in Counting(c)' PROVE g \in Counting(c)
        OBVIOUS
    <3>1. g \in Handlers /\ req[g].client = c /\ failures[c].count > 0
        BY <2>1, <2>2 DEF Counting
    <3>2. CASE req'[g].at = "checking" /\ Running(failures'[c], 0)
        BY <1>0, <2>1, <2>2, <3>1, <3>2, LimitsAssumption DEF Counting, Running
    <3>3. CASE req'[g].at = "failing" /\ Running(failures'[c], req'[g].lag)
        BY <1>0, <2>1, <2>2, <3>1, <3>3, LimitsAssumption DEF Counting, Running
    <3> QED
        BY <3>2, <3>3 DEF Counting
  <2> QED
      BY <2>2, <2>3, FewerKeepRoom
<1>12. CASE Forget
    BY <1>12 DEF Forget, NoFailures, CountInv
<1>13. CASE UNCHANGED <<req, failures, sessions, given, forms, ended>>
    BY <1>13 DEF CountInv, Counting
<1> QED
    BY <1>3, <1>10, <1>11, <1>12, <1>13 DEF Next, vars

\* However attempts overlap, the failures counted for an address stay below the
\* limit plus the number of attempts that can be in flight.
THEOREM FailuresBounded == Spec => []FailuresAreBounded
<1>1. Init => CountInv
    BY DEF Init, NoFailures, CountInv
<1>2. /\ TypeOK /\ DrawnApart /\ CountInv /\ [Next]_vars => (TypeOK /\ DrawnApart)'
      /\ TypeOK /\ TypeOK' /\ CountInv /\ [Next]_vars => CountInv'
    BY TypeInductive, ApartInductive, CountInductive
<1>3. TypeOK /\ CountInv => FailuresAreBounded
  <2> SUFFICES ASSUME TypeOK, CountInv, NEW c \in Clients
               PROVE  failures[c].count < MaxFailures + Cardinality(Handlers)
      BY DEF FailuresAreBounded
  <2>1. PICK n, m \in Nat : n = Cardinality(Counting(c)) /\ m = Cardinality(Handlers)
    <3>1. Counting(c) \in SUBSET Handlers
        BY DEF Counting
    <3> QED
        BY <3>1, CountingFinite
  <2>2. failures[c].count \in Nat
      BY DEF TypeOK
  <2>3. failures[c].count > 0 => failures[c].count + n < MaxFailures + m
      BY <2>1 DEF CountInv
  <2> QED
      BY <2>1, <2>2, <2>3, LimitsAssumption
<1> QED
    BY <1>1, <1>2, <1>3, InitType, PTL DEF Spec
=============================================================================
