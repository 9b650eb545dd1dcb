------------------------------- MODULE Server -------------------------------
(***************************************************************************)
(* The server from start to start, and one browser with several requests   *)
(* at a time: login, pages, logout.  Each request runs inside LoadAndSave  *)
(* of the session library: the row of its cookie is read when it arrives,  *)
(* and written back when it is answered (IdleTimeout is set), with other   *)
(* requests in between.  Rows are in SQLite and outlive the server.        *)
(*                                                                         *)
(* Time is counted down in the rows: what is left until the deadline       *)
(* (Lifetime, 30 days) and until the expiry (IdleTimeout, 12 hours).       *)
(* Answers reach the browser in the order they are written.                *)
(***************************************************************************)
EXTENDS AdminBootstrap

CONSTANTS Requests,     \* places for requests
          NoRequest,    \* a free one
          Lifetime,     \* sm.Lifetime, in ticks
          IdleTimeout,  \* sm.IdleTimeout, in ticks
          MaxLogins,    \* bound: successful logins
          UsedConfigs   \* bound: environments of servers the browser is used with

Tokens == 1..MaxLogins

\* A row of the table sessions; expiry 0 is a row that Find does not return.
Row == [admin : Nat, deadline : 0..Lifetime, expiry : 0..IdleTimeout]
Absent == [admin |-> 0, deadline |-> 0, expiry |-> 0]

\* What LoadAndSave puts in the context of a request; without a session, New.
Data == [token : {0} \cup Tokens, admin : Nat, deadline : 0..Lifetime]
New == [token |-> 0, admin |-> 0, deadline |-> 0]

ASSUME ServerAssumption ==
  /\ MaxLogins \in Nat
  /\ UsedConfigs \subseteq Config
  /\ Lifetime \in Nat /\ IdleTimeout \in 1..Lifetime
  /\ NoRequest \notin [kind : {"page", "login", "logout"}, data : Data]

VARIABLES sessions,  \* the store: the row of each token
          issued,    \* tokens given out so far
          cookie,    \* the token in the browser, 0 for none
          requests,  \* the requests in progress
          history    \* of each token: age, ticks without an answer, logged out?

sessionVars == <<sessions, issued, cookie, requests, history>>
vars == <<adminVars, sessionVars>>

Init ==
  /\ AdminInit
  /\ sessions = [t \in Tokens |-> Absent]
  /\ issued = 0
  /\ cookie = 0
  /\ requests = [r \in Requests |-> NoRequest]
  /\ history = [t \in Tokens |-> [age |-> Lifetime, quiet |-> IdleTimeout, out |-> "no"]]

-----------------------------------------------------------------------------
(* The session library.                                                    *)

Valid(t) == t # 0 /\ sessions[t].expiry > 0

Find(t) ==
  IF Valid(t) THEN [token |-> t, admin |-> sessions[t].admin,
                    deadline |-> sessions[t].deadline]
  ELSE New

Smaller(a, b) == IF a <= b THEN a ELSE b

\* Mutant of Committed: every answer starts the life of the session anew.
CommittedAnew(data) ==
  [admin |-> data.admin, deadline |-> Lifetime, expiry |-> IdleTimeout]

\* Commit: the row is replaced by what the request has in its context.
Committed(data) ==
  LET row == [admin |-> data.admin, deadline |-> data.deadline,
              expiry |-> Smaller(IdleTimeout, data.deadline)]
  IN  IF row.expiry = 0 THEN Absent ELSE row

Finished(r) == requests' = [requests EXCEPT ![r] = NoRequest]

-----------------------------------------------------------------------------
(* Requests.                                                               *)

\* LoadAndSave, then RedirectIfAuthed: a login form of somebody logged in is a
\* page.  A page without a session is a redirect (RequireAdmin, Home) and
\* leaves everything as it is.
Arrive(r, kind) ==
  LET data == Find(cookie)
  IN  /\ server = "serving" /\ config \in UsedConfigs
      /\ requests[r] = NoRequest
      /\ kind = "page" => data.admin # 0
      /\ kind = "login" => data.admin = 0
      /\ requests' = [requests EXCEPT ![r] = [kind |-> kind, data |-> data]]
      /\ UNCHANGED <<adminVars, sessions, issued, cookie, history>>

\* LoginPost: RenewToken and Put, and the commit with the answer.
LoginPost(r, pin) ==
  /\ requests[r] # NoRequest /\ requests[r].kind = "login"
  /\ issued < MaxLogins
  /\ VerifyPIN(pin) # 0
  /\ LET data == [token |-> issued + 1, admin |-> VerifyPIN(pin), deadline |-> Lifetime]
     IN  /\ issued' = data.token
         /\ sessions' = [sessions EXCEPT ![data.token] = Committed(data)]
         /\ cookie' = data.token
         /\ history' = [history EXCEPT ![data.token] = [age |-> 0, quiet |-> 0, out |-> "no"]]
  /\ Finished(r)
  /\ UNCHANGED adminVars

\* Mutant of Save: nothing was Put, so nothing is written.
SaveNothing(r) ==
  /\ cookie' = requests[r].data.token
  /\ history' = [history EXCEPT ![requests[r].data.token].quiet = 0]
  /\ Finished(r)
  /\ UNCHANGED <<adminVars, sessions, issued>>

\* The commit of a request that has a session, and its cookie.
Save(r) ==
  LET data == requests[r].data
  IN  /\ sessions' = [sessions EXCEPT ![data.token] = Committed(data)]
      /\ cookie' = data.token
      /\ history' = [history EXCEPT ![data.token].quiet = 0]
      /\ Finished(r)
      /\ UNCHANGED <<adminVars, issued>>

\* A page is answered.
AnswerPage(r) ==
  /\ requests[r] # NoRequest /\ requests[r].kind = "page"
  /\ Save(r)

\* Mutant of LogoutPost: the row stays, the cookie alone is cleared.
LogoutPostKeepsRow(r) ==
  /\ requests[r] # NoRequest /\ requests[r].kind = "logout"
  /\ cookie' = 0
  /\ history' = IF requests[r].data.token = 0 THEN history
                ELSE [history EXCEPT ![requests[r].data.token].out = "alone"]
  /\ Finished(r)
  /\ UNCHANGED <<adminVars, sessions, issued>>

\* Destroy: the row is deleted, and the cookie with the answer.
LogoutPost(r) ==
  LET t == requests[r].data.token
      others == {q \in Requests \ {r} : /\ requests[q] # NoRequest
                                        /\ requests[q].data.token = t}
  IN  /\ requests[r] # NoRequest /\ requests[r].kind = "logout"
      /\ IF t = 0 THEN UNCHANGED <<sessions, history>>
         ELSE /\ sessions' = [sessions EXCEPT ![t] = Absent]
              /\ history' = [history EXCEPT ![t].out =
                               IF others = {} /\ @ # "overlapped" THEN "alone" ELSE "overlapped"]
      /\ cookie' = 0
      /\ Finished(r)
      /\ UNCHANGED <<adminVars, issued>>

\* Destroy fails: it is logged, and the session is saved as for any page.
LogoutFails(r) ==
  /\ requests[r] # NoRequest /\ requests[r].kind = "logout"
  /\ requests[r].data.token # 0
  /\ Save(r)

\* A wrong PIN, a handler that panics, or a commit that fails: nothing is
\* written.
NotSaved(r) ==
  /\ requests[r] # NoRequest
  /\ Finished(r)
  /\ UNCHANGED <<adminVars, sessions, issued, cookie, history>>

-----------------------------------------------------------------------------

\* Bootstrap at the start of the server, next to the rows of the store.
Starting ==
  /\ AdminNext
  /\ server' # "down"
  /\ UNCHANGED sessionVars

\* The server stops; what it is still working on after ten seconds is lost.
Stopping ==
  /\ Stop
  /\ requests' = [r \in Requests |-> NoRequest]
  /\ UNCHANGED <<sessions, issued, cookie, history>>

\* Time passes, whether the server runs or not; rows that expire are found no
\* longer, and deleted some minutes later.
Tick ==
  /\ sessions' = [t \in Tokens |->
       IF sessions[t].expiry <= 1 THEN Absent
       ELSE [sessions[t] EXCEPT !.deadline = @ - 1, !.expiry = @ - 1]]
  /\ requests' = [r \in Requests |->
       IF requests[r] = NoRequest \/ requests[r].data.deadline = 0 THEN requests[r]
       ELSE [requests[r] EXCEPT !.data.deadline = @ - 1]]
  /\ history' = [t \in Tokens |->
       [history[t] EXCEPT !.age = Smaller(@ + 1, Lifetime),
                          !.quiet = Smaller(@ + 1, IdleTimeout)]]
  /\ UNCHANGED <<adminVars, issued, cookie>>

Next ==
  \/ Starting
  \/ Stopping
  \/ Tick
  \/ \E r \in Requests :
       \/ \E kind \in {"page", "login", "logout"} : Arrive(r, kind)
       \/ \E pin \in Pins \cup {BadPin} : LoginPost(r, pin)
       \/ AnswerPage(r)
       \/ LogoutPost(r)
       \/ LogoutFails(r)
       \/ NotSaved(r)

Spec == Init /\ [][Next]_vars

-----------------------------------------------------------------------------
(* Properties.                                                             *)

\* Types; a session, in the store or in a request, is one of an administrator
\* who is there (created_by of a ledger row refers to it).
TypeOK ==
  /\ AdminTypeOK
  /\ sessions \in [Tokens -> Row]
  /\ requests \in [Requests -> {NoRequest} \cup [kind : {"page", "login", "logout"}, data : Data]]
  /\ issued \in 0..MaxLogins
  /\ cookie \in 0..issued
  /\ \A t \in Tokens : Valid(t) => t <= issued /\ sessions[t].admin \in DOMAIN admins
  /\ \A r \in Requests :
       requests[r] # NoRequest => requests[r].data.admin \in {0} \cup DOMAIN admins

\* A session ends after Lifetime at the latest, and after IdleTimeout without
\* use (auth/session.go:14-16): no request that carries an older copy of it,
\* and no restart, gives it more.
SessionLimits ==
  \A t \in Tokens :
    Valid(t) => history[t].age < Lifetime /\ history[t].quiet < IdleTimeout

\* While a session is in use it is not interrupted (auth/session.go:18-19),
\* whatever requests overlap, fail or end in a restart: it is there until its
\* limits, unless somebody logs out.
ActiveUseStaysLoggedIn ==
  \A t \in 1..issued :
    /\ history[t].out = "no"
    /\ history[t].age < Lifetime
    /\ history[t].quiet < IdleTimeout
    => Valid(t)

\* After a logout the token is never valid again, unless another request that
\* carried it was being answered at that moment: its commit puts the row back.
LogoutIsFinal == \A t \in Tokens : history[t].out = "alone" => ~Valid(t)
=============================================================================
