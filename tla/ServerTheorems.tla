---------------------------- MODULE ServerTheorems ----------------------------
(***************************************************************************)
(* Administrators and sessions, for any number of addresses, PINs, starts, *)
(* requests and logins, and any lifetimes.                                 *)
(*                                                                         *)
(* AdminInv carries what each statement of Bootstrap has found out over to *)
(* the next one.  SessionInv says how a row of the store, and the copy of  *)
(* it that a request holds, depend on age and last use alone, so that it   *)
(* does not matter which of several copies is written back last.           *)
(***************************************************************************)
EXTENDS Server, WellFoundedInduction, TLAPS

-----------------------------------------------------------------------------
(* Administrators.                                                         *)

\* The rows and what Bootstrap knows about them.
AdminInv ==
  /\ AdminTypeOK
  /\ \A i \in DOMAIN admins : admins[i].email.mixedCase = FALSE
  /\ OneRowPerAddress
  /\ server \in {"getAdmin", "create", "setPin"} => config.email \in Email
  /\ server = "create" => /\ RowsOf(config.email) = {}
                          /\ config.pin # BadPin
  /\ server = "setPin" => /\ admins[target].email = Normalize(config.email)
                          /\ IsValidPIN(config.pin)
  /\ server = "serving" /\ outcome = "ok" /\ config.email # NoEmail /\ IsValidPIN(config.pin) =>
       \E i \in RowsOf(config.email) : admins[i].pin = config.pin

\* VerifyPIN finds an administrator whose PIN it is, if there is one.
LEMMA VerifyPINFinds ==
  ASSUME admins \in Seq(AdminRow), NEW pin
  PROVE  /\ VerifyPIN(pin) \in {0} \cup DOMAIN admins
         /\ IsValidPIN(pin) /\ (\E i \in DOMAIN admins : admins[i].pin = pin) =>
              VerifyPIN(pin) \in DOMAIN admins
<1> DEFINE S == {i \in DOMAIN admins : admins[i].pin = pin}
<1>1. CASE S = {}
  BY <1>1 DEF VerifyPIN
<1>2. CASE S # {}
  <2>1. S \subseteq Nat
    OBVIOUS
  <2>2. \E i \in S : \A j \in S : i <= j
    <3> DEFINE less == OpToRel(<, Nat)
    <3>1. IsWellFoundedOn(less, Nat)
      BY NatLessThanWellFounded
    <3>2. PICK i \in S : \A j \in S : ~ (<<j, i>> \in less)
      <4> HIDE DEF less, S
      <4>1. QED
        BY <1>2, <2>1, <3>1, WFMin
    <3>3. \A j \in S : ~ (j < i)
      BY <2>1, <3>2 DEF OpToRel
    <3>4. QED
      BY <2>1, <3>3
  <2>3. QED
    BY <1>2, <2>2 DEF VerifyPIN
<1>3. QED
  BY <1>1, <1>2

\* Normalize keeps the address; with it, an address determines a row's email.
LEMMA NormalizeAddress ==
  ASSUME NEW e \in Email
  PROVE  /\ Normalize(e) \in Email
         /\ Normalize(e).address = e.address
         /\ Normalize(e).mixedCase = FALSE
         /\ \A f \in Email : f.mixedCase = FALSE /\ f.address = e.address => f = Normalize(e)
  BY DEF Email, Normalize

\* There is no administrator before the first start.
LEMMA AdminStarts == AdminInit => AdminInv
<1> SUFFICES ASSUME AdminInit PROVE AdminInv
  OBVIOUS
<1>1. NoConfig \in Config
  BY DEF NoConfig, Config
<1>2. admins \in Seq(AdminRow) /\ DOMAIN admins = {}
  BY DEF AdminInit
<1>3. AdminTypeOK
  BY <1>1, <1>2 DEF AdminInit, AdminTypeOK
<1>4. QED
  BY <1>2, <1>3 DEF AdminInit, AdminInv, OneRowPerAddress

\* No statement of Bootstrap that leaves the rows alone, and no start or stop,
\* disturbs the invariant.
LEMMA AdminReads ==
  ASSUME AdminInv,
         \/ \E c \in Config : Start(c)
         \/ AdminExists
         \/ AdminMissing
         \/ BootstrapFails
         \/ Stop
  PROVE  AdminInv'
<1>1. admins' = admins
  BY DEF Start, AdminExists, AdminMissing, BootstrapFails, Stop
<1>2. \A e : RowsOf(e)' = {i \in DOMAIN admins : admins[i].email = Normalize(e)}
  BY <1>1 DEF RowsOf
<1>3. NoConfig \in Config /\ NoConfig.email = NoEmail
  BY DEF NoConfig, Config
<1>4. CASE \E c \in Config : Start(c)
  <2>1. PICK c \in Config : Start(c)
    BY <1>4
  <2>2. c.email \in {NoEmail} \cup Email
    BY DEF Config
  <2>3. CASE c.email = NoEmail
    BY <1>1, <2>1, <2>3, AdminAssumption
       DEF AdminInv, AdminTypeOK, Start, Serve, OneRowPerAddress
  <2>4. CASE c.email # NoEmail
    BY <1>1, <2>1, <2>2, <2>4
       DEF AdminInv, AdminTypeOK, Start, Serve, OneRowPerAddress
  <2>5. QED
    BY <2>3, <2>4
<1>5. CASE AdminExists
  <2>1. PICK i \in RowsOf(config.email) :
          IF IsValidPIN(config.pin)
          THEN server' = "setPin" /\ target' = i /\ UNCHANGED outcome
          ELSE Serve("ok")
    BY <1>5 DEF AdminExists
  <2>2. i \in DOMAIN admins /\ admins[i].email = Normalize(config.email)
    BY DEF RowsOf
  <2>3. config.email \in Email /\ config' = config
    BY <1>5 DEF AdminInv, AdminExists
  <2>4. CASE IsValidPIN(config.pin)
    BY <1>1, <2>1, <2>2, <2>3, <2>4
       DEF AdminInv, AdminTypeOK, OneRowPerAddress, IsValidPIN, Normalize
  <2>5. CASE ~IsValidPIN(config.pin)
    BY <1>1, <2>1, <2>3, <2>5
       DEF AdminInv, AdminTypeOK, OneRowPerAddress, IsValidPIN, Serve
  <2>6. QED
    BY <2>4, <2>5
<1>6. CASE AdminMissing
  BY <1>1, <1>2, <1>6
     DEF AdminInv, AdminTypeOK, AdminMissing, OneRowPerAddress, IsValidPIN, Serve, RowsOf, Normalize
<1>7. CASE BootstrapFails
  BY <1>1, <1>7 DEF AdminInv, AdminTypeOK, BootstrapFails, OneRowPerAddress, Serve
<1>8. CASE Stop
  BY <1>1, <1>3, <1>8 DEF AdminInv, AdminTypeOK, Stop, OneRowPerAddress
<1>9. QED
  BY <1>4, <1>5, <1>6, <1>7, <1>8

\* INSERT: the address was not there.
LEMMA AdminCreates == AdminInv /\ CreateAdminUser => AdminInv'
<1> SUFFICES ASSUME AdminInv, CreateAdminUser PROVE AdminInv'
  OBVIOUS
<1> DEFINE row == [email |-> Normalize(config.email), pin |-> NoPin]
           n == Len(admins) + 1
<1>1. /\ admins \in Seq(AdminRow)
      /\ admins' = Append(admins, row)
      /\ config' = config /\ config \in Config
      /\ config.email \in Email
      /\ RowsOf(config.email) = {}
      /\ config.pin # BadPin
  BY DEF AdminInv, AdminTypeOK, CreateAdminUser
<1>2. /\ row \in AdminRow
      /\ row.email.address = config.email.address
      /\ row.email.mixedCase = FALSE
      /\ \A f \in Email : f.mixedCase = FALSE /\ f.address = config.email.address =>
           f = Normalize(config.email)
  <2>1. PICK e \in Email : e = config.email
    BY <1>1
  <2>2. /\ Normalize(e) \in Email
        /\ Normalize(e).address = e.address
        /\ Normalize(e).mixedCase = FALSE
        /\ \A f \in Email : f.mixedCase = FALSE /\ f.address = e.address => f = Normalize(e)
    BY NormalizeAddress
  <2>3. QED
    BY <2>1, <2>2 DEF AdminRow
<1>3. /\ admins' \in Seq(AdminRow)
      /\ DOMAIN admins' = 1..n
      /\ DOMAIN admins = 1..Len(admins)
      /\ admins'[n] = row
      /\ \A i \in DOMAIN admins : admins'[i] = admins[i]
  BY <1>1, <1>2
<1>4. \A i \in DOMAIN admins' : admins'[i].email.mixedCase = FALSE
  <2> TAKE i \in DOMAIN admins'
  <2>1. CASE i = n
    BY <1>2, <1>3, <2>1
  <2>2. CASE i # n
    BY <1>3, <2>2 DEF AdminInv
  <2>3. QED
    BY <2>1, <2>2
<1>5. \A i \in DOMAIN admins : admins[i].email.address # config.email.address
  <2> TAKE i \in DOMAIN admins
  <2>1. admins[i] \in AdminRow
    BY <1>1
  <2>2. admins[i].email \in Email
    BY <2>1 DEF AdminRow
  <2>3. admins[i].email.mixedCase = FALSE
    BY DEF AdminInv
  <2>4. admins[i].email # Normalize(config.email)
    BY <1>1 DEF RowsOf
  <2>5. QED
    BY <1>2, <2>2, <2>3, <2>4
<1>6. OneRowPerAddress'
  <2> SUFFICES ASSUME NEW i \in DOMAIN admins', NEW j \in DOMAIN admins',
                      admins'[i].email.address = admins'[j].email.address
               PROVE  i = j
    BY DEF OneRowPerAddress
  <2>1. admins'[n].email.address = config.email.address
    BY <1>2, <1>3
  <2>2. QED
    BY <1>3, <1>5, <2>1 DEF AdminInv, OneRowPerAddress
<1>7. config.pin \in Pins \cup {NoPin}
  BY <1>1 DEF Config
<1>8. AdminTypeOK'
  BY <1>1, <1>3 DEF AdminInv, AdminTypeOK, CreateAdminUser, Serve
<1>9. CASE config.pin = NoPin
  BY <1>1, <1>4, <1>6, <1>8, <1>9, AdminAssumption
     DEF AdminInv, CreateAdminUser, Serve, IsValidPIN
<1>10. CASE config.pin # NoPin
  BY <1>1, <1>3, <1>4, <1>6, <1>7, <1>8, <1>10
     DEF AdminInv, CreateAdminUser, Serve, IsValidPIN, Normalize
<1>11. QED
  BY <1>9, <1>10

\* UPDATE: the row found or created a statement before is there still.
LEMMA AdminSetsPin ==
  ASSUME AdminInv, SetAdminPin
  PROVE  /\ AdminInv'
         /\ DOMAIN admins' = DOMAIN admins
         /\ \A i \in DOMAIN admins :
              /\ admins'[i].email = admins[i].email
              /\ i # target => admins'[i].pin = admins[i].pin
         /\ target \in DOMAIN admins
         /\ admins'[target].pin = config.pin
<1>1. /\ admins \in Seq(AdminRow)
      /\ admins' = [admins EXCEPT ![target].pin = config.pin]
      /\ config' = config /\ config \in Config
      /\ config.email \in Email
      /\ config.pin \in Pins
      /\ target \in DOMAIN admins
      /\ admins[target].email = Normalize(config.email)
  BY DEF AdminInv, AdminTypeOK, SetAdminPin, IsValidPIN
<1>2. \A i \in DOMAIN admins : admins[i] \in AdminRow
  BY <1>1
<1>3. /\ DOMAIN admins' = DOMAIN admins
      /\ \A i \in DOMAIN admins :
           /\ admins'[i] \in AdminRow
           /\ admins'[i].email = admins[i].email
           /\ i # target => admins'[i].pin = admins[i].pin
      /\ admins'[target].pin = config.pin
  BY <1>1, <1>2 DEF AdminRow
<1>4. admins' \in Seq(AdminRow)
  BY <1>1, <1>3
<1>5. AdminTypeOK'
  BY <1>1, <1>3, <1>4 DEF AdminTypeOK, SetAdminPin, Serve
<1>6. OneRowPerAddress' /\ \A i \in DOMAIN admins' : admins'[i].email.mixedCase = FALSE
  BY <1>3 DEF AdminInv, OneRowPerAddress
<1>7. target \in RowsOf(config.email)'
  BY <1>1, <1>3 DEF RowsOf, Normalize
<1>8. \E i \in RowsOf(config.email)' : admins'[i].pin = config.pin
  BY <1>3, <1>7
<1>9. AdminInv'
  BY <1>1, <1>5, <1>6, <1>8 DEF AdminInv, SetAdminPin, Serve
<1>10. QED
  BY <1>1, <1>3, <1>9

\* The invariant holds whatever the administrators' part of the server does.
LEMMA AdminStep == AdminInv /\ [AdminNext]_adminVars => AdminInv'
<1> SUFFICES ASSUME AdminInv, [AdminNext]_adminVars PROVE AdminInv'
  OBVIOUS
<1>1. CASE UNCHANGED adminVars
  BY <1>1 DEF adminVars, AdminInv, AdminTypeOK, OneRowPerAddress, RowsOf
<1>2. CASE AdminNext
  BY <1>2, AdminReads, AdminCreates, AdminSetsPin DEF AdminNext
<1>3. QED
  BY <1>1, <1>2

-----------------------------------------------------------------------------
(* Sessions.                                                               *)

Kinds == {"page", "login", "logout"}

SessionTypes ==
  /\ sessions \in [Tokens -> Row]
  /\ requests \in [Requests -> {NoRequest} \cup [kind : Kinds, data : Data]]
  /\ issued \in 0..MaxLogins
  /\ cookie \in 0..issued
  /\ history \in [Tokens -> [age : 0..Lifetime, quiet : 0..IdleTimeout,
                             out : {"no", "alone", "overlapped"}]]

\* A row that is valid is as its age and its last use make it.
RowFits(t) ==
  Valid(t) => /\ t <= issued
              /\ sessions[t].admin \in DOMAIN admins
              /\ sessions[t].deadline = Lifetime - history[t].age
              /\ sessions[t].expiry =
                   Smaller(IdleTimeout - history[t].quiet, Lifetime - history[t].age)
              /\ history[t].out # "alone"

\* A row that is not has reached a limit, or somebody has logged out.
RowEnds(t) ==
  t <= issued /\ history[t].out = "no" /\ ~Valid(t) =>
    history[t].age = Lifetime \/ history[t].quiet = IdleTimeout

\* The copy a request holds has the deadline of the row.
CopyFits(r) ==
  requests[r] # NoRequest =>
    /\ requests[r].data.admin \in {0} \cup DOMAIN admins
    /\ requests[r].kind = "page" => requests[r].data.token # 0
    /\ requests[r].data.token # 0 =>
         /\ requests[r].data.token <= issued
         /\ requests[r].data.admin \in DOMAIN admins
         /\ requests[r].data.deadline = Lifetime - history[requests[r].data.token].age
         /\ history[requests[r].data.token].out # "alone"

SessionInv ==
  /\ SessionTypes
  /\ \A t \in Tokens : RowFits(t) /\ RowEnds(t)
  /\ \A r \in Requests : CopyFits(r)

\* There is no session before the first login.
LEMMA SessionStarts == Init => SessionInv
<1> SUFFICES ASSUME Init PROVE SessionInv
  OBVIOUS
<1>1. Absent \in Row
  BY ServerAssumption DEF Absent, Row
<1>2. SessionTypes
  BY <1>1, ServerAssumption DEF Init, SessionTypes, Tokens
<1>3. \A t \in Tokens : ~Valid(t)
  BY DEF Init, Valid, Absent
<1>4. QED
  BY <1>2, <1>3, ServerAssumption DEF Init, SessionInv, RowFits, RowEnds, CopyFits, Tokens

\* No row of admin_users goes away.
LEMMA AdminsStay == AdminInv /\ [AdminNext]_adminVars => DOMAIN admins \subseteq DOMAIN admins'
<1> SUFFICES ASSUME AdminInv, [AdminNext]_adminVars
             PROVE  DOMAIN admins \subseteq DOMAIN admins'
  OBVIOUS
<1>1. CASE CreateAdminUser
  <2>1. admins \in Seq(AdminRow)
    BY DEF AdminInv, AdminTypeOK
  <2>2. DOMAIN admins' = 1..(Len(admins) + 1) /\ DOMAIN admins = 1..Len(admins)
    BY <1>1, <2>1 DEF CreateAdminUser
  <2>3. QED
    BY <2>1, <2>2
<1>2. CASE SetAdminPin
  BY <1>2, AdminSetsPin
<1>3. CASE UNCHANGED admins
  BY <1>3
<1>4. QED
  BY <1>1, <1>2, <1>3
     DEF AdminNext, adminVars, Start, AdminExists, AdminMissing, BootstrapFails, Stop

\* What only the administrators' part and the requests in progress can disturb:
\* a start leaves the sessions alone, a stop drops the requests.
LEMMA StartAndStop ==
  ASSUME AdminInv, SessionInv, Starting \/ Stopping
  PROVE  SessionInv'
<1>1. DOMAIN admins \subseteq DOMAIN admins'
  BY AdminsStay DEF Starting, Stopping, AdminNext
<1>2. CASE Starting
  <2>1. UNCHANGED sessionVars
    BY <1>2 DEF Starting
  <2>2. SessionTypes'
    BY <2>1 DEF SessionInv, SessionTypes, sessionVars
  <2>3. \A t \in Tokens : RowFits(t)' /\ RowEnds(t)'
    BY <1>1, <2>1 DEF SessionInv, RowFits, RowEnds, Valid, sessionVars
  <2>4. \A r \in Requests : CopyFits(r)'
    BY <1>1, <2>1 DEF SessionInv, CopyFits, sessionVars
  <2>5. QED
    BY <2>2, <2>3, <2>4 DEF SessionInv
<1>3. CASE Stopping
  <2>1. UNCHANGED <<sessions, issued, cookie, history>>
        /\ requests' = [r \in Requests |-> NoRequest]
    BY <1>3 DEF Stopping
  <2>2. SessionTypes'
    BY <2>1 DEF SessionInv, SessionTypes
  <2>3. \A t \in Tokens : RowFits(t)' /\ RowEnds(t)'
    BY <1>1, <2>1 DEF SessionInv, RowFits, RowEnds, Valid
  <2>4. \A r \in Requests : CopyFits(r)'
    BY <2>1 DEF CopyFits
  <2>5. QED
    BY <2>2, <2>3, <2>4 DEF SessionInv
<1>4. QED
  BY <1>2, <1>3

\* A request ends and nothing is written.
LEMMA FinishedWell ==
  ASSUME SessionInv, NEW r \in Requests, Finished(r)
  PROVE  /\ requests' \in [Requests -> {NoRequest} \cup [kind : Kinds, data : Data]]
         /\ \A q \in Requests : requests'[q] # NoRequest => q # r /\ requests'[q] = requests[q]
  BY DEF SessionInv, SessionTypes, Finished

\* A request arrives with a copy of the row of the cookie.
LEMMA ArriveKeeps ==
  ASSUME SessionInv, NEW r \in Requests, NEW kind \in Kinds, Arrive(r, kind)
  PROVE  SessionInv'
<1> DEFINE d == Find(cookie)
<1>1. /\ requests' = [requests EXCEPT ![r] = [kind |-> kind, data |-> d]]
      /\ UNCHANGED <<sessions, issued, cookie, history, admins>>
      /\ kind = "page" => d.admin # 0
  BY DEF Arrive, adminVars
<1>2. /\ d \in Data
      /\ d.admin \in {0} \cup DOMAIN admins
      /\ d.token = 0 => d.admin = 0
      /\ d.token # 0 => /\ d.token <= issued
                        /\ d.admin \in DOMAIN admins
                        /\ d.deadline = Lifetime - history[d.token].age
                        /\ history[d.token].out # "alone"
  <2>1. CASE Valid(cookie)
    <3>1. cookie \in Tokens /\ cookie # 0
      BY <2>1, ServerAssumption DEF SessionInv, SessionTypes, Tokens, Valid
    <3>2. sessions[cookie] \in Row /\ RowFits(cookie)
      BY <3>1 DEF SessionInv, SessionTypes
    <3>3. d = [token |-> cookie, admin |-> sessions[cookie].admin,
               deadline |-> sessions[cookie].deadline]
      BY <2>1 DEF Find
    <3>4. QED
      BY <2>1, <3>1, <3>2, <3>3 DEF Data, Row, RowFits
  <2>2. CASE ~Valid(cookie)
    BY <2>2, ServerAssumption DEF Find, New, Data
  <2>3. QED
    BY <2>1, <2>2
<1> HIDE DEF d
<1>3. [kind |-> kind, data |-> d] \in [kind : Kinds, data : Data]
  BY <1>2
<1>4. SessionTypes'
  BY <1>1, <1>3 DEF SessionInv, SessionTypes
<1>5. \A t \in Tokens : RowFits(t)' /\ RowEnds(t)'
  BY <1>1 DEF SessionInv, RowFits, RowEnds, Valid
<1>6. ASSUME NEW q \in Requests PROVE CopyFits(q)'
  <2>1. CASE q = r
    <3>1. requests'[q] = [kind |-> kind, data |-> d]
      BY <1>1, <2>1 DEF SessionInv, SessionTypes
    <3>2. QED
      BY <1>1, <1>2, <3>1 DEF CopyFits
  <2>2. CASE q # r
    <3>1. requests'[q] = requests[q]
      BY <1>1, <2>2 DEF SessionInv, SessionTypes
    <3>2. QED
      BY <1>1, <3>1 DEF CopyFits, SessionInv
  <2>3. QED
    BY <2>1, <2>2
<1>7. QED
  BY <1>4, <1>5, <1>6 DEF SessionInv

\* A login writes the row of a token that nobody has had.
LEMMA LoginKeeps ==
  ASSUME AdminInv, SessionInv, NEW r \in Requests, NEW pin, LoginPost(r, pin)
  PROVE  SessionInv'
<1> DEFINE n == issued + 1
           row == [admin |-> VerifyPIN(pin), deadline |-> Lifetime, expiry |-> IdleTimeout]
           young == [age |-> 0, quiet |-> 0, out |-> "no"]
<1>1. /\ issued \in Nat /\ issued < MaxLogins /\ n \in Tokens
      /\ issued' = n /\ cookie' = n
      /\ history' = [history EXCEPT ![n] = young]
      /\ Finished(r)
      /\ UNCHANGED admins
  BY ServerAssumption DEF SessionInv, SessionTypes, LoginPost, Tokens, adminVars
<1>2. VerifyPIN(pin) \in DOMAIN admins
  BY VerifyPINFinds DEF AdminInv, AdminTypeOK, LoginPost
<1>3. sessions' = [sessions EXCEPT ![n] = row]
  <2>1. Smaller(IdleTimeout, Lifetime) = IdleTimeout /\ IdleTimeout # 0
    BY ServerAssumption DEF Smaller
  <2>2. Committed([token |-> n, admin |-> VerifyPIN(pin), deadline |-> Lifetime]) = row
    BY <2>1 DEF Committed
  <2>3. QED
    BY <2>2 DEF LoginPost
<1>4. row \in Row
  <2>1. VerifyPIN(pin) \in Nat
    BY <1>2 DEF AdminInv, AdminTypeOK
  <2>2. QED
    BY <2>1, ServerAssumption DEF Row
<1> HIDE DEF row
<1>5. SessionTypes'
  BY <1>1, <1>3, <1>4, FinishedWell, ServerAssumption DEF SessionInv, SessionTypes
<1>6. ASSUME NEW t \in Tokens PROVE RowFits(t)' /\ RowEnds(t)'
  <2>1. CASE t = n
    <3>1. sessions'[t] = row /\ history'[t] = young
      BY <1>1, <1>3, <2>1 DEF SessionInv, SessionTypes
    <3>2. row.expiry > 0 /\ row.deadline = Lifetime /\ row.admin \in DOMAIN admins
          /\ row.expiry = Smaller(IdleTimeout - 0, Lifetime - 0)
      BY <1>2, ServerAssumption DEF row, Smaller
    <3>3. QED
      BY <1>1, <2>1, <3>1, <3>2, ServerAssumption DEF RowFits, RowEnds, Valid, Tokens
  <2>2. CASE t # n
    <3>1. sessions'[t] = sessions[t] /\ history'[t] = history[t]
      BY <1>1, <1>3, <2>2 DEF SessionInv, SessionTypes
    <3>2. t <= n => t <= issued
      BY <1>1, <2>2 DEF Tokens
    <3>3. QED
      BY <1>1, <3>1, <3>2 DEF RowFits, RowEnds, Valid, SessionInv, Tokens
  <2>3. QED
    BY <2>1, <2>2
<1>7. ASSUME NEW q \in Requests PROVE CopyFits(q)'
  <2> SUFFICES ASSUME requests'[q] # NoRequest PROVE CopyFits(q)'
    BY DEF CopyFits
  <2>1. requests'[q] = requests[q]
    BY <1>1, FinishedWell
  <2>2. requests[q] \in [kind : Kinds, data : Data]
    BY <2>1 DEF SessionInv, SessionTypes
  <2>3. requests[q].data.token \in {0} \cup Tokens
    BY <2>2 DEF Data
  <2>4. CopyFits(q)
    BY DEF SessionInv
  <2>5. ASSUME requests[q].data.token # 0
        PROVE  history'[requests[q].data.token] = history[requests[q].data.token]
               /\ requests[q].data.token <= n
    <3>1. requests[q].data.token <= issued
      BY <2>1, <2>4, <2>5 DEF CopyFits
    <3>2. requests[q].data.token # n
      BY <1>1, <2>3, <2>5, <3>1 DEF Tokens
    <3>3. QED
      BY <1>1, <2>3, <2>5, <3>1, <3>2 DEF SessionInv, SessionTypes, Tokens
  <2>6. QED
    BY <1>1, <2>1, <2>4, <2>5 DEF CopyFits
<1>8. QED
  BY <1>5, <1>6, <1>7 DEF SessionInv

\* A request that has a session writes the row its age asks for.
LEMMA SaveKeeps ==
  ASSUME AdminInv, SessionInv, NEW r \in Requests, requests[r] # NoRequest,
         requests[r].data.token # 0, Save(r)
  PROVE  SessionInv'
<1> DEFINE d == requests[r].data
           u == d.token
           row == Committed(d)
<1>1. /\ d \in Data /\ u \in Tokens /\ u <= issued
      /\ d.admin \in DOMAIN admins
      /\ d.deadline = Lifetime - history[u].age
      /\ history[u].out # "alone"
  <2>1. requests[r] \in [kind : Kinds, data : Data] /\ CopyFits(r)
    BY DEF SessionInv, SessionTypes
  <2>2. QED
    BY <2>1 DEF CopyFits, Data
<1>2. /\ sessions' = [sessions EXCEPT ![u] = row]
      /\ cookie' = u
      /\ history' = [history EXCEPT ![u].quiet = 0]
      /\ Finished(r)
      /\ UNCHANGED <<admins, issued>>
  BY DEF Save, adminVars
<1>3. /\ history[u].age \in 0..Lifetime
      /\ history'[u] = [history[u] EXCEPT !.quiet = 0]
      /\ history'[u].age = history[u].age
      /\ history'[u].quiet = 0
      /\ history'[u].out = history[u].out
      /\ \A t \in Tokens : t # u => history'[t] = history[t] /\ sessions'[t] = sessions[t]
      /\ sessions'[u] = row
      /\ issued \in Nat
  BY <1>1, <1>2 DEF SessionInv, SessionTypes
<1>4. /\ row \in Row
      /\ row.expiry > 0 =>
           /\ row.admin = d.admin
           /\ row.deadline = d.deadline
           /\ row.expiry = Smaller(IdleTimeout, d.deadline)
      /\ ~ (row.expiry > 0) => d.deadline = 0
  <2>1. d.admin \in Nat /\ d.deadline \in 0..Lifetime
    BY <1>1 DEF Data
  <2>2. Smaller(IdleTimeout, d.deadline) \in 0..IdleTimeout
        /\ (Smaller(IdleTimeout, d.deadline) = 0 => d.deadline = 0)
    BY <2>1, ServerAssumption DEF Smaller
  <2>3. CASE Smaller(IdleTimeout, d.deadline) = 0
    BY <2>2, <2>3, ServerAssumption DEF Committed, Absent, Row
  <2>4. CASE Smaller(IdleTimeout, d.deadline) # 0
    BY <2>1, <2>2, <2>4, ServerAssumption DEF Committed, Row
  <2>5. QED
    BY <2>3, <2>4
<1>5. SessionTypes'
  <2>1. cookie' \in 0..issued'
    BY <1>1, <1>2, <1>3 DEF Tokens
  <2>2. sessions' \in [Tokens -> Row]
    BY <1>2, <1>4 DEF SessionInv, SessionTypes
  <2>3. history' \in [Tokens -> [age : 0..Lifetime, quiet : 0..IdleTimeout,
                                 out : {"no", "alone", "overlapped"}]]
    BY <1>1, <1>2, ServerAssumption DEF SessionInv, SessionTypes
  <2>4. QED
    BY <1>2, <2>1, <2>2, <2>3, FinishedWell DEF SessionInv, SessionTypes
<1>6. ASSUME NEW t \in Tokens PROVE RowFits(t)' /\ RowEnds(t)'
  <2>1. CASE t = u
    <3> HIDE DEF row, u, d
    <3>1. RowFits(t)'
      <4>1. Smaller(IdleTimeout, d.deadline) =
              Smaller(IdleTimeout - history'[u].quiet, Lifetime - history'[u].age)
        BY <1>1, <1>3, ServerAssumption
      <4>2. QED
        BY <1>1, <1>2, <1>3, <1>4, <2>1, <4>1 DEF RowFits, Valid, Tokens
    <3>2. RowEnds(t)'
      <4>1. Lifetime \in Nat /\ t # 0
        BY ServerAssumption DEF Tokens
      <4>2. ~Valid(t)' => d.deadline = 0
        BY <1>3, <1>4, <2>1, <4>1 DEF Valid
      <4>3. d.deadline = 0 => history[u].age = Lifetime
        BY <1>1, <1>3, <4>1
      <4>4. history'[t].age = history[u].age
        BY <1>3, <2>1
      <4>5. QED
        BY <4>2, <4>3, <4>4 DEF RowEnds
    <3>3. QED
      BY <3>1, <3>2
  <2>2. CASE t # u
    BY <1>2, <1>3, <2>2 DEF RowFits, RowEnds, Valid, SessionInv
  <2>3. QED
    BY <2>1, <2>2
<1>7. ASSUME NEW q \in Requests PROVE CopyFits(q)'
  <2> SUFFICES ASSUME requests'[q] # NoRequest PROVE CopyFits(q)'
    BY DEF CopyFits
  <2>1. requests'[q] = requests[q] /\ CopyFits(q)
    BY <1>2, FinishedWell DEF SessionInv
  <2>2. requests[q] \in [kind : Kinds, data : Data]
    BY <2>1 DEF SessionInv, SessionTypes
  <2>3. requests[q].data.token \in {0} \cup Tokens
    BY <2>2 DEF Data
  <2>4. requests[q].data.token # 0 =>
          /\ history'[requests[q].data.token].age = history[requests[q].data.token].age
          /\ history'[requests[q].data.token].out = history[requests[q].data.token].out
    BY <1>3, <2>3
  <2>5. QED
    BY <1>2, <2>1, <2>4 DEF CopyFits
<1>8. QED
  BY <1>5, <1>6, <1>7 DEF SessionInv

\* A logout deletes the row; only if no other request holds a copy of it is the
\* token called logged out for good.
LEMMA LogoutKeeps ==
  ASSUME AdminInv, SessionInv, NEW r \in Requests, LogoutPost(r)
  PROVE  SessionInv'
<1> DEFINE u == requests[r].data.token
<1>1. requests[r] # NoRequest /\ Finished(r) /\ UNCHANGED <<admins, issued>> /\ cookie' = 0
  BY DEF LogoutPost, adminVars
<1>2. u \in {0} \cup Tokens
  <2>1. requests[r] \in [kind : Kinds, data : Data]
    BY <1>1 DEF SessionInv, SessionTypes
  <2>2. QED
    BY <2>1 DEF Data
<1>3. issued \in Nat
  BY ServerAssumption DEF SessionInv, SessionTypes
<1>4. CASE u = 0
  <2>1. UNCHANGED <<sessions, history>>
    BY <1>4 DEF LogoutPost
  <2>2. SessionTypes'
    BY <1>1, <1>3, <2>1, FinishedWell DEF SessionInv, SessionTypes
  <2>3. \A t \in Tokens : RowFits(t)' /\ RowEnds(t)'
    BY <1>1, <2>1 DEF SessionInv, RowFits, RowEnds, Valid
  <2>4. \A q \in Requests : CopyFits(q)'
    BY <1>1, <2>1, FinishedWell DEF SessionInv, CopyFits
  <2>5. QED
    BY <2>2, <2>3, <2>4 DEF SessionInv
<1>5. CASE u # 0
  <2> DEFINE others == {q \in Requests \ {r} : /\ requests[q] # NoRequest
                                               /\ requests[q].data.token = u}
  <2>1. u \in Tokens
    BY <1>2, <1>5
  <2>2. /\ sessions' = [sessions EXCEPT ![u] = Absent]
        /\ history' = [history EXCEPT ![u].out =
                         IF others = {} /\ @ # "overlapped" THEN "alone" ELSE "overlapped"]
    BY <1>5 DEF LogoutPost
  <2>3. /\ history'[u].out \in {"alone", "overlapped"}
        /\ history'[u].out = "alone" => others = {}
        /\ history'[u].age = history[u].age
        /\ history'[u].quiet = history[u].quiet
        /\ sessions'[u] = Absent
        /\ \A t \in Tokens : t # u => history'[t] = history[t] /\ sessions'[t] = sessions[t]
    BY <2>1, <2>2 DEF SessionInv, SessionTypes
  <2>4. SessionTypes'
    <3>1. Absent \in Row
      BY ServerAssumption DEF Absent, Row
    <3>2. sessions' \in [Tokens -> Row]
      BY <2>2, <3>1 DEF SessionInv, SessionTypes
    <3>3. history' \in [Tokens -> [age : 0..Lifetime, quiet : 0..IdleTimeout,
                                   out : {"no", "alone", "overlapped"}]]
      BY <2>1, <2>2 DEF SessionInv, SessionTypes
    <3>4. QED
      BY <1>1, <1>3, <3>2, <3>3, FinishedWell DEF SessionInv, SessionTypes
  <2>5. ASSUME NEW t \in Tokens PROVE RowFits(t)' /\ RowEnds(t)'
    <3>1. CASE t = u
      BY <2>3, <3>1 DEF RowFits, RowEnds, Valid, Absent
    <3>2. CASE t # u
      BY <1>1, <2>3, <3>2 DEF RowFits, RowEnds, Valid, SessionInv
    <3>3. QED
      BY <3>1, <3>2
  <2>6. ASSUME NEW q \in Requests PROVE CopyFits(q)'
    <3> SUFFICES ASSUME requests'[q] # NoRequest PROVE CopyFits(q)'
      BY DEF CopyFits
    <3>1. requests'[q] = requests[q] /\ CopyFits(q) /\ q # r
      BY <1>1, FinishedWell DEF SessionInv
    <3>2. requests[q] \in [kind : Kinds, data : Data]
      BY <3>1 DEF SessionInv, SessionTypes
    <3>3. requests[q].data.token \in {0} \cup Tokens
      BY <3>2 DEF Data
    <3>4. CASE requests[q].data.token = u
      <4>1. q \in others
        BY <3>1, <3>4
      <4>2. history'[u].out # "alone"
        BY <2>3, <4>1
      <4>3. QED
        BY <1>1, <2>3, <3>1, <3>4, <4>2 DEF CopyFits
    <3>5. CASE requests[q].data.token # u
      <4>1. requests[q].data.token # 0 =>
              history'[requests[q].data.token] = history[requests[q].data.token]
        BY <2>3, <3>3, <3>5
      <4>2. QED
        BY <1>1, <3>1, <4>1 DEF CopyFits
    <3>6. QED
      BY <3>4, <3>5
  <2>7. QED
    BY <2>4, <2>5, <2>6 DEF SessionInv
<1>6. QED
  BY <1>4, <1>5

\* A request that ends without a commit leaves the rest as it is.
LEMMA NotSavedKeeps ==
  ASSUME SessionInv, NEW r \in Requests, NotSaved(r)
  PROVE  SessionInv'
<1>1. Finished(r) /\ UNCHANGED <<admins, sessions, issued, cookie, history>>
  BY DEF NotSaved, adminVars
<1>2. SessionTypes'
  BY <1>1, FinishedWell DEF SessionInv, SessionTypes
<1>3. \A t \in Tokens : RowFits(t)' /\ RowEnds(t)'
  BY <1>1 DEF SessionInv, RowFits, RowEnds, Valid
<1>4. \A q \in Requests : CopyFits(q)'
  BY <1>1, FinishedWell DEF SessionInv, CopyFits
<1>5. QED
  BY <1>2, <1>3, <1>4 DEF SessionInv

\* Time takes a tick from the row, and from every copy, alike.
LEMMA TickKeeps == SessionInv /\ Tick => SessionInv'
<1> SUFFICES ASSUME SessionInv, Tick PROVE SessionInv'
  OBVIOUS
<1>1. Lifetime \in Nat /\ IdleTimeout \in Nat /\ IdleTimeout <= Lifetime /\ IdleTimeout > 0
  BY ServerAssumption
<1>2. UNCHANGED <<admins, issued, cookie>>
  BY DEF Tick, adminVars
<1>3. ASSUME NEW t \in Tokens
      PROVE  /\ history[t].age \in 0..Lifetime /\ history[t].quiet \in 0..IdleTimeout
             /\ history'[t].age = Smaller(history[t].age + 1, Lifetime)
             /\ history'[t].quiet = Smaller(history[t].quiet + 1, IdleTimeout)
             /\ history'[t].out = history[t].out
             /\ history[t].out \in {"no", "alone", "overlapped"}
             /\ history'[t] \in [age : 0..Lifetime, quiet : 0..IdleTimeout,
                                 out : {"no", "alone", "overlapped"}]
  <2>1. history[t] \in [age : 0..Lifetime, quiet : 0..IdleTimeout,
                        out : {"no", "alone", "overlapped"}]
    BY DEF SessionInv, SessionTypes
  <2>2. history'[t] = [history[t] EXCEPT !.age = Smaller(@ + 1, Lifetime),
                                         !.quiet = Smaller(@ + 1, IdleTimeout)]
    BY DEF Tick
  <2>3. /\ history'[t].age = Smaller(history[t].age + 1, Lifetime)
        /\ history'[t].quiet = Smaller(history[t].quiet + 1, IdleTimeout)
        /\ history'[t].out = history[t].out
    BY <2>1, <2>2
  <2>4. Smaller(history[t].age + 1, Lifetime) \in 0..Lifetime
        /\ Smaller(history[t].quiet + 1, IdleTimeout) \in 0..IdleTimeout
    BY <1>1, <2>1 DEF Smaller
  <2>5. QED
    BY <2>1, <2>2, <2>3, <2>4
<1>4. ASSUME NEW t \in Tokens
      PROVE  /\ sessions[t].expiry \in Nat
             /\ sessions'[t] \in Row
             /\ sessions[t].expiry <= 1 => sessions'[t].expiry = 0
             /\ sessions[t].expiry > 1 =>
                  /\ sessions'[t].admin = sessions[t].admin
                  /\ sessions'[t].deadline = sessions[t].deadline - 1
                  /\ sessions'[t].expiry = sessions[t].expiry - 1
  <2>1. sessions[t] \in Row /\ RowFits(t) /\ t # 0
    BY ServerAssumption DEF SessionInv, SessionTypes, Tokens
  <2>2. CASE sessions[t].expiry <= 1
    <3>1. sessions'[t] = Absent
      BY <2>2 DEF Tick
    <3>2. QED
      BY <1>1, <2>1, <2>2, <3>1 DEF Absent, Row
  <2>3. CASE sessions[t].expiry > 1
    <3>1. /\ sessions[t].expiry \in 0..IdleTimeout
          /\ sessions[t].deadline \in 0..Lifetime
          /\ sessions[t].admin \in Nat
          /\ ~ (sessions[t].expiry <= 1)
      BY <1>1, <2>1, <2>3 DEF Row
    <3>2. sessions'[t] = [sessions[t] EXCEPT !.deadline = @ - 1, !.expiry = @ - 1]
      BY <3>1 DEF Tick
    <3>3. Valid(t)
      BY <1>1, <2>1, <3>1 DEF Valid
    <3>4. sessions[t].deadline >= sessions[t].expiry
      <4>1. Smaller(IdleTimeout - history[t].quiet, Lifetime - history[t].age)
              <= Lifetime - history[t].age
        BY <1>1, <1>3 DEF Smaller
      <4>2. QED
        BY <2>1, <3>3, <4>1 DEF RowFits
    <3>5. sessions[t].deadline - 1 \in 0..Lifetime /\ sessions[t].expiry - 1 \in 0..IdleTimeout
      BY <1>1, <3>1, <3>4
    <3>6. /\ sessions'[t].admin = sessions[t].admin
          /\ sessions'[t].deadline = sessions[t].deadline - 1
          /\ sessions'[t].expiry = sessions[t].expiry - 1
          /\ sessions'[t] \in Row
      BY <2>1, <3>1, <3>2, <3>5 DEF Row
    <3>7. QED
      BY <3>1, <3>6
  <2>4. QED
    BY <2>1, <2>2, <2>3 DEF Row
<1>5. ASSUME NEW r \in Requests, requests[r] # NoRequest
      PROVE  /\ requests[r] \in [kind : Kinds, data : Data]
             /\ requests'[r] \in [kind : Kinds, data : Data]
             /\ requests'[r].kind = requests[r].kind
             /\ requests'[r].data.token = requests[r].data.token
             /\ requests'[r].data.admin = requests[r].data.admin
             /\ requests'[r].data.deadline =
                  IF requests[r].data.deadline = 0 THEN 0 ELSE requests[r].data.deadline - 1
  <2>1. requests[r] \in [kind : Kinds, data : Data]
    BY <1>5 DEF SessionInv, SessionTypes
  <2>2. requests[r].data \in Data /\ requests[r].kind \in Kinds
    BY <2>1
  <2>3. CASE requests[r].data.deadline = 0
    BY <2>1, <2>3 DEF Tick
  <2>4. CASE requests[r].data.deadline # 0
    <3>1. requests'[r] = [requests[r] EXCEPT
            !.data = [requests[r].data EXCEPT !.deadline = requests[r].data.deadline - 1]]
      BY <1>5, <2>4 DEF Tick
    <3>2. [requests[r].data EXCEPT !.deadline = requests[r].data.deadline - 1] \in Data
      BY <1>1, <2>2, <2>4 DEF Data
    <3>3. QED
      BY <2>1, <2>2, <2>4, <3>1, <3>2 DEF Data
  <2>5. QED
    BY <2>3, <2>4
<1>6. SessionTypes'
  <2>1. sessions' \in [Tokens -> Row]
    BY <1>4 DEF Tick
  <2>2. history' \in [Tokens -> [age : 0..Lifetime, quiet : 0..IdleTimeout,
                                 out : {"no", "alone", "overlapped"}]]
    BY <1>3 DEF Tick
  <2>3. requests' \in [Requests -> {NoRequest} \cup [kind : Kinds, data : Data]]
    <3>1. ASSUME NEW r \in Requests
          PROVE  requests'[r] \in {NoRequest} \cup [kind : Kinds, data : Data]
      BY <1>5 DEF Tick
    <3>2. QED
      BY <3>1 DEF Tick
  <2>4. QED
    BY <1>2, <2>1, <2>2, <2>3 DEF SessionInv, SessionTypes
<1>7. ASSUME NEW t \in Tokens PROVE RowFits(t)' /\ RowEnds(t)'
  <2>1. RowFits(t) /\ RowEnds(t) /\ t # 0
    BY ServerAssumption DEF SessionInv, Tokens
  <2>2. RowFits(t)'
    <3> SUFFICES ASSUME sessions[t].expiry > 1 PROVE RowFits(t)'
      BY <1>4 DEF RowFits, Valid
    <3>1. /\ t <= issued
          /\ sessions[t].admin \in DOMAIN admins
          /\ sessions[t].deadline = Lifetime - history[t].age
          /\ sessions[t].expiry =
               Smaller(IdleTimeout - history[t].quiet, Lifetime - history[t].age)
          /\ history[t].out # "alone"
      BY <1>4, <2>1 DEF RowFits, Valid
    <3>2. Smaller(history[t].age + 1, Lifetime) = history[t].age + 1
          /\ Smaller(history[t].quiet + 1, IdleTimeout) = history[t].quiet + 1
      BY <1>1, <1>3, <3>1 DEF Smaller
    <3>3. Smaller(IdleTimeout - history[t].quiet, Lifetime - history[t].age) - 1 =
          Smaller(IdleTimeout - (history[t].quiet + 1), Lifetime - (history[t].age + 1))
      BY <1>1, <1>3 DEF Smaller
    <3>4. sessions'[t].deadline = Lifetime - history'[t].age
          /\ sessions'[t].expiry =
               Smaller(IdleTimeout - history'[t].quiet, Lifetime - history'[t].age)
      BY <1>1, <1>3, <1>4, <3>1, <3>2, <3>3
    <3>5. QED
      BY <1>2, <1>3, <1>4, <3>1, <3>4 DEF RowFits
  <2>3. RowEnds(t)'
    <3> SUFFICES ASSUME t <= issued, history[t].out = "no", ~Valid(t)'
                 PROVE  history'[t].age = Lifetime \/ history'[t].quiet = IdleTimeout
      BY <1>2, <1>3 DEF RowEnds
    <3>1. sessions[t].expiry <= 1
      BY <1>4, <2>1 DEF Valid
    <3>2. CASE Valid(t)
      <4>1. Smaller(IdleTimeout - history[t].quiet, Lifetime - history[t].age) <= 1
        BY <2>1, <3>1, <3>2 DEF RowFits
      <4>2. QED
        BY <1>1, <1>3, <4>1 DEF Smaller
    <3>3. CASE ~Valid(t)
      <4>1. history[t].age = Lifetime \/ history[t].quiet = IdleTimeout
        BY <2>1, <3>3 DEF RowEnds
      <4>2. QED
        BY <1>1, <1>3, <4>1 DEF Smaller
    <3>4. QED
      BY <3>2, <3>3
  <2>4. QED
    BY <2>2, <2>3
<1>8. ASSUME NEW r \in Requests PROVE CopyFits(r)'
  <2> SUFFICES ASSUME requests[r] # NoRequest PROVE CopyFits(r)'
    BY DEF CopyFits, Tick
  <2>1. CopyFits(r) /\ requests[r] \in [kind : Kinds, data : Data]
    BY <1>5 DEF SessionInv
  <2>2. ASSUME requests[r].data.token # 0
        PROVE  /\ requests'[r].data.deadline = Lifetime - history'[requests[r].data.token].age
               /\ history'[requests[r].data.token].out # "alone"
    <3>1. requests[r].data.token \in Tokens
      BY <2>1, <2>2 DEF Data
    <3>2. PICK t \in Tokens : t = requests[r].data.token
      BY <3>1
    <3>3. requests[r].data.deadline = Lifetime - history[t].age /\ history[t].out # "alone"
      BY <2>1, <2>2, <3>2 DEF CopyFits
    <3>4. history'[t].age = Smaller(history[t].age + 1, Lifetime)
          /\ history[t].age \in 0..Lifetime
          /\ history'[t].out = history[t].out
      BY <1>3
    <3>5. QED
      BY <1>1, <1>5, <3>2, <3>3, <3>4 DEF Smaller
  <2>3. QED
    BY <1>2, <1>5, <2>1, <2>2 DEF CopyFits
<1>9. QED
  BY <1>6, <1>7, <1>8 DEF SessionInv

-----------------------------------------------------------------------------
(* The server.                                                             *)

\* The sessions' part leaves the administrators alone, and the other way round.
LEMMA AdminPart == AdminInv /\ [Next]_vars => [AdminNext]_adminVars
<1> SUFFICES ASSUME [Next]_vars PROVE [AdminNext]_adminVars
  OBVIOUS
<1>1. CASE UNCHANGED vars
  BY <1>1 DEF vars
<1>2. CASE Starting \/ Stopping
  BY <1>2 DEF Starting, Stopping, AdminNext
<1>3. CASE Tick
  BY <1>3 DEF Tick
<1>4. CASE \E r \in Requests :
             \/ \E kind \in {"page", "login", "logout"} : Arrive(r, kind)
             \/ \E pin \in Pins \cup {BadPin} : LoginPost(r, pin)
             \/ AnswerPage(r)
             \/ LogoutPost(r)
             \/ LogoutFails(r)
             \/ NotSaved(r)
  BY <1>4 DEF Arrive, LoginPost, AnswerPage, LogoutPost, LogoutFails, NotSaved, Save
<1>5. QED
  BY <1>1, <1>2, <1>3, <1>4 DEF Next

\* Every step of the server keeps SessionInv.
LEMMA SessionStep == AdminInv /\ SessionInv /\ [Next]_vars => SessionInv'
<1> SUFFICES ASSUME AdminInv, SessionInv, [Next]_vars PROVE SessionInv'
  OBVIOUS
<1>1. CASE UNCHANGED vars
  BY <1>1 DEF vars, adminVars, sessionVars, SessionInv, SessionTypes, RowFits, RowEnds,
              CopyFits, Valid
<1>2. CASE Starting \/ Stopping
  BY <1>2, StartAndStop
<1>3. CASE Tick
  BY <1>3, TickKeeps
<1>4. ASSUME NEW r \in Requests, NEW kind \in {"page", "login", "logout"}, Arrive(r, kind)
      PROVE  SessionInv'
  BY <1>4, ArriveKeeps DEF Kinds
<1>5. ASSUME NEW r \in Requests, NEW pin, LoginPost(r, pin) PROVE SessionInv'
  BY <1>5, LoginKeeps
<1>6. ASSUME NEW r \in Requests, AnswerPage(r) \/ LogoutFails(r) PROVE SessionInv'
  <2>1. requests[r] # NoRequest /\ Save(r)
    BY <1>6 DEF AnswerPage, LogoutFails
  <2>2. requests[r].data.token # 0
    BY <1>6, <2>1 DEF AnswerPage, LogoutFails, SessionInv, CopyFits
  <2>3. QED
    BY <2>1, <2>2, SaveKeeps
<1>7. ASSUME NEW r \in Requests, LogoutPost(r) PROVE SessionInv'
  BY <1>7, LogoutKeeps
<1>8. ASSUME NEW r \in Requests, NotSaved(r) PROVE SessionInv'
  BY <1>8, NotSavedKeeps
<1>9. QED
  BY <1>1, <1>2, <1>3, <1>4, <1>5, <1>6, <1>7, <1>8 DEF Next

\* Both invariants hold in every state of the server.
THEOREM ServerInvariant == Spec => [](AdminInv /\ SessionInv)
<1>1. Init => AdminInv /\ SessionInv
  BY AdminStarts, SessionStarts DEF Init
<1>2. (AdminInv /\ SessionInv) /\ [Next]_vars => (AdminInv /\ SessionInv)'
  BY AdminPart, AdminStep, SessionStep
<1>3. QED
  BY <1>1, <1>2, PTL DEF Spec

\* Values have their types, and a session is one of an administrator who is
\* there, whatever is restarted and however requests overlap.
THEOREM ServerTypes == Spec => []TypeOK
<1>1. AdminInv /\ SessionInv => TypeOK
  <2> SUFFICES ASSUME AdminInv, SessionInv PROVE TypeOK
    OBVIOUS
  <2>1. AdminTypeOK
    BY DEF AdminInv
  <2>2. \A t \in Tokens : Valid(t) => t <= issued /\ sessions[t].admin \in DOMAIN admins
    BY DEF SessionInv, RowFits
  <2>3. \A r \in Requests :
          requests[r] # NoRequest => requests[r].data.admin \in {0} \cup DOMAIN admins
    BY DEF SessionInv, CopyFits
  <2>4. QED
    BY <2>1, <2>2, <2>3 DEF TypeOK, SessionInv, SessionTypes, Kinds
<1>2. QED
  BY <1>1, ServerInvariant, PTL

\* One person has one row, however the address is spelled from start to start.
THEOREM OneRow == Spec => []OneRowPerAddress
<1>1. AdminInv => OneRowPerAddress
  BY DEF AdminInv
<1>2. QED
  BY <1>1, ServerInvariant, PTL

\* The PIN of a start that reported no error opens the door.
THEOREM PinWorks == Spec => []ConfiguredPinWorks
<1>1. AdminInv => ConfiguredPinWorks
  <2> SUFFICES ASSUME AdminInv, server = "serving", outcome = "ok", config.email # NoEmail,
                      IsValidPIN(config.pin)
               PROVE  /\ VerifyPIN(config.pin) # 0
                      /\ \E i \in RowsOf(config.email) : admins[i].pin = config.pin
    BY DEF ConfiguredPinWorks
  <2>1. \E i \in RowsOf(config.email) : admins[i].pin = config.pin
    BY DEF AdminInv
  <2>2. \E i \in DOMAIN admins : admins[i].pin = config.pin
    BY <2>1 DEF RowsOf
  <2>3. PICK pin : pin = config.pin
    OBVIOUS
  <2>4. VerifyPIN(pin) \in DOMAIN admins
    BY <2>2, <2>3, VerifyPINFinds DEF AdminInv, AdminTypeOK
  <2>5. 0 \notin DOMAIN admins
    BY DEF AdminInv, AdminTypeOK
  <2>6. QED
    BY <2>1, <2>3, <2>4, <2>5
<1>2. QED
  BY <1>1, ServerInvariant, PTL

\* A start changes the PIN of nobody but the administrator it names.
THEOREM OthersKeepTheirPin == Spec => OnlyNamedPinChanges
<1>1. ASSUME AdminInv, [Next]_vars
      PROVE  [\A i \in DOMAIN admins :
                i \in DOMAIN admins' /\
                  (admins'[i].pin # admins[i].pin =>
                     /\ admins[i].email = Normalize(config.email)
                     /\ admins'[i].pin = config.pin
                     /\ IsValidPIN(config.pin))]_adminVars
  <2>1. [AdminNext]_adminVars
    BY <1>1, AdminPart
  <2> SUFFICES ASSUME AdminNext, NEW i \in DOMAIN admins
               PROVE  /\ i \in DOMAIN admins'
                      /\ admins'[i].pin # admins[i].pin =>
                           /\ admins[i].email = Normalize(config.email)
                           /\ admins'[i].pin = config.pin
                           /\ IsValidPIN(config.pin)
    BY <2>1
  <2>2. i \in DOMAIN admins'
    BY <1>1, <2>1, AdminsStay
  <2>3. CASE CreateAdminUser
    <3>1. admins \in Seq(AdminRow)
      BY <1>1 DEF AdminInv, AdminTypeOK
    <3>2. admins'[i] = admins[i]
      BY <2>3, <3>1 DEF CreateAdminUser
    <3>3. QED
      BY <2>2, <3>2
  <2>4. CASE SetAdminPin
    <3>1. i = target \/ admins'[i].pin = admins[i].pin
      BY <1>1, <2>4, AdminSetsPin
    <3>2. admins'[target].pin = config.pin
      BY <1>1, <2>4, AdminSetsPin
    <3>3. admins[target].email = Normalize(config.email) /\ IsValidPIN(config.pin)
      BY <1>1, <2>4 DEF AdminInv, SetAdminPin
    <3>4. QED
      BY <2>2, <3>1, <3>2, <3>3
  <2>5. CASE UNCHANGED admins
    BY <2>5
  <2>6. QED
    BY <2>3, <2>4, <2>5
       DEF AdminNext, Start, AdminExists, AdminMissing, BootstrapFails, Stop
<1>2. QED
  BY <1>1, ServerInvariant, PTL DEF Spec, OnlyNamedPinChanges

\* What SessionInv says of the limits.
LEMMA SessionInvLimits ==
  ASSUME SessionInv
  PROVE  SessionLimits /\ ActiveUseStaysLoggedIn /\ LogoutIsFinal
<1>1. ASSUME NEW t \in Tokens
      PROVE  /\ history[t].age \in 0..Lifetime /\ history[t].quiet \in 0..IdleTimeout
             /\ Lifetime \in Nat /\ IdleTimeout \in Nat
  BY ServerAssumption DEF SessionInv, SessionTypes
<1>2. ASSUME NEW t \in Tokens, Valid(t)
      PROVE  history[t].age < Lifetime /\ history[t].quiet < IdleTimeout
  <2>1. sessions[t].expiry =
          Smaller(IdleTimeout - history[t].quiet, Lifetime - history[t].age)
        /\ sessions[t].expiry > 0
    BY <1>2 DEF SessionInv, RowFits, Valid
  <2>2. QED
    BY <1>1, <2>1 DEF Smaller
<1>3. SessionLimits
  BY <1>2 DEF SessionLimits
<1>4. ASSUME NEW t \in 1..issued,
             history[t].out = "no", history[t].age < Lifetime, history[t].quiet < IdleTimeout
      PROVE  Valid(t)
  <2>1. t \in Tokens /\ t <= issued
    BY ServerAssumption DEF SessionInv, SessionTypes, Tokens
  <2>2. history[t].age # Lifetime /\ history[t].quiet # IdleTimeout
    BY <1>1, <1>4, <2>1
  <2>3. QED
    BY <1>4, <2>1, <2>2 DEF SessionInv, RowEnds
<1>5. ActiveUseStaysLoggedIn
  BY <1>4 DEF ActiveUseStaysLoggedIn
<1>6. LogoutIsFinal
  BY DEF SessionInv, RowFits, LogoutIsFinal
<1>7. QED
  BY <1>3, <1>5, <1>6

\* Neither overlapping requests nor a restart prolong a session beyond its
\* limits, ...
THEOREM SessionsEnd == Spec => []SessionLimits
<1>1. SessionInv => SessionLimits
  BY SessionInvLimits
<1>2. QED
  BY <1>1, ServerInvariant, PTL

\* ... they do not interrupt one that is in use, ...
THEOREM SessionsLast == Spec => []ActiveUseStaysLoggedIn
<1>1. SessionInv => ActiveUseStaysLoggedIn
  BY SessionInvLimits
<1>2. QED
  BY <1>1, ServerInvariant, PTL

\* ... and they do not bring one back that was logged out undisturbed.
THEOREM LogoutHolds == Spec => []LogoutIsFinal
<1>1. SessionInv => LogoutIsFinal
  BY SessionInvLimits
<1>2. QED
  BY <1>1, ServerInvariant, PTL
=============================================================================
