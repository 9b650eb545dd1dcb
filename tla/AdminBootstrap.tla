---------------------------- MODULE AdminBootstrap ----------------------------
(***************************************************************************)
(* The administrators.  Each start of the server runs Bootstrap with the   *)
(* address, PIN and password of its environment: statements of their own,  *)
(* with five seconds for all of them, and the server goes on whatever      *)
(* comes of it.  Login compares the PIN typed with every administrator's.  *)
(*                                                                         *)
(* Rows keep what is compared: the address and the PIN behind pin_hash.    *)
(* pw_hash and last_login_at are written and never read on the way in, and *)
(* nothing clears is_active.  Server adds the sessions that logins open.   *)
(***************************************************************************)
EXTENDS Integers, SequencesExt

CONSTANTS Addresses,  \* addresses, in lower case and trimmed
          Pins,       \* PINs of six digits
          BadPin,     \* anything else that is not empty
          NoPin,      \* the empty PIN; pin_hash IS NULL
          NoEmail     \* ADMIN_BOOTSTRAP_EMAIL is empty

\* An address as the environment spells it.
Email == [address : Addresses, mixedCase : BOOLEAN]

Config == [email : {NoEmail} \cup Email, pin : Pins \cup {BadPin, NoPin}, pw : BOOLEAN]

AdminRow == [email : Email, pin : Pins \cup {NoPin}]

ASSUME AdminAssumption ==
  /\ NoEmail \notin Email
  /\ BadPin \notin Pins \cup {NoPin}
  /\ NoPin \notin Pins

VARIABLES admins,   \* rows of admin_users, ORDER BY created_at
          config,   \* the environment of the server that runs
          server,   \* where main is
          target,   \* the row Bootstrap has found or created, 0 for none
          outcome   \* what Bootstrap has returned

adminVars == <<admins, config, server, target, outcome>>

NoConfig == [email |-> NoEmail, pin |-> NoPin, pw |-> FALSE]

AdminInit ==
  /\ admins = <<>>
  /\ config = NoConfig
  /\ server = "down"
  /\ target = 0
  /\ outcome = "none"

-----------------------------------------------------------------------------

\* Mutant of Normalize: the address is taken as it is spelled.
AsSpelled(email) == email

\* strings.TrimSpace(strings.ToLower(email)).
Normalize(email) == [email EXCEPT !.mixedCase = FALSE]

IsValidPIN(pin) == pin \in Pins

\* GetAdminByEmail.
RowsOf(email) == {i \in DOMAIN admins : admins[i].email = Normalize(email)}

\* VerifyPIN: the first administrator, in order of created_at, whose PIN it
\* is; 0 when there is none.
VerifyPIN(pin) ==
  LET matches == {i \in DOMAIN admins : admins[i].pin = pin}
  IN  IF ~IsValidPIN(pin) \/ matches = {} THEN 0
      ELSE CHOOSE i \in matches : \A j \in matches : i <= j

-----------------------------------------------------------------------------
(* Bootstrap.                                                              *)

Serve(result) ==
  /\ server' = "serving"
  /\ target' = 0
  /\ outcome' = result

\* main starts; without an address Bootstrap returns at once.
Start(c) ==
  /\ server = "down"
  /\ config' = c
  /\ IF c.email = NoEmail THEN Serve("ok")
     ELSE server' = "getAdmin" /\ UNCHANGED <<target, outcome>>
  /\ UNCHANGED admins

\* Mutant of AdminExists: an administrator who is there is left alone.
AdminExistsUntouched ==
  /\ server = "getAdmin"
  /\ RowsOf(config.email) # {}
  /\ Serve("ok")
  /\ UNCHANGED <<admins, config>>

\* The administrator is there: a valid PIN is to be set, anything else is left.
AdminExists ==
  /\ server = "getAdmin"
  /\ \E i \in RowsOf(config.email) :
       IF IsValidPIN(config.pin)
       THEN server' = "setPin" /\ target' = i /\ UNCHANGED outcome
       ELSE Serve("ok")
  /\ UNCHANGED <<admins, config>>

\* There is none: with neither PIN nor password, or with a PIN that is not six
\* digits, Bootstrap returns an error.
AdminMissing ==
  /\ server = "getAdmin"
  /\ RowsOf(config.email) = {}
  /\ IF (config.pin = NoPin /\ ~config.pw) \/ config.pin = BadPin
     THEN Serve("warned")
     ELSE server' = "create" /\ UNCHANGED <<target, outcome>>
  /\ UNCHANGED <<admins, config>>

\* Mutant of CreateAdminUser: the PIN is set for the id of the row looked up.
CreateAdminUserForgotten ==
  /\ server = "create"
  /\ admins' = Append(admins, [email |-> Normalize(config.email), pin |-> NoPin])
  /\ IF config.pin = NoPin THEN Serve("ok")
     ELSE server' = "setPin" /\ UNCHANGED <<target, outcome>>
  /\ UNCHANGED config

\* INSERT INTO admin_users: without a PIN, which is a statement of its own.
CreateAdminUser ==
  /\ server = "create"
  /\ admins' = Append(admins, [email |-> Normalize(config.email), pin |-> NoPin])
  /\ IF config.pin = NoPin THEN Serve("ok")
     ELSE server' = "setPin" /\ target' = Len(admins) + 1 /\ UNCHANGED outcome
  /\ UNCHANGED config

\* Mutant of SetAdminPin: UPDATE without WHERE.
SetAllPins ==
  /\ server = "setPin"
  /\ admins' = [i \in DOMAIN admins |-> [admins[i] EXCEPT !.pin = config.pin]]
  /\ Serve("ok")
  /\ UNCHANGED config

\* UPDATE admin_users SET pin_hash WHERE id.
SetAdminPin ==
  /\ server = "setPin"
  /\ admins' = [admins EXCEPT ![target].pin = config.pin]
  /\ Serve("ok")
  /\ UNCHANGED config

\* A statement or a hash fails, or the five seconds are over: a warning.
BootstrapFails ==
  /\ server \in {"getAdmin", "create", "setPin"}
  /\ Serve("warned")
  /\ UNCHANGED <<admins, config>>

\* The server stops or crashes, wherever it is.
Stop ==
  /\ server # "down"
  /\ server' = "down"
  /\ config' = NoConfig
  /\ target' = 0
  /\ outcome' = "none"
  /\ UNCHANGED admins

AdminNext ==
  \/ \E c \in Config : Start(c)
  \/ AdminExists
  \/ AdminMissing
  \/ CreateAdminUser
  \/ SetAdminPin
  \/ BootstrapFails
  \/ Stop

-----------------------------------------------------------------------------
(* Properties.                                                             *)

\* Types; the row whose PIN is to be set is there.
AdminTypeOK ==
  /\ admins \in Seq(AdminRow)
  /\ config \in Config
  /\ server \in {"down", "getAdmin", "create", "setPin", "serving"}
  /\ target \in DOMAIN admins \/ (server # "setPin" /\ target = 0)
  /\ outcome \in {"none", "ok", "warned"}

\* However the address is spelled from start to start, and wherever a start
\* was cut off, one person has one row.
OneRowPerAddress ==
  \A i, j \in DOMAIN admins :
    admins[i].email.address = admins[j].email.address => i = j

\* A start that reports no error has made the PIN of its environment work: for
\* a new administrator, for one who had another PIN, and for one whose row an
\* earlier start left without a PIN (admin.go:79-102).
ConfiguredPinWorks ==
  server = "serving" /\ outcome = "ok" /\ config.email # NoEmail
    /\ IsValidPIN(config.pin) =>
      /\ VerifyPIN(config.pin) # 0
      /\ \E i \in RowsOf(config.email) : admins[i].pin = config.pin

\* No start locks anybody out: a PIN is only ever replaced, by a valid one,
\* for the administrator its environment names.
OnlyNamedPinChanges ==
  [][\A i \in DOMAIN admins :
       i \in DOMAIN admins' /\
         (admins'[i].pin # admins[i].pin =>
            /\ admins[i].email = Normalize(config.email)
            /\ admins'[i].pin = config.pin
            /\ IsValidPIN(config.pin))]_adminVars
=============================================================================
