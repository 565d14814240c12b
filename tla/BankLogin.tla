------------------------------ MODULE BankLogin ------------------------------
(***************************************************************************)
(* The login page of the mock bank, mock-bank-oauth, as its customers'     *)
(* browsers and this application use it: the challenge of a login, the     *)
(* one-time password that is mailed, the authorization code and the token  *)
(* it is exchanged for (app/store.py, routes_login.py, routes_token.py).   *)
(*                                                                         *)
(* Everything is held in memory: expiry evicts, and a restart forgets.     *)
(* The lock of the store makes each of its functions one step; a handler   *)
(* calls several of them, asks the directory and sends mail in between,    *)
(* and holds a reference to a challenge that others may change.            *)
(*                                                                         *)
(* One client and its one redirect URI, checked at both ends, are left     *)
(* out, but for a code that is presented with another URI.  One-time       *)
(* passwords are numbers that never repeat.                                *)
(***************************************************************************)
EXTENDS Naturals, FiniteSets

CONSTANTS
  Customers,       \* rows of mock_customers
  Challenges,      \* challenge ids
  Codes,           \* authorization codes
  MaxPasswords,    \* bound on the one-time passwords that are drawn
  LoginThreads,    \* threads of the bank's server
  CarefulCustomer  \* the forms of one login are sent one after another

ASSUME LoginAssumption == MaxPasswords \in Nat /\ CarefulCustomer \in BOOLEAN

VARIABLES
  challenge,     \* _challenges
  authCode,      \* _auth_codes
  redeemed,      \* how many access tokens have been issued for each code
  mail,          \* the passwords each customer has been sent
  drawn,         \* the passwords drawn so far
  loginReq,      \* what each thread is in the middle of
  shown          \* history: the password each code was issued for

loginVars == <<challenge, authCode, redeemed, mail, drawn, loginReq, shown>>

Nobody == "nobody"
Drawable == 1..MaxPasswords
None == 0

\* "fresh" of a password is that it has not expired.
Challenge == [state : {"none", "open", "gone"}, customer : Customers \cup {Nobody},
              password : Drawable \cup {None}, fresh : BOOLEAN]
NoChallenge(state) == [state |-> state, customer |-> Nobody, password |-> None, fresh |-> FALSE]

AuthCode == [state : {"none", "valid", "used", "expired"}, customer : Customers \cup {Nobody}]
NoAuthCode == [state |-> "none", customer |-> Nobody]

Looking == [at : {"found"}, challenge : Challenges, customer : Customers, password : {None}]
Mailing == [at : {"attached"}, challenge : Challenges, customer : Customers, password : Drawable]
Verifying == [at : {"passed", "issued"}, challenge : Challenges, password : Drawable]
Exchanging == [at : {"consumed"}, code : Codes]
Serving == [at : {"free"}] \cup Looking \cup Mailing \cup Verifying \cup Exchanging

LoginTypeOK ==
  /\ challenge \in [Challenges -> Challenge]
  /\ authCode \in [Codes -> AuthCode]
  /\ redeemed \in [Codes -> Nat]
  /\ mail \in [Customers -> SUBSET Drawable]
  /\ drawn \in 0..MaxPasswords
  /\ loginReq \in [LoginThreads -> Serving]
  /\ shown \in [Codes -> Drawable \cup {None}]

LoginInit ==
  /\ challenge = [h \in Challenges |-> NoChallenge("none")]
  /\ authCode = [c \in Codes |-> NoAuthCode]
  /\ redeemed = [c \in Codes |-> 0]
  /\ mail = [u \in Customers |-> {}]
  /\ drawn = 0
  /\ loginReq = [r \in LoginThreads |-> [at |-> "free"]]
  /\ shown = [c \in Codes |-> None]

Serves(r, record) == loginReq[r].at = "free" /\ loginReq' = [loginReq EXCEPT ![r] = record]
Then(r, record)   == loginReq' = [loginReq EXCEPT ![r] = record]
Responds(r)       == Then(r, [at |-> "free"])
InForm(h)         == CarefulCustomer =>
                       ~\E r \in LoginThreads : /\ loginReq[r].at \notin {"free", "consumed"}
                                               /\ loginReq[r].challenge = h

(***************************************************************************)
(* The pages                                                               *)
(***************************************************************************)

\* GET /authorize
BeginLogin(h) ==
  /\ challenge[h] = NoChallenge("none")
  /\ challenge' = [challenge EXCEPT ![h] = NoChallenge("open")]
  /\ UNCHANGED <<authCode, redeemed, mail, drawn, loginReq, shown>>

\* POST /login/start: the challenge is there, and the directory knows the
\* customer id that was typed (otherwise nothing has changed) ...
StartLookup(r, h, u) ==
  /\ challenge[h].state = "open" /\ InForm(h)
  /\ Serves(r, [at |-> "found", challenge |-> h, customer |-> u, password |-> None])
  /\ UNCHANGED <<challenge, authCode, redeemed, mail, drawn, shown>>

\* Mutant: a second customer id in the same login does not replace the first.
StartAttachKeeps(r) ==
  /\ loginReq[r].at = "found" /\ drawn < MaxPasswords
  /\ LET h == loginReq[r].challenge
     IN  IF challenge[h].state = "open"
           THEN /\ challenge' = [challenge EXCEPT ![h] =
                     [state |-> "open", password |-> drawn + 1, fresh |-> TRUE,
                      customer |-> IF @.customer = Nobody THEN loginReq[r].customer ELSE @.customer]]
                /\ Then(r, [loginReq[r] EXCEPT !.at = "attached", !.password = drawn + 1])
           ELSE Responds(r) /\ UNCHANGED challenge
  /\ drawn' = drawn + 1
  /\ UNCHANGED <<authCode, redeemed, mail, shown>>

\* ... a password is attached to the challenge, unless it has gone (500) ...
StartAttach(r) ==
  /\ loginReq[r].at = "found" /\ drawn < MaxPasswords
  /\ LET h == loginReq[r].challenge
     IN  IF challenge[h].state = "open"
           THEN /\ challenge' = [challenge EXCEPT ![h] =
                     [state |-> "open", customer |-> loginReq[r].customer,
                      password |-> drawn + 1, fresh |-> TRUE]]
                /\ Then(r, [loginReq[r] EXCEPT !.at = "attached", !.password = drawn + 1])
           ELSE Responds(r) /\ UNCHANGED challenge
  /\ drawn' = drawn + 1
  /\ UNCHANGED <<authCode, redeemed, mail, shown>>

\* ... and mailed; a failure is answered with 502 and leaves it attached.
StartMail(r) ==
  /\ loginReq[r].at = "attached"
  /\ \/ mail' = [mail EXCEPT ![loginReq[r].customer] = @ \cup {loginReq[r].password}]
     \/ UNCHANGED mail
  /\ Responds(r)
  /\ UNCHANGED <<challenge, authCode, redeemed, drawn, shown>>

\* POST /login/verify: somebody types a password that was mailed, and it is the
\* challenge's and has not expired ...
VerifyCheck(r, h, p) ==
  /\ challenge[h].state = "open" /\ InForm(h)
  /\ \E u \in Customers : p \in mail[u]
  /\ challenge[h].password = p /\ challenge[h].fresh
  /\ Serves(r, [at |-> "passed", challenge |-> h, password |-> p])
  /\ UNCHANGED <<challenge, authCode, redeemed, mail, drawn, shown>>

\* ... a code is issued to the customer of the challenge as it is now ...
VerifyIssue(r, c) ==
  /\ loginReq[r].at = "passed" /\ authCode[c] = NoAuthCode
  /\ authCode' = [authCode EXCEPT ![c] =
                    [state |-> "valid", customer |-> challenge[loginReq[r].challenge].customer]]
  /\ shown' = [shown EXCEPT ![c] = loginReq[r].password]
  /\ Then(r, [loginReq[r] EXCEPT !.at = "issued"])
  /\ UNCHANGED <<challenge, redeemed, mail, drawn>>

\* ... and the challenge is popped; the browser is sent back with the code.
VerifyPop(r) ==
  /\ loginReq[r].at = "issued"
  /\ challenge' = [challenge EXCEPT ![loginReq[r].challenge].state = "gone"]
  /\ Responds(r)
  /\ UNCHANGED <<authCode, redeemed, mail, drawn, shown>>

(***************************************************************************)
(* POST /token                                                             *)
(***************************************************************************)

\* consume_authorization_code(): looked up and marked under one lock.
TokenConsume(r, c) ==
  /\ authCode[c].state = "valid"
  /\ authCode' = [authCode EXCEPT ![c].state = "used"]
  /\ Serves(r, [at |-> "consumed", code |-> c])
  /\ UNCHANGED <<challenge, redeemed, mail, drawn, shown>>

\* A code that was presented with another redirect URI is burnt.
TokenIssue(r) ==
  /\ loginReq[r].at = "consumed"
  /\ \/ redeemed' = [redeemed EXCEPT ![loginReq[r].code] = @ + 1]
     \/ UNCHANGED redeemed
  /\ Responds(r)
  /\ UNCHANGED <<challenge, authCode, mail, drawn, shown>>

(***************************************************************************)
(* Time passes, and the process restarts                                   *)
(***************************************************************************)

\* An expired challenge is evicted; a handler may still hold a reference to it.
ChallengeExpires(h) ==
  /\ challenge[h].state = "open"
  /\ challenge' = [challenge EXCEPT ![h].state = "gone"]
  /\ UNCHANGED <<authCode, redeemed, mail, drawn, loginReq, shown>>

PasswordExpires(h) ==
  /\ challenge[h].fresh
  /\ challenge' = [challenge EXCEPT ![h].fresh = FALSE]
  /\ UNCHANGED <<authCode, redeemed, mail, drawn, loginReq, shown>>

CodeExpires(c) ==
  /\ authCode[c].state = "valid"
  /\ authCode' = [authCode EXCEPT ![c].state = "expired"]
  /\ UNCHANGED <<challenge, redeemed, mail, drawn, loginReq, shown>>

\* Challenges and codes are forgotten, and requests die; tokens stay valid.
BankRestarts ==
  /\ challenge' = [h \in Challenges |-> IF challenge[h].state = "open"
                                          THEN [challenge[h] EXCEPT !.state = "gone"] ELSE challenge[h]]
  /\ authCode' = [c \in Codes |-> IF authCode[c].state = "valid"
                                    THEN [authCode[c] EXCEPT !.state = "expired"] ELSE authCode[c]]
  /\ loginReq' = [r \in LoginThreads |-> [at |-> "free"]]
  /\ UNCHANGED <<redeemed, mail, drawn, shown>>

BankLoginNext ==
  \/ BankRestarts
  \/ \E h \in Challenges : BeginLogin(h) \/ ChallengeExpires(h) \/ PasswordExpires(h)
  \/ \E c \in Codes : CodeExpires(c)
  \/ \E r \in LoginThreads :
       \/ \E h \in Challenges, u \in Customers : StartLookup(r, h, u)
       \/ StartAttach(r)
       \/ StartMail(r)
       \/ \E h \in Challenges, p \in Drawable : VerifyCheck(r, h, p)
       \/ \E c \in Codes : VerifyIssue(r, c) \/ TokenConsume(r, c)
       \/ VerifyPop(r)
       \/ TokenIssue(r)

BankLoginSpec == LoginInit /\ [][BankLoginNext]_loginVars

(***************************************************************************)
(* Properties                                                              *)
(***************************************************************************)

\* A code is the customer's who was mailed the password that was typed, also
\* when a login is begun anew with another customer id.
CodeOfWhoWasMailed ==
  \A c \in Codes : authCode[c].state # "none" => shown[c] \in mail[authCode[c].customer]

\* "Single-use challenge": no password that was typed lets anybody in twice.
OneCodePerPassword ==
  \A c, d \in Codes : shown[c] # None /\ shown[c] = shown[d] => c = d

\* "The single-use guarantee this is meant to enforce": a code is exchanged for
\* one token at most, whatever retries, expires and restarts.
OneTokenPerCode == \A c \in Codes : redeemed[c] <= 1

\* A login ends with at most one token, of the customer who answered the mail.
LoginAsMailed == CodeOfWhoWasMailed /\ OneCodePerPassword /\ OneTokenPerCode
=============================================================================
