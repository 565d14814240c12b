--------------------------- MODULE MockBankProofs ----------------------------
(***************************************************************************)
(* Proofs about the mock bank, BankLogin and BankFeed.  A login of the     *)
(* bank ends with at most one token, of the customer who was mailed the    *)
(* password that was typed, for any customers, logins, codes and server    *)
(* threads, through expiry, failed mails and restarts, if the forms of one *)
(* login are sent one by one.  No event of the bank falls between backfill *)
(* and pushes, whatever is linked, pushed and lost at once.                *)
(***************************************************************************)
EXTENDS BankLogin, BankFeed, TLAPS

(***************************************************************************)
(* The login                                                               *)
(***************************************************************************)

Handles(r, h) == loginReq[r].at \notin {"free", "consumed"} /\ loginReq[r].challenge = h

\* One handler at a time holds a reference to a challenge.
OneForm ==
  \A r, s \in LoginThreads, h \in Challenges : Handles(r, h) /\ Handles(s, h) => r = s

\* Whatever is kept of a password was drawn.
Bounded ==
  /\ \A h \in Challenges : challenge[h].password <= drawn
  /\ \A u \in Customers : \A p \in mail[u] : p <= drawn
  /\ \A c \in Codes : shown[c] <= drawn

\* A password belongs to one challenge, and is mailed to its customer only.
MailsDistinct ==
  \A h, k \in Challenges :
    challenge[h].password # None /\ challenge[h].password = challenge[k].password => h = k

MailFits ==
  \A h \in Challenges, u \in Customers :
    challenge[h].password \in mail[u] => challenge[h].customer = u

Matches(r) == challenge[loginReq[r].challenge].password = loginReq[r].password

\* What a handler goes by is still what its challenge says.
FormFits ==
  \A r \in LoginThreads :
    /\ loginReq[r].at \in {"attached", "passed", "issued"} => Matches(r)
    /\ loginReq[r].at = "attached"
         => challenge[loginReq[r].challenge].customer = loginReq[r].customer
    /\ loginReq[r].at = "passed"
         => /\ \E u \in Customers : loginReq[r].password \in mail[u]
            /\ \A c \in Codes : shown[c] # loginReq[r].password

\* The challenge of a password that has been shown for a code is popped, or about to be.
Spent ==
  \A c \in Codes, h \in Challenges :
    shown[c] # None /\ shown[c] = challenge[h].password
      => \/ challenge[h].state = "gone"
         \/ \E r \in LoginThreads : loginReq[r].at = "issued" /\ loginReq[r].challenge = h

Unused == \A h \in Challenges : challenge[h].state = "none" => challenge[h].password = None

CodesMailed ==
  \A c \in Codes : authCode[c].state # "none" =>
    authCode[c].customer \in Customers /\ shown[c] \in mail[authCode[c].customer]

PasswordInv == /\ LoginTypeOK /\ OneForm /\ Bounded /\ MailsDistinct /\ MailFits /\ FormFits
               /\ Spent /\ Unused /\ CodesMailed /\ OneCodePerPassword

\* A code that is being exchanged, or was, is used; and nobody else exchanges it.
CodeTokensInv ==
  /\ \A c \in Codes : redeemed[c] <= 1 /\ (redeemed[c] # 0 => authCode[c].state = "used")
  /\ \A r \in LoginThreads : loginReq[r].at = "consumed" =>
       authCode[loginReq[r].code].state = "used" /\ redeemed[loginReq[r].code] = 0
  /\ \A r, s \in LoginThreads :
       /\ loginReq[r].at = "consumed" /\ loginReq[s].at = "consumed"
       /\ loginReq[r].code = loginReq[s].code
       => r = s

(***************************************************************************)
(* The shapes of a request                                                 *)
(***************************************************************************)

LEMMA LoginShapes ==
  ASSUME LoginTypeOK, NEW r \in LoginThreads
  PROVE  /\ loginReq[r].at = "found" => loginReq[r] \in Looking
         /\ loginReq[r].at = "attached" => loginReq[r] \in Mailing
         /\ loginReq[r].at \in {"passed", "issued"} => loginReq[r] \in Verifying
         /\ loginReq[r].at = "consumed" => loginReq[r] \in Exchanging
         /\ loginReq[r].at \in {"free", "found", "attached", "passed", "issued", "consumed"}
         /\ loginReq[r].at \notin {"free", "consumed"} => loginReq[r].challenge \in Challenges
<1>1. \/ loginReq[r] \in [at : {"free"}] \/ loginReq[r] \in Looking
      \/ loginReq[r] \in Mailing \/ loginReq[r] \in Verifying \/ loginReq[r] \in Exchanging
  BY DEF LoginTypeOK, Serving
<1> QED BY <1>1 DEF Looking, Mailing, Verifying, Exchanging

\* A request goes on, and the others stay where they are.
LEMMA LoginFrame ==
  ASSUME LoginTypeOK, NEW r \in LoginThreads, NEW record, record \in Serving, Then(r, record)
  PROVE  /\ loginReq' \in [LoginThreads -> Serving]
         /\ loginReq'[r] = record
         /\ \A s \in LoginThreads \ {r} : loginReq'[s] = loginReq[s]
BY DEF LoginTypeOK, Then

(***************************************************************************)
(* Typing                                                                  *)
(***************************************************************************)

LEMMA TypingLookup ==
  ASSUME LoginTypeOK, NEW r \in LoginThreads, NEW h \in Challenges, NEW u \in Customers,
         StartLookup(r, h, u)
  PROVE  LoginTypeOK'
<1>1. [at |-> "found", challenge |-> h, customer |-> u, password |-> None] \in Serving
  BY DEF Serving, Looking
<1> QED BY <1>1, LoginFrame DEF StartLookup, Serves, Then, LoginTypeOK

LEMMA TypingAttach ==
  ASSUME LoginAssumption, LoginTypeOK, NEW r \in LoginThreads, StartAttach(r)
  PROVE  LoginTypeOK'
<1> DEFINE h == loginReq[r].challenge
<1>1. loginReq[r] \in Looking /\ h \in Challenges
  BY LoginShapes DEF StartAttach
<1>2. drawn + 1 \in Drawable /\ drawn' \in 0..MaxPasswords
  BY DEF StartAttach, LoginAssumption, LoginTypeOK, Drawable
<1>3. CASE challenge[h].state = "open"
  <2>1. [state |-> "open", customer |-> loginReq[r].customer, password |-> drawn + 1,
         fresh |-> TRUE] \in Challenge
    BY <1>1, <1>2 DEF Challenge, Looking
  <2>2. [loginReq[r] EXCEPT !.at = "attached", !.password = drawn + 1] \in Mailing
    BY <1>1, <1>2 DEF Looking, Mailing
  <2>3. challenge' \in [Challenges -> Challenge]
    BY <1>1, <1>3, <2>1 DEF StartAttach, LoginTypeOK
  <2>4. loginReq' \in [LoginThreads -> Serving]
    BY <1>3, <2>2, LoginFrame DEF StartAttach, Serving
  <2> QED BY <1>2, <2>3, <2>4 DEF StartAttach, LoginTypeOK
<1>4. CASE challenge[h].state # "open"
  <2>1. [at |-> "free"] \in Serving
    BY DEF Serving
  <2>2. loginReq' \in [LoginThreads -> Serving]
    BY <1>4, <2>1, LoginFrame DEF StartAttach, Responds
  <2> QED BY <1>2, <1>4, <2>2 DEF StartAttach, LoginTypeOK
<1> QED BY <1>3, <1>4

LEMMA TypingRest ==
  ASSUME LoginAssumption, LoginTypeOK, NEW r \in LoginThreads,
         \/ StartMail(r)
         \/ \E h \in Challenges, p \in Drawable : VerifyCheck(r, h, p)
         \/ \E c \in Codes : VerifyIssue(r, c) \/ TokenConsume(r, c)
         \/ VerifyPop(r) \/ TokenIssue(r)
  PROVE  LoginTypeOK'
<1>0. [at |-> "free"] \in Serving
  BY DEF Serving
<1>1. CASE StartMail(r)
  <2>1. loginReq[r] \in Mailing
    BY <1>1, LoginShapes DEF StartMail
  <2>2. loginReq[r].customer \in Customers /\ loginReq[r].password \in Drawable
    BY <2>1 DEF Mailing
  <2>3. mail' \in [Customers -> SUBSET Drawable]
    BY <1>1, <2>2 DEF StartMail, LoginTypeOK
  <2>4. loginReq' \in [LoginThreads -> Serving]
    BY <1>0, <1>1, LoginFrame DEF StartMail, Responds
  <2> QED BY <1>1, <2>3, <2>4 DEF StartMail, LoginTypeOK
<1>2. ASSUME NEW h \in Challenges, NEW p \in Drawable, VerifyCheck(r, h, p)
      PROVE  LoginTypeOK'
  <2>1. [at |-> "passed", challenge |-> h, password |-> p] \in Serving
    BY DEF Serving, Verifying
  <2>2. loginReq' \in [LoginThreads -> Serving]
    BY <1>2, <2>1, LoginFrame DEF VerifyCheck, Serves, Then
  <2> QED BY <1>2, <2>2 DEF VerifyCheck, LoginTypeOK
<1>3. ASSUME NEW c \in Codes, VerifyIssue(r, c) PROVE LoginTypeOK'
  <2>1. loginReq[r] \in Verifying
    BY <1>3, LoginShapes DEF VerifyIssue
  <2>2. loginReq[r].challenge \in Challenges /\ loginReq[r].password \in Drawable
    BY <2>1 DEF Verifying
  <2>3. challenge[loginReq[r].challenge].customer \in Customers \cup {Nobody}
    BY <2>2 DEF LoginTypeOK, Challenge
  <2>4. [loginReq[r] EXCEPT !.at = "issued"] \in Verifying
    BY <2>1 DEF Verifying
  <2>5. loginReq' \in [LoginThreads -> Serving]
    BY <1>3, <2>4, LoginFrame DEF VerifyIssue, Serving
  <2>6. authCode' \in [Codes -> AuthCode]
    BY <1>3, <2>3 DEF VerifyIssue, LoginTypeOK, AuthCode
  <2>7. shown' \in [Codes -> Drawable \cup {None}]
    BY <1>3, <2>2 DEF VerifyIssue, LoginTypeOK
  <2> QED BY <1>3, <2>5, <2>6, <2>7 DEF VerifyIssue, LoginTypeOK
<1>4. ASSUME NEW c \in Codes, TokenConsume(r, c) PROVE LoginTypeOK'
  <2>1. [at |-> "consumed", code |-> c] \in Serving
    BY DEF Serving, Exchanging
  <2>2. loginReq' \in [LoginThreads -> Serving]
    BY <1>4, <2>1, LoginFrame DEF TokenConsume, Serves, Then
  <2>3. authCode' \in [Codes -> AuthCode]
    BY <1>4 DEF TokenConsume, LoginTypeOK, AuthCode
  <2> QED BY <1>4, <2>2, <2>3 DEF TokenConsume, LoginTypeOK
<1>5. CASE VerifyPop(r)
  <2>1. loginReq[r].challenge \in Challenges
    BY <1>5, LoginShapes DEF VerifyPop
  <2>2. challenge' \in [Challenges -> Challenge]
    BY <1>5, <2>1 DEF VerifyPop, LoginTypeOK, Challenge
  <2>3. loginReq' \in [LoginThreads -> Serving]
    BY <1>0, <1>5, LoginFrame DEF VerifyPop, Responds
  <2> QED BY <1>5, <2>2, <2>3 DEF VerifyPop, LoginTypeOK
<1>6. CASE TokenIssue(r)
  <2>1. loginReq[r].code \in Codes
    BY <1>6, LoginShapes DEF TokenIssue, Exchanging
  <2>2. redeemed' \in [Codes -> Nat]
    BY <1>6, <2>1 DEF TokenIssue, LoginTypeOK
  <2>3. loginReq' \in [LoginThreads -> Serving]
    BY <1>0, <1>6, LoginFrame DEF TokenIssue, Responds
  <2> QED BY <1>6, <2>2, <2>3 DEF TokenIssue, LoginTypeOK
<1> QED BY <1>1, <1>2, <1>3, <1>4, <1>5, <1>6

LEMMA TypingTime ==
  ASSUME LoginTypeOK,
         \/ BankRestarts
         \/ \E h \in Challenges : BeginLogin(h) \/ ChallengeExpires(h) \/ PasswordExpires(h)
         \/ \E c \in Codes : CodeExpires(c)
         \/ UNCHANGED loginVars
  PROVE  LoginTypeOK'
<1>1. ASSUME NEW h \in Challenges, BeginLogin(h) \/ ChallengeExpires(h) \/ PasswordExpires(h)
      PROVE  LoginTypeOK'
  <2>1. /\ NoChallenge("open") \in Challenge
        /\ [challenge[h] EXCEPT !.state = "gone"] \in Challenge
        /\ [challenge[h] EXCEPT !.fresh = FALSE] \in Challenge
    BY DEF LoginTypeOK, Challenge, NoChallenge
  <2>2. challenge' \in [Challenges -> Challenge]
    BY <1>1, <2>1 DEF BeginLogin, ChallengeExpires, PasswordExpires, LoginTypeOK
  <2> QED BY <1>1, <2>2 DEF BeginLogin, ChallengeExpires, PasswordExpires, LoginTypeOK
<1>2. ASSUME NEW c \in Codes, CodeExpires(c) PROVE LoginTypeOK'
  BY <1>2 DEF CodeExpires, LoginTypeOK, AuthCode
<1>3. CASE BankRestarts
  <2>1. loginReq' \in [LoginThreads -> Serving]
    BY <1>3 DEF BankRestarts, Serving
  <2>2. \A h \in Challenges : [challenge[h] EXCEPT !.state = "gone"] \in Challenge
    BY DEF LoginTypeOK, Challenge
  <2>3. \A c \in Codes : [authCode[c] EXCEPT !.state = "expired"] \in AuthCode
    BY DEF LoginTypeOK, AuthCode
  <2> QED BY <1>3, <2>1, <2>2, <2>3 DEF BankRestarts, LoginTypeOK
<1>4. CASE UNCHANGED loginVars
  BY <1>4 DEF loginVars, LoginTypeOK
<1> QED BY <1>1, <1>2, <1>3, <1>4

LEMMA TypingInit == LoginInit => LoginTypeOK
<1>. SUFFICES ASSUME LoginInit PROVE LoginTypeOK
  OBVIOUS
<1>1. NoChallenge("none") \in Challenge /\ NoAuthCode \in AuthCode
  BY DEF NoChallenge, Challenge, NoAuthCode, AuthCode
<1>2. [at |-> "free"] \in Serving
  BY DEF Serving
<1> QED BY <1>1, <1>2, LoginAssumption DEF LoginInit, LoginTypeOK, LoginAssumption

LEMMA TypingStep == LoginTypeOK /\ [BankLoginNext]_loginVars => LoginTypeOK'
<1>. SUFFICES ASSUME LoginTypeOK, [BankLoginNext]_loginVars PROVE LoginTypeOK'
  OBVIOUS
<1> QED BY LoginAssumption, TypingLookup, TypingAttach, TypingRest, TypingTime
        DEF BankLoginNext

\* Challenges, codes, passwords and the steps of every request keep their types.
THEOREM LoginTyping == BankLoginSpec => []LoginTypeOK
BY TypingInit, TypingStep, PTL DEF BankLoginSpec

(***************************************************************************)
(* What a step leaves behind, field by field                               *)
(***************************************************************************)

LEMMA AttachDone ==
  ASSUME LoginTypeOK, NEW r \in LoginThreads, StartAttach(r),
         challenge[loginReq[r].challenge].state = "open"
  PROVE  LET h == loginReq[r].challenge
         IN  /\ h \in Challenges
             /\ challenge'[h].state = "open" /\ challenge'[h].password = drawn + 1
             /\ challenge'[h].customer = loginReq[r].customer
             /\ \A k \in Challenges \ {h} : challenge'[k] = challenge[k]
             /\ loginReq'[r].at = "attached" /\ loginReq'[r].challenge = h
             /\ loginReq'[r].customer = loginReq[r].customer
             /\ loginReq'[r].password = drawn + 1
             /\ \A s \in LoginThreads \ {r} : loginReq'[s] = loginReq[s]
<1> DEFINE h == loginReq[r].challenge
           record == [loginReq[r] EXCEPT !.at = "attached", !.password = drawn + 1]
<1>1. loginReq[r] \in Looking /\ h \in Challenges
  BY LoginShapes DEF StartAttach
<1>2. /\ record.at = "attached" /\ record.challenge = h
      /\ record.customer = loginReq[r].customer /\ record.password = drawn + 1
  BY <1>1 DEF Looking
<1>3. loginReq' = [loginReq EXCEPT ![r] = record]
  BY DEF StartAttach, Then
<1>4. /\ loginReq'[r] = record
      /\ \A s \in LoginThreads \ {r} : loginReq'[s] = loginReq[s]
  BY <1>3 DEF LoginTypeOK
<1>5. challenge' = [challenge EXCEPT ![h] =
                     [state |-> "open", customer |-> loginReq[r].customer,
                      password |-> drawn + 1, fresh |-> TRUE]]
  BY DEF StartAttach
<1>6. /\ challenge'[h] = [state |-> "open", customer |-> loginReq[r].customer,
                          password |-> drawn + 1, fresh |-> TRUE]
      /\ \A k \in Challenges \ {h} : challenge'[k] = challenge[k]
  BY <1>1, <1>5 DEF LoginTypeOK
<1> QED BY <1>1, <1>2, <1>4, <1>6

LEMMA IssueDone ==
  ASSUME LoginTypeOK, NEW r \in LoginThreads, NEW c \in Codes, VerifyIssue(r, c)
  PROVE  LET h == loginReq[r].challenge
         IN  /\ h \in Challenges /\ loginReq[r].password \in Drawable
             /\ authCode'[c] = [state |-> "valid", customer |-> challenge[h].customer]
             /\ shown'[c] = loginReq[r].password
             /\ \A d \in Codes \ {c} : authCode'[d] = authCode[d] /\ shown'[d] = shown[d]
             /\ loginReq'[r].at = "issued" /\ loginReq'[r].challenge = h
             /\ loginReq'[r].password = loginReq[r].password
             /\ \A s \in LoginThreads \ {r} : loginReq'[s] = loginReq[s]
<1> DEFINE record == [loginReq[r] EXCEPT !.at = "issued"]
<1>1. loginReq[r] \in Verifying
  BY LoginShapes DEF VerifyIssue
<1>2. /\ record.at = "issued" /\ record.challenge = loginReq[r].challenge
      /\ record.password = loginReq[r].password
      /\ loginReq[r].challenge \in Challenges /\ loginReq[r].password \in Drawable
  BY <1>1 DEF Verifying
<1>3. loginReq' = [loginReq EXCEPT ![r] = record]
  BY DEF VerifyIssue, Then
<1>4. /\ loginReq'[r] = record
      /\ \A s \in LoginThreads \ {r} : loginReq'[s] = loginReq[s]
  BY <1>3 DEF LoginTypeOK
<1>5. /\ authCode'[c] = [state |-> "valid", customer |-> challenge[loginReq[r].challenge].customer]
      /\ shown'[c] = loginReq[r].password
      /\ \A d \in Codes \ {c} : authCode'[d] = authCode[d] /\ shown'[d] = shown[d]
  BY DEF VerifyIssue, LoginTypeOK
<1> QED BY <1>2, <1>4, <1>5

(***************************************************************************)
(* One token per code: this needs no discipline of anybody                 *)
(***************************************************************************)

LEMMA TokenInvInit == LoginInit => CodeTokensInv
BY DEF LoginInit, CodeTokensInv

\* The requests that exchange a code stay as they are, and so do the used codes.
LEMMA TokenKept ==
  ASSUME LoginTypeOK, CodeTokensInv, UNCHANGED redeemed,
         \A r \in LoginThreads : loginReq'[r].at = "consumed" => loginReq'[r] = loginReq[r],
         \A c \in Codes : authCode[c].state = "used" => authCode'[c].state = "used"
  PROVE  CodeTokensInv'
<1>1. \A r \in LoginThreads : loginReq[r].at = "consumed" => loginReq[r].code \in Codes
  BY LoginShapes DEF Exchanging
<1> QED BY <1>1 DEF CodeTokensInv

LEMMA TokenInvStep ==
  ASSUME LoginTypeOK, CodeTokensInv, [BankLoginNext]_loginVars
  PROVE  CodeTokensInv'
<1>1. ASSUME NEW r \in LoginThreads,
             \/ \E h \in Challenges, u \in Customers : StartLookup(r, h, u)
             \/ StartAttach(r) \/ StartMail(r)
             \/ \E h \in Challenges, p \in Drawable : VerifyCheck(r, h, p)
             \/ \E c \in Codes : VerifyIssue(r, c)
             \/ VerifyPop(r)
      PROVE  CodeTokensInv'
  <2>1. loginReq \in [LoginThreads -> Serving]
    BY DEF LoginTypeOK
  <2>2. loginReq'[r].at # "consumed" /\ \A s \in LoginThreads \ {r} : loginReq'[s] = loginReq[s]
    <3>1. CASE \E h \in Challenges, u \in Customers : StartLookup(r, h, u)
      BY <2>1, <3>1 DEF StartLookup, Serves
    <3>2. CASE StartAttach(r)
      <4>1. CASE challenge[loginReq[r].challenge].state = "open"
        BY <3>2, <4>1, AttachDone
      <4>2. CASE challenge[loginReq[r].challenge].state # "open"
        BY <2>1, <3>2, <4>2 DEF StartAttach, Then, Responds
      <4> QED BY <4>1, <4>2
    <3>3. CASE StartMail(r) \/ VerifyPop(r)
      BY <2>1, <3>3 DEF StartMail, VerifyPop, Then, Responds
    <3>4. CASE \E h \in Challenges, p \in Drawable : VerifyCheck(r, h, p)
      BY <2>1, <3>4 DEF VerifyCheck, Serves
    <3>5. CASE \E c \in Codes : VerifyIssue(r, c)
      BY <3>5, IssueDone
    <3> QED BY <1>1, <3>1, <3>2, <3>3, <3>4, <3>5
  <2>3. \A c \in Codes : authCode[c].state = "used" => authCode'[c].state = "used"
    <3>1. CASE UNCHANGED authCode
      BY <3>1
    <3>2. ASSUME NEW c \in Codes, VerifyIssue(r, c)
          PROVE  \A d \in Codes : authCode[d].state = "used" => authCode'[d].state = "used"
      <4>1. authCode[c].state = "none"
        BY <3>2 DEF VerifyIssue, NoAuthCode
      <4> QED BY <3>2, <4>1, IssueDone
    <3> QED BY <1>1, <3>1, <3>2 DEF StartLookup, StartAttach, StartMail, VerifyCheck, VerifyPop
  <2>4. UNCHANGED redeemed
    BY <1>1 DEF StartLookup, StartAttach, StartMail, VerifyCheck, VerifyIssue, VerifyPop
  <2> QED BY <2>2, <2>3, <2>4, TokenKept
<1>2. ASSUME NEW r \in LoginThreads, NEW c \in Codes, TokenConsume(r, c) PROVE CodeTokensInv'
  <2>1. /\ loginReq'[r] = [at |-> "consumed", code |-> c]
        /\ \A s \in LoginThreads \ {r} : loginReq'[s] = loginReq[s]
    BY <1>2 DEF TokenConsume, Serves, LoginTypeOK
  <2>2. /\ authCode[c].state = "valid" /\ authCode'[c].state = "used"
        /\ \A d \in Codes \ {c} : authCode'[d] = authCode[d]
        /\ UNCHANGED redeemed
    BY <1>2 DEF TokenConsume, LoginTypeOK, AuthCode
  <2>3. redeemed[c] = 0
    BY <2>2 DEF CodeTokensInv
  <2>4. \A s \in LoginThreads : loginReq[s].at = "consumed" =>
          loginReq[s].code \in Codes \ {c}
    BY <2>2, LoginShapes DEF CodeTokensInv, Exchanging
  <2> QED BY <2>1, <2>2, <2>3, <2>4 DEF CodeTokensInv
<1>3. ASSUME NEW r \in LoginThreads, TokenIssue(r) PROVE CodeTokensInv'
  <2>1. loginReq'[r].at = "free" /\ \A s \in LoginThreads \ {r} : loginReq'[s] = loginReq[s]
    BY <1>3 DEF TokenIssue, Responds, Then, LoginTypeOK
  <2>2. PICK c \in Codes : loginReq[r].code = c
    BY <1>3, LoginShapes DEF TokenIssue, Exchanging
  <2>3. /\ redeemed'[c] \in {0, 1} /\ authCode[c].state = "used"
        /\ \A d \in Codes \ {c} : redeemed'[d] = redeemed[d]
        /\ UNCHANGED authCode
    BY <1>3, <2>2 DEF TokenIssue, CodeTokensInv, LoginTypeOK
  <2>4. \A s \in LoginThreads \ {r} : loginReq[s].at = "consumed" =>
          loginReq[s].code \in Codes \ {c}
    BY <1>3, <2>2, LoginShapes DEF TokenIssue, CodeTokensInv, Exchanging
  <2> QED BY <2>1, <2>3, <2>4 DEF CodeTokensInv
<1>4. CASE BankRestarts
  <2>1. \A r \in LoginThreads : loginReq'[r].at # "consumed"
    BY <1>4 DEF BankRestarts
  <2>2. /\ \A c \in Codes : authCode[c].state = "used" => authCode'[c].state = "used"
        /\ UNCHANGED redeemed
    BY <1>4 DEF BankRestarts
  <2> QED BY <2>1, <2>2, TokenKept
<1>5. CASE \/ \E h \in Challenges : BeginLogin(h) \/ ChallengeExpires(h) \/ PasswordExpires(h)
           \/ \E c \in Codes : CodeExpires(c)
           \/ UNCHANGED loginVars
  <2>1. UNCHANGED <<loginReq, redeemed>>
    BY <1>5 DEF BeginLogin, ChallengeExpires, PasswordExpires, CodeExpires, loginVars
  <2>2. \A c \in Codes : authCode[c].state = "used" => authCode'[c].state = "used"
    BY <1>5 DEF BeginLogin, ChallengeExpires, PasswordExpires, CodeExpires, loginVars,
       LoginTypeOK
  <2> QED BY <2>1, <2>2, TokenKept
<1> QED BY <1>1, <1>2, <1>3, <1>4, <1>5 DEF BankLoginNext

\* A code is exchanged for one token at most, whoever presents it however often,
\* through expiry and restarts.
THEOREM TokenPerCode == BankLoginSpec => []OneTokenPerCode
<1>1. CodeTokensInv => OneTokenPerCode
  BY DEF CodeTokensInv, OneTokenPerCode
<1>2. LoginTypeOK /\ CodeTokensInv /\ [BankLoginNext]_loginVars => CodeTokensInv'
  BY TokenInvStep
<1> QED BY <1>1, <1>2, TypingInit, TypingStep, TokenInvInit, PTL DEF BankLoginSpec

(***************************************************************************)
(* Passwords, challenges and codes belong together                         *)
(***************************************************************************)

LEMMA PasswordInit == LoginInit => PasswordInv
<1>. SUFFICES ASSUME LoginInit PROVE PasswordInv
  OBVIOUS
<1>1. \A h \in Challenges : challenge[h].state = "none" /\ challenge[h].password = None
  BY DEF LoginInit, NoChallenge
<1>2. \A r \in LoginThreads : loginReq[r].at = "free"
  BY DEF LoginInit
<1>3. /\ \A c \in Codes : shown[c] = None /\ authCode[c].state = "none"
      /\ \A u \in Customers : mail[u] = {}
      /\ drawn = 0
  BY DEF LoginInit, NoAuthCode
<1> QED BY <1>1, <1>2, <1>3, TypingInit DEF PasswordInv, OneForm, Handles, Bounded, MailsDistinct,
        MailFits, FormFits, Spent, Unused, CodesMailed, OneCodePerPassword, None

\* A form is taken up: of no challenge that is in another handler's hands.
LEMMA PasswordTaken ==
  ASSUME CarefulCustomer, PasswordInv, LoginTypeOK', NEW r \in LoginThreads, NEW h \in Challenges,
         \/ \E u \in Customers : StartLookup(r, h, u)
         \/ \E p \in Drawable : VerifyCheck(r, h, p)
  PROVE  PasswordInv'
<1>1. /\ loginReq[r].at = "free" /\ challenge[h].state = "open"
      /\ \A s \in LoginThreads : ~Handles(s, h)
  BY DEF StartLookup, VerifyCheck, Serves, InForm, Handles
<1>2. /\ loginReq'[r].challenge = h /\ loginReq'[r].at \in {"found", "passed"}
      /\ \A s \in LoginThreads \ {r} : loginReq'[s] = loginReq[s]
  BY DEF StartLookup, VerifyCheck, Serves, PasswordInv, LoginTypeOK
<1>3. UNCHANGED <<challenge, mail, drawn, shown, authCode>>
  BY DEF StartLookup, VerifyCheck
<1>4. OneForm'
  BY <1>1, <1>2 DEF PasswordInv, OneForm, Handles
<1>5. Bounded' /\ MailsDistinct' /\ MailFits' /\ Unused' /\ CodesMailed' /\ OneCodePerPassword'
  BY <1>3 DEF PasswordInv, Bounded, MailsDistinct, MailFits, Unused, CodesMailed, OneCodePerPassword
<1>6. Spent'
  BY <1>1, <1>2, <1>3 DEF PasswordInv, Spent
<1>7. loginReq'[r].at = "passed"
        => /\ Matches(r)'
           /\ \E u \in Customers : loginReq'[r].password \in mail'[u]
           /\ \A c \in Codes : shown'[c] # loginReq'[r].password
  <2>. SUFFICES ASSUME loginReq'[r].at = "passed"
                PROVE  /\ Matches(r)'
                       /\ \E u \in Customers : loginReq'[r].password \in mail'[u]
                       /\ \A c \in Codes : shown'[c] # loginReq'[r].password
    OBVIOUS
  <2>1. CASE \E u \in Customers : StartLookup(r, h, u)
    BY <2>1 DEF StartLookup, Serves, PasswordInv, LoginTypeOK
  <2>2. ASSUME NEW p \in Drawable, VerifyCheck(r, h, p)
        PROVE  /\ Matches(r)'
               /\ \E u \in Customers : loginReq'[r].password \in mail'[u]
               /\ \A c \in Codes : shown'[c] # loginReq'[r].password
    <3>1. loginReq'[r] = [at |-> "passed", challenge |-> h, password |-> p]
      BY <2>2 DEF VerifyCheck, Serves, PasswordInv, LoginTypeOK
    <3>2. challenge[h].password = p /\ \E u \in Customers : p \in mail[u]
      BY <2>2 DEF VerifyCheck
    <3>3. \A c \in Codes : shown[c] # p
      BY <1>1, <3>2 DEF PasswordInv, Spent, Handles, Drawable, None
    <3> QED BY <1>3, <3>1, <3>2, <3>3 DEF Matches
  <2> QED BY <2>1, <2>2
<1>8. FormFits'
  BY <1>2, <1>3, <1>7 DEF PasswordInv, FormFits, Matches
<1> QED BY <1>4, <1>5, <1>6, <1>8 DEF PasswordInv

\* A handler lets go of its challenge, or one that had none goes on.
LEMMA PasswordLeft ==
  ASSUME PasswordInv, LoginTypeOK', NEW r \in LoginThreads,
         loginReq[r].at # "issued",
         loginReq'[r].at \in {"free", "consumed"},
         \A s \in LoginThreads \ {r} : loginReq'[s] = loginReq[s],
         UNCHANGED <<challenge, shown>>,
         drawn <= drawn',
         \A u \in Customers : mail[u] \subseteq mail'[u]
                              /\ \A p \in mail'[u] : p <= drawn',
         MailFits',
         \A c \in Codes : authCode'[c].state # "none" =>
           authCode[c].state # "none" /\ authCode'[c].customer = authCode[c].customer
  PROVE  PasswordInv'
<1>0. drawn \in Nat /\ drawn' \in Nat
  BY LoginAssumption DEF PasswordInv, LoginTypeOK, LoginAssumption
<1>1. OneForm'
  BY DEF PasswordInv, OneForm, Handles
<1>2. Bounded'
  <2>1. /\ \A h \in Challenges : challenge[h].password \in Nat
        /\ \A c \in Codes : shown[c] \in Nat
    BY DEF PasswordInv, LoginTypeOK, Challenge, Drawable, None
  <2> QED BY <1>0, <2>1 DEF PasswordInv, Bounded
<1>3. MailsDistinct' /\ Unused' /\ OneCodePerPassword'
  BY DEF PasswordInv, MailsDistinct, Unused, OneCodePerPassword
<1>4. FormFits'
  BY DEF PasswordInv, FormFits, Matches
<1>5. Spent'
  BY DEF PasswordInv, Spent
<1>6. CodesMailed'
  BY DEF PasswordInv, CodesMailed
<1> QED BY <1>1, <1>2, <1>3, <1>4, <1>5, <1>6 DEF PasswordInv

LEMMA PasswordMail ==
  ASSUME PasswordInv, LoginTypeOK', NEW r \in LoginThreads, StartMail(r)
  PROVE  PasswordInv'
<1> DEFINE h == loginReq[r].challenge
           p == loginReq[r].password
           u == loginReq[r].customer
<1>1. /\ h \in Challenges /\ p \in Drawable /\ u \in Customers
      /\ loginReq[r].at = "attached"
  BY LoginShapes DEF StartMail, PasswordInv, Mailing
<1>2. challenge[h].password = p /\ challenge[h].customer = u
  BY <1>1 DEF PasswordInv, FormFits, Matches
<1>3. /\ loginReq'[r].at = "free"
      /\ \A s \in LoginThreads \ {r} : loginReq'[s] = loginReq[s]
      /\ UNCHANGED <<challenge, authCode, drawn, shown>>
  BY DEF StartMail, Responds, Then, PasswordInv, LoginTypeOK
<1>4. \A v \in Customers : mail'[v] = mail[v] \/ (v = u /\ mail'[v] = mail[v] \cup {p})
  BY <1>1 DEF StartMail, PasswordInv, LoginTypeOK
<1>5. MailFits'
  BY <1>1, <1>2, <1>3, <1>4 DEF PasswordInv, MailFits, MailsDistinct, Drawable, None
<1>6. p <= drawn
  BY <1>1, <1>2 DEF PasswordInv, Bounded
<1>7. \A v \in Customers : mail[v] \subseteq mail'[v] /\ \A q \in mail'[v] : q <= drawn'
  BY <1>3, <1>4, <1>6 DEF PasswordInv, Bounded
<1>8. drawn <= drawn'
  BY <1>3, LoginAssumption DEF PasswordInv, LoginTypeOK, LoginAssumption
<1> HIDE DEF h, p, u
<1> QED BY <1>1, <1>3, <1>5, <1>7, <1>8, PasswordLeft

LEMMA PasswordAttach ==
  ASSUME PasswordInv, LoginTypeOK', NEW r \in LoginThreads, StartAttach(r)
  PROVE  PasswordInv'
<1> DEFINE h == loginReq[r].challenge
           p == drawn + 1
<1>1. h \in Challenges /\ drawn \in Nat /\ drawn' = p
  BY LoginShapes, LoginAssumption DEF StartAttach, PasswordInv, LoginTypeOK, LoginAssumption
<1>2. UNCHANGED <<authCode, mail, shown>> /\ loginReq[r].at = "found"
  BY DEF StartAttach
<1>3. /\ \A k \in Challenges : challenge[k].password \in Nat /\ challenge[k].password < p
      /\ \A u \in Customers : \A q \in mail[u] : q \in Nat /\ q < p
      /\ \A c \in Codes : shown[c] \in Nat /\ shown[c] < p
  BY <1>1 DEF PasswordInv, Bounded, LoginTypeOK, Challenge, Drawable, None
<1>4. CASE challenge[h].state # "open"
  <2>1. /\ loginReq'[r].at = "free" /\ UNCHANGED challenge
        /\ \A s \in LoginThreads \ {r} : loginReq'[s] = loginReq[s]
    BY <1>4 DEF StartAttach, Responds, Then, PasswordInv, LoginTypeOK
  <2>2. MailFits'
    BY <1>2, <2>1 DEF PasswordInv, MailFits
  <2>3. \A u \in Customers : mail[u] \subseteq mail'[u] /\ \A q \in mail'[u] : q <= drawn'
    BY <1>1, <1>2, <1>3
  <2> QED BY <1>1, <1>2, <2>1, <2>2, <2>3, PasswordLeft
<1>5. CASE challenge[h].state = "open"
  <2>1. /\ challenge'[h].state = "open" /\ challenge'[h].password = p
        /\ challenge'[h].customer = loginReq[r].customer
        /\ \A k \in Challenges \ {h} : challenge'[k] = challenge[k]
        /\ loginReq'[r].at = "attached" /\ loginReq'[r].challenge = h
        /\ loginReq'[r].customer = loginReq[r].customer /\ loginReq'[r].password = p
        /\ \A s \in LoginThreads \ {r} : loginReq'[s] = loginReq[s]
    BY <1>5, AttachDone DEF PasswordInv
  <2>2. \A s \in LoginThreads \ {r} :
          loginReq[s].at \notin {"free", "consumed"} => loginReq[s].challenge \in Challenges \ {h}
    BY <1>1, <1>2, LoginShapes DEF PasswordInv, OneForm, Handles
  <2> HIDE DEF h, p
  <2>3. OneForm'
    BY <2>1, <2>2 DEF PasswordInv, OneForm, Handles
  <2>4. Bounded'
    <3>1. /\ \A k \in Challenges : challenge'[k].password <= p
          /\ \A u \in Customers : \A q \in mail'[u] : q <= p
          /\ \A c \in Codes : shown'[c] <= p
      BY <1>1, <1>2, <1>3, <2>1 DEF p
    <3> QED BY <1>1, <3>1 DEF Bounded
  <2>5. MailsDistinct' /\ Unused' /\ MailFits'
    <3>1. \A k \in Challenges : challenge[k].password # p
      BY <1>1, <1>3 DEF p
    <3>2. \A u \in Customers : p \notin mail[u]
      BY <1>1, <1>3 DEF p
    <3>3. MailsDistinct'
      BY <2>1, <3>1 DEF PasswordInv, MailsDistinct
    <3>4. Unused'
      BY <2>1 DEF PasswordInv, Unused
    <3>5. MailFits'
      BY <1>2, <2>1, <3>2 DEF PasswordInv, MailFits
    <3> QED BY <3>3, <3>4, <3>5
  <2>6. FormFits'
    BY <1>2, <2>1, <2>2 DEF PasswordInv, FormFits, Matches
  <2>7. Spent'
    <3>1. \A c \in Codes : shown'[c] # p
      BY <1>1, <1>2, <1>3 DEF p
    <3> QED BY <1>2, <2>1, <3>1 DEF PasswordInv, Spent
  <2>8. CodesMailed' /\ OneCodePerPassword'
    BY <1>2 DEF PasswordInv, CodesMailed, OneCodePerPassword
  <2> QED BY <2>3, <2>4, <2>5, <2>6, <2>7, <2>8 DEF PasswordInv
<1> QED BY <1>4, <1>5

\* The code goes to the customer of the challenge: who was mailed its password.
LEMMA PasswordIssue ==
  ASSUME PasswordInv, LoginTypeOK', NEW r \in LoginThreads, NEW c \in Codes, VerifyIssue(r, c)
  PROVE  PasswordInv'
<1> DEFINE h == loginReq[r].challenge
           p == loginReq[r].password
<1>1. /\ h \in Challenges /\ p \in Drawable
      /\ authCode'[c] = [state |-> "valid", customer |-> challenge[h].customer]
      /\ shown'[c] = p
      /\ \A d \in Codes \ {c} : authCode'[d] = authCode[d] /\ shown'[d] = shown[d]
      /\ loginReq'[r].at = "issued" /\ loginReq'[r].challenge = h
      /\ loginReq'[r].password = p
      /\ \A s \in LoginThreads \ {r} : loginReq'[s] = loginReq[s]
  BY IssueDone DEF PasswordInv
<1>2. UNCHANGED <<challenge, mail, drawn>> /\ loginReq[r].at = "passed"
  BY DEF VerifyIssue
<1>3. /\ challenge[h].password = p
      /\ \E u \in Customers : p \in mail[u]
      /\ \A d \in Codes : shown[d] # p
  BY <1>2 DEF PasswordInv, FormFits, Matches
<1> HIDE DEF h, p
<1>4. challenge[h].customer \in Customers /\ p \in mail[challenge[h].customer]
  BY <1>1, <1>3 DEF PasswordInv, MailFits
<1>5. OneForm'
  BY <1>1, <1>2 DEF PasswordInv, OneForm, Handles, h
<1>6. Bounded' /\ MailsDistinct' /\ MailFits' /\ Unused'
  BY <1>1, <1>2, <1>3 DEF PasswordInv, Bounded, MailsDistinct, MailFits, Unused
<1>7. FormFits'
  <2>1. ASSUME NEW s \in LoginThreads \ {r}, loginReq[s].at = "passed"
        PROVE  loginReq[s].password # p
    <3>1. loginReq[s].challenge \in Challenges
      BY <2>1, LoginShapes DEF PasswordInv
    <3>2. loginReq[s].challenge # h
      BY <1>1, <1>2, <2>1, <3>1 DEF PasswordInv, OneForm, Handles, h
    <3>3. challenge[loginReq[s].challenge].password = loginReq[s].password
      BY <2>1 DEF PasswordInv, FormFits, Matches
    <3> QED BY <1>1, <1>3, <3>1, <3>2, <3>3 DEF PasswordInv, MailsDistinct, Drawable, None
  <2> QED BY <1>1, <1>2, <1>3, <2>1 DEF PasswordInv, FormFits, Matches
<1>8. Spent'
  BY <1>1, <1>2, <1>3 DEF PasswordInv, Spent, MailsDistinct, Drawable, None
<1>9. CodesMailed'
  BY <1>1, <1>2, <1>4 DEF PasswordInv, CodesMailed
<1>10. OneCodePerPassword'
  BY <1>1, <1>3 DEF PasswordInv, OneCodePerPassword
<1> QED BY <1>5, <1>6, <1>7, <1>8, <1>9, <1>10 DEF PasswordInv

\* Time only ends challenges, codes and requests; what stays goes by the same passwords.
LEMMA PasswordGone ==
  ASSUME PasswordInv, LoginTypeOK',
         UNCHANGED <<mail, drawn, shown>>,
         \A h \in Challenges :
           /\ challenge'[h].password = challenge[h].password
           /\ challenge'[h].customer = challenge[h].customer
           /\ challenge'[h].state = "none" => challenge'[h].password = None
           /\ challenge[h].state = "gone" => challenge'[h].state = "gone",
         \A c \in Codes : authCode'[c].state # "none" =>
           authCode[c].state # "none" /\ authCode'[c].customer = authCode[c].customer,
         \A r \in LoginThreads : \/ loginReq'[r].at = "free" \/ loginReq'[r] = loginReq[r],
         \A r \in LoginThreads : loginReq[r].at = "issued" =>
           loginReq'[r] = loginReq[r] \/ challenge'[loginReq[r].challenge].state = "gone"
  PROVE  PasswordInv'
<1>1. OneForm'
  BY DEF PasswordInv, OneForm, Handles
<1>2. Bounded' /\ MailsDistinct' /\ MailFits' /\ Unused' /\ OneCodePerPassword'
  BY DEF PasswordInv, Bounded, MailsDistinct, MailFits, Unused, OneCodePerPassword
<1>3. FormFits'
  <2>1. \A r \in LoginThreads : loginReq[r].at \in {"attached", "passed", "issued"}
          => loginReq[r].challenge \in Challenges
    BY LoginShapes DEF PasswordInv
  <2> QED BY <2>1 DEF PasswordInv, FormFits, Matches
<1>4. Spent'
  BY DEF PasswordInv, Spent
<1>5. CodesMailed'
  BY DEF PasswordInv, CodesMailed
<1> QED BY <1>1, <1>2, <1>3, <1>4, <1>5 DEF PasswordInv

LEMMA PasswordStep ==
  ASSUME CarefulCustomer, PasswordInv, [BankLoginNext]_loginVars
  PROVE  PasswordInv'
<1>0. LoginTypeOK' /\ LoginTypeOK
  BY TypingStep DEF PasswordInv
<1>1. ASSUME NEW r \in LoginThreads, NEW h \in Challenges,
             \/ \E u \in Customers : StartLookup(r, h, u)
             \/ \E p \in Drawable : VerifyCheck(r, h, p)
      PROVE  PasswordInv'
  BY <1>0, <1>1, PasswordTaken
<1>2. ASSUME NEW r \in LoginThreads, StartAttach(r) \/ StartMail(r) PROVE PasswordInv'
  BY <1>0, <1>2, PasswordAttach, PasswordMail
<1>3. ASSUME NEW r \in LoginThreads, NEW c \in Codes, VerifyIssue(r, c) PROVE PasswordInv'
  BY <1>0, <1>3, PasswordIssue
<1>4. ASSUME NEW r \in LoginThreads, VerifyPop(r) PROVE PasswordInv'
  <2>1. /\ loginReq'[r].at = "free" /\ loginReq[r].challenge \in Challenges
        /\ \A s \in LoginThreads \ {r} : loginReq'[s] = loginReq[s]
    BY <1>0, <1>4, LoginShapes DEF VerifyPop, Responds, Then, LoginTypeOK
  <2>2. \A h \in Challenges :
          /\ challenge'[h].password = challenge[h].password
          /\ challenge'[h].customer = challenge[h].customer
          /\ challenge'[h].state =
               IF h = loginReq[r].challenge THEN "gone" ELSE challenge[h].state
    BY <1>0, <1>4, <2>1 DEF VerifyPop, LoginTypeOK, Challenge
  <2>3. UNCHANGED <<authCode, mail, drawn, shown>>
    BY <1>4 DEF VerifyPop
  <2> QED BY <1>0, <2>1, <2>2, <2>3, PasswordGone DEF PasswordInv, Unused
<1>5. ASSUME NEW r \in LoginThreads,
             (\E c \in Codes : TokenConsume(r, c)) \/ TokenIssue(r)
      PROVE  PasswordInv'
  <2>1. /\ UNCHANGED <<challenge, mail, drawn, shown>>
        /\ loginReq[r].at \in {"free", "consumed"} /\ loginReq'[r].at \in {"free", "consumed"}
        /\ \A s \in LoginThreads \ {r} : loginReq'[s] = loginReq[s]
    BY <1>0, <1>5 DEF TokenConsume, TokenIssue, Serves, Responds, Then, LoginTypeOK
  <2>2. \A c \in Codes : authCode'[c].state # "none" =>
          authCode[c].state # "none" /\ authCode'[c].customer = authCode[c].customer
    <3>1. CASE TokenIssue(r)
      BY <3>1 DEF TokenIssue
    <3>2. ASSUME NEW c \in Codes, TokenConsume(r, c)
          PROVE  \A d \in Codes : authCode'[d].state # "none" =>
                   authCode[d].state # "none" /\ authCode'[d].customer = authCode[d].customer
      <4>1. authCode[c] \in AuthCode /\ authCode[c].state = "valid"
        BY <1>0, <3>2 DEF TokenConsume, LoginTypeOK
      <4>2. /\ authCode'[c] = [authCode[c] EXCEPT !.state = "used"]
            /\ \A d \in Codes \ {c} : authCode'[d] = authCode[d]
        BY <1>0, <3>2 DEF TokenConsume, LoginTypeOK
      <4> QED BY <4>1, <4>2 DEF AuthCode
    <3> QED BY <1>5, <3>1, <3>2
  <2>3. MailFits'
    BY <2>1 DEF PasswordInv, MailFits
  <2>4. \A u \in Customers : mail[u] \subseteq mail'[u] /\ \A p \in mail'[u] : p <= drawn'
    BY <2>1 DEF PasswordInv, Bounded
  <2>5. drawn <= drawn'
    BY <1>0, <2>1, LoginAssumption DEF LoginTypeOK, LoginAssumption
  <2> QED BY <1>0, <2>1, <2>2, <2>3, <2>4, <2>5, PasswordLeft
<1>6. ASSUME NEW h \in Challenges, BeginLogin(h) \/ ChallengeExpires(h) \/ PasswordExpires(h)
      PROVE  PasswordInv'
  <2>1. UNCHANGED <<authCode, mail, drawn, shown, loginReq>>
    BY <1>6 DEF BeginLogin, ChallengeExpires, PasswordExpires
  <2>2. \A k \in Challenges :
          /\ challenge'[k].password = challenge[k].password
          /\ challenge'[k].customer = challenge[k].customer
          /\ challenge'[k].state = "none" => challenge[k].state = "none"
          /\ challenge[k].state = "gone" => challenge'[k].state = "gone"
    <3>1. \A k \in Challenges \ {h} : challenge'[k] = challenge[k]
      BY <1>0, <1>6 DEF BeginLogin, ChallengeExpires, PasswordExpires, LoginTypeOK
    <3>2. CASE BeginLogin(h)
      BY <1>0, <3>1, <3>2 DEF BeginLogin, NoChallenge, LoginTypeOK
    <3>3. CASE ChallengeExpires(h)
      BY <1>0, <3>1, <3>3 DEF ChallengeExpires, LoginTypeOK, Challenge
    <3>4. CASE PasswordExpires(h)
      BY <1>0, <3>1, <3>4 DEF PasswordExpires, LoginTypeOK, Challenge
    <3> QED BY <1>6, <3>2, <3>3, <3>4
  <2> QED BY <1>0, <2>1, <2>2, PasswordGone DEF PasswordInv, Unused
<1>7. ASSUME NEW c \in Codes, CodeExpires(c) PROVE PasswordInv'
  <2>1. UNCHANGED <<challenge, mail, drawn, shown, loginReq>>
    BY <1>7 DEF CodeExpires
  <2>2. \A d \in Codes : authCode'[d].state # "none" =>
          authCode[d].state # "none" /\ authCode'[d].customer = authCode[d].customer
    BY <1>0, <1>7 DEF CodeExpires, LoginTypeOK, AuthCode
  <2> QED BY <1>0, <2>1, <2>2, PasswordGone DEF PasswordInv, Unused
<1>8. CASE BankRestarts
  <2>1. UNCHANGED <<mail, drawn, shown>> /\ \A r \in LoginThreads : loginReq'[r].at = "free"
    BY <1>8 DEF BankRestarts
  <2>2. ASSUME NEW h \in Challenges
        PROVE  /\ challenge'[h].password = challenge[h].password
               /\ challenge'[h].customer = challenge[h].customer
               /\ challenge'[h].state =
                    IF challenge[h].state = "open" THEN "gone" ELSE challenge[h].state
    <3>1. challenge[h] \in Challenge
      BY <1>0 DEF LoginTypeOK
    <3>2. challenge'[h] = IF challenge[h].state = "open"
                          THEN [challenge[h] EXCEPT !.state = "gone"] ELSE challenge[h]
      BY <1>8 DEF BankRestarts
    <3> QED BY <3>1, <3>2 DEF Challenge
  <2>3. ASSUME NEW c \in Codes, authCode'[c].state # "none"
        PROVE  authCode[c].state # "none" /\ authCode'[c].customer = authCode[c].customer
    <3>1. authCode[c] \in AuthCode
      BY <1>0 DEF LoginTypeOK
    <3>2. authCode'[c] = IF authCode[c].state = "valid"
                         THEN [authCode[c] EXCEPT !.state = "expired"] ELSE authCode[c]
      BY <1>8 DEF BankRestarts
    <3> QED BY <2>3, <3>1, <3>2 DEF AuthCode
  <2>4. \A h \in Challenges : challenge'[h].state = "none" => challenge'[h].password = None
    BY <2>2 DEF PasswordInv, Unused
  <2>5. \A r \in LoginThreads : loginReq[r].at = "issued" =>
          challenge'[loginReq[r].challenge].state = "gone"
    <3>1. ASSUME NEW r \in LoginThreads, loginReq[r].at = "issued"
          PROVE  challenge[loginReq[r].challenge].state # "none"
      <4>1. loginReq[r].challenge \in Challenges /\ loginReq[r].password # None
        BY <1>0, <3>1, LoginShapes DEF Verifying, Drawable, None
      <4> QED BY <3>1, <4>1 DEF PasswordInv, FormFits, Matches, Unused
    <3>2. \A r \in LoginThreads : loginReq[r].at = "issued" =>
            /\ loginReq[r].challenge \in Challenges
            /\ challenge[loginReq[r].challenge].state \in {"none", "open", "gone"}
      BY <1>0, LoginShapes DEF LoginTypeOK, Challenge
    <3> QED BY <2>2, <3>1, <3>2
  <2> QED BY <1>0, <2>1, <2>2, <2>3, <2>4, <2>5, PasswordGone
<1>9. CASE UNCHANGED loginVars
  BY <1>0, <1>9, PasswordGone DEF loginVars, PasswordInv, Unused
<1> QED BY <1>1, <1>2, <1>3, <1>4, <1>5, <1>6, <1>7, <1>8, <1>9 DEF BankLoginNext

\* If the forms of one login are sent one after another, a login ends with at most
\* one token, of the customer who was mailed the password that was typed: also when
\* it is begun anew for somebody else, a mail fails, things expire or the bank restarts.
THEOREM LoginEndsAsMailed ==
  ASSUME CarefulCustomer
  PROVE  BankLoginSpec => []LoginAsMailed
<1>1. PasswordInv /\ CodeTokensInv => LoginAsMailed
  BY DEF PasswordInv, CodesMailed, CodeOfWhoWasMailed, CodeTokensInv, OneTokenPerCode, LoginAsMailed
<1>2. PasswordInv /\ [BankLoginNext]_loginVars => PasswordInv'
  BY PasswordStep
<1>3. LoginTypeOK /\ CodeTokensInv /\ [BankLoginNext]_loginVars => CodeTokensInv'
  BY TokenInvStep
<1> QED BY <1>1, <1>2, <1>3, TypingInit, TypingStep, PasswordInit, TokenInvInit,
        PTL DEF BankLoginSpec

(***************************************************************************)
(* Events, pushes and backfills                                            *)
(***************************************************************************)

InHand(r) == feedReq[r].at # "free"

\* What is in the application, on its way there, or lost with a push or a process.
Arrived == landed \cup Queued \cup lost

\* A push is about an event of its holder, and what a request works on is linked, and
\* known, as far as it has come.
RequestsFit ==
  \A r \in FeedThreads : InHand(r) =>
    LET e == feedReq[r].event  a == feedReq[r].holder IN
    /\ e # NoPush => event[e].state # "none" /\ event[e].of = a
    /\ feedReq[r].at \in {"committed", "discovering", "enqueueing"} => e # NoPush
    /\ feedReq[r].at \in {"discovering", "persisting", "listing"} => a \in connected
    /\ feedReq[r].at \in {"listing", "enqueueing"} => a \in known

\* A push that discovers an account began before the account was known: if another
\* request's backfill has been done since, it has listed the event.
DiscoveredListed ==
  \A r \in FeedThreads : feedReq[r].at = "discovering" /\ feedReq[r].holder \in backfilled =>
    (event[feedReq[r].event].state = "recorded" => feedReq[r].event \in Arrived)

FeedInv == FeedTypeOK /\ RequestsFit /\ DiscoveredListed /\ FeedAsRecorded

\* An ingestion that is enqueued adds its batch to what is queued ...
LEMMA QueuedMore ==
  ASSUME NEW more, batches' = batches \cup {more}
  PROVE  Queued' = Queued \cup more
BY DEF Queued

\* ... and one that is taken takes no more than its batch.
LEMMA QueuedLess ==
  ASSUME NEW batch \in batches, batches' = batches \ {batch}
  PROVE  Queued' \subseteq Queued /\ batch \subseteq Queued /\ Queued \subseteq Queued' \cup batch
BY DEF Queued

LEMMA SimulateCustomerKeeps ==
  ASSUME FeedAssumption, FeedInv,
         NEW a \in Holders, SimulateCustomer(a)
  PROVE  FeedInv'
<1>. Queued' = Queued
  BY DEF SimulateCustomer, Queued, bankVars, appVars
<1>1. FeedTypeOK'
  BY DEF SimulateCustomer, FeedInv, FeedTypeOK, appVars
<1>2. RequestsFit'
  BY DEF SimulateCustomer, FeedInv, RequestsFit, InHand, appVars
<1>3. DiscoveredListed'
  BY DEF SimulateCustomer, FeedInv, DiscoveredListed, Arrived, appVars
<1>4. FeedComplete'
  BY DEF SimulateCustomer, FeedInv, FeedAsRecorded, FeedComplete, UnderWay, RecordedOf,
    appVars
<1>5. DeliveredArrives'
  BY DEF SimulateCustomer, FeedInv, FeedAsRecorded, DeliveredArrives, appVars
<1>6. LandedIsRecorded'
  BY DEF SimulateCustomer, FeedInv, FeedAsRecorded, LandedIsRecorded, appVars
<1>. QED
  BY <1>1, <1>2, <1>3, <1>4, <1>5, <1>6 DEF FeedInv, FeedAsRecorded

LEMMA DeleteCustomerKeeps ==
  ASSUME FeedAssumption, FeedInv,
         NEW a \in Holders, DeleteCustomer(a)
  PROVE  FeedInv'
<1>. Queued' = Queued
  BY DEF DeleteCustomer, Queued, bankVars, appVars
<1>1. FeedTypeOK'
  BY DEF DeleteCustomer, FeedInv, FeedTypeOK, Event, appVars
<1>2. RequestsFit'
  BY DEF DeleteCustomer, FeedInv, FeedTypeOK, RequestsFit, InHand, FeedRequest, appVars
<1>3. DiscoveredListed'
  BY DEF DeleteCustomer, FeedInv, FeedTypeOK, RequestsFit, DiscoveredListed, InHand, Arrived,
    FeedRequest, appVars
<1>4. FeedComplete'
  BY DEF DeleteCustomer, FeedInv, FeedAsRecorded, FeedComplete, UnderWay, RecordedOf, appVars
<1>5. DeliveredArrives'
  BY DEF DeleteCustomer, FeedInv, FeedAsRecorded, DeliveredArrives, appVars
<1>6. LandedIsRecorded'
  <2>1. \A e \in Events : event[e].state # "none" => event'[e].state # "none" /\ event'[e].of = event[e].of
    BY DEF DeleteCustomer, FeedInv, FeedTypeOK, Event, RecordedOf
  <2>2. landed \cup Queued \subseteq Events
    BY DEF FeedInv, FeedTypeOK, Queued
  <2>. QED
    BY <2>1, <2>2 DEF DeleteCustomer, FeedInv, FeedAsRecorded, LandedIsRecorded, appVars
<1>. QED
  BY <1>1, <1>2, <1>3, <1>4, <1>5, <1>6 DEF FeedInv, FeedAsRecorded

LEMMA IngestKeeps ==
  ASSUME FeedAssumption, FeedInv,
         NEW batch \in batches, Ingest(batch)
  PROVE  FeedInv'
<1>. Queued' \subseteq Queued /\ batch \subseteq Queued /\ Queued \subseteq Queued' \cup batch
  BY QueuedLess DEF Ingest
<1>1. FeedTypeOK'
  BY DEF Ingest, FeedInv, FeedTypeOK, bankVars
<1>2. RequestsFit'
  BY DEF Ingest, FeedInv, RequestsFit, InHand, bankVars
<1>3. DiscoveredListed'
  BY DEF Ingest, FeedInv, DiscoveredListed, Arrived, bankVars
<1>4. FeedComplete'
  BY DEF Ingest, FeedInv, FeedAsRecorded, FeedComplete, UnderWay, RecordedOf, bankVars
<1>5. DeliveredArrives'
  BY DEF Ingest, FeedInv, FeedAsRecorded, DeliveredArrives
<1>6. LandedIsRecorded'
  BY DEF Ingest, FeedInv, FeedAsRecorded, LandedIsRecorded, bankVars
<1>. QED
  BY <1>1, <1>2, <1>3, <1>4, <1>5, <1>6 DEF FeedInv, FeedAsRecorded

LEMMA WorkerDiesKeeps ==
  ASSUME FeedAssumption, FeedInv,
         NEW batch \in batches, WorkerDies(batch)
  PROVE  FeedInv'
<1>. Queued' \subseteq Queued /\ batch \subseteq Queued /\ Queued \subseteq Queued' \cup batch
  BY QueuedLess DEF WorkerDies
<1>1. FeedTypeOK'
  BY DEF WorkerDies, FeedInv, FeedTypeOK, bankVars
<1>2. RequestsFit'
  BY DEF WorkerDies, FeedInv, RequestsFit, InHand, bankVars
<1>3. DiscoveredListed'
  BY DEF WorkerDies, FeedInv, DiscoveredListed, Arrived, bankVars
<1>4. FeedComplete'
  BY DEF WorkerDies, FeedInv, FeedAsRecorded, FeedComplete, UnderWay, RecordedOf, bankVars
<1>5. DeliveredArrives'
  BY DEF WorkerDies, FeedInv, FeedAsRecorded, DeliveredArrives
<1>6. LandedIsRecorded'
  BY DEF WorkerDies, FeedInv, FeedAsRecorded, LandedIsRecorded, bankVars
<1>. QED
  BY <1>1, <1>2, <1>3, <1>4, <1>5, <1>6 DEF FeedInv, FeedAsRecorded

LEMMA SimulateTransactionKeeps ==
  ASSUME FeedAssumption, FeedInv,
         NEW r \in FeedThreads, NEW e \in Events, NEW a \in Holders, SimulateTransaction(r, e, a)
  PROVE  FeedInv'
<1>. Queued' = Queued
  BY DEF SimulateTransaction, Queued, bankVars, appVars
<1>1. FeedTypeOK'
  BY DEF SimulateTransaction, FeedInv, FeedTypeOK, Event, FeedStages, FeedRequest, Receives,
    appVars
<1>2. RequestsFit'
  BY DEF SimulateTransaction, FeedInv, FeedTypeOK, RequestsFit, InHand, NoEvent, Receives,
    appVars
<1>3. DiscoveredListed'
  BY DEF SimulateTransaction, FeedInv, RequestsFit, DiscoveredListed, InHand, Arrived, NoEvent,
    Receives, appVars
<1>4. FeedComplete'
  BY DEF SimulateTransaction, FeedInv, FeedTypeOK, FeedAsRecorded, FeedComplete, UnderWay,
    RecordedOf, Receives, appVars
<1>5. DeliveredArrives'
  BY DEF SimulateTransaction, FeedInv, FeedAsRecorded, DeliveredArrives, appVars
<1>6. LandedIsRecorded'
  BY DEF SimulateTransaction, FeedInv, FeedAsRecorded, LandedIsRecorded, NoEvent, appVars
<1>. QED
  BY <1>1, <1>2, <1>3, <1>4, <1>5, <1>6 DEF FeedInv, FeedAsRecorded

LEMMA LinkConnectionKeeps ==
  ASSUME FeedAssumption, FeedInv,
         NEW r \in FeedThreads, NEW a \in Holders, LinkConnection(r, a)
  PROVE  FeedInv'
<1>. Queued' = Queued
  BY DEF LinkConnection, Queued, bankVars, appVars
<1>1. FeedTypeOK'
  BY DEF LinkConnection, FeedInv, FeedTypeOK, FeedStages, FeedRequest, Receives, bankVars
<1>2. RequestsFit'
  BY DEF LinkConnection, FeedInv, RequestsFit, InHand, Receives, bankVars
<1>3. DiscoveredListed'
  BY DEF LinkConnection, FeedInv, DiscoveredListed, Arrived, Receives, bankVars
<1>4. FeedComplete'
  BY DEF LinkConnection, FeedInv, FeedAsRecorded, FeedComplete, UnderWay, RecordedOf,
    Receives, bankVars
<1>5. DeliveredArrives'
  BY DEF LinkConnection, FeedInv, FeedAsRecorded, DeliveredArrives
<1>6. LandedIsRecorded'
  BY DEF LinkConnection, FeedInv, FeedAsRecorded, LandedIsRecorded, bankVars
<1>. QED
  BY <1>1, <1>2, <1>3, <1>4, <1>5, <1>6 DEF FeedInv, FeedAsRecorded

LEMMA LoginAgainKeeps ==
  ASSUME FeedAssumption, FeedInv,
         NEW r \in FeedThreads, NEW a \in Holders, LoginAgain(r, a)
  PROVE  FeedInv'
<1>. Queued' = Queued
  BY DEF LoginAgain, Queued, bankVars, appVars
<1>1. FeedTypeOK'
  BY DEF LoginAgain, FeedInv, FeedTypeOK, FeedStages, FeedRequest, Receives, bankVars, appVars
<1>2. RequestsFit'
  BY DEF LoginAgain, FeedInv, RequestsFit, InHand, Receives, bankVars, appVars
<1>3. DiscoveredListed'
  BY DEF LoginAgain, FeedInv, DiscoveredListed, Arrived, Receives, bankVars, appVars
<1>4. FeedComplete'
  BY DEF LoginAgain, FeedInv, FeedAsRecorded, FeedComplete, UnderWay, RecordedOf, Receives,
    bankVars, appVars
<1>5. DeliveredArrives'
  BY DEF LoginAgain, FeedInv, FeedAsRecorded, DeliveredArrives, appVars
<1>6. LandedIsRecorded'
  BY DEF LoginAgain, FeedInv, FeedAsRecorded, LandedIsRecorded, bankVars, appVars
<1>. QED
  BY <1>1, <1>2, <1>3, <1>4, <1>5, <1>6 DEF FeedInv, FeedAsRecorded

LEMMA PushFailsKeeps ==
  ASSUME FeedAssumption, FeedInv,
         NEW r \in FeedThreads, PushFails(r)
  PROVE  FeedInv'
<1>. Queued' = Queued
  BY DEF PushFails, Queued, bankVars, appVars
<1>1. FeedTypeOK'
  BY DEF PushFails, FeedInv, FeedTypeOK, RequestsFit, InHand, FeedRequest, Closes, Tells,
    bankVars, appVars
<1>2. RequestsFit'
  BY DEF PushFails, FeedInv, RequestsFit, InHand, Closes, bankVars, appVars
<1>3. DiscoveredListed'
  BY DEF PushFails, FeedInv, DiscoveredListed, Arrived, Closes, bankVars, appVars
<1>4. FeedComplete'
  BY DEF PushFails, FeedInv, FeedAsRecorded, FeedComplete, UnderWay, RecordedOf, Closes,
    bankVars, appVars
<1>5. DeliveredArrives'
  BY DEF PushFails, FeedInv, FeedAsRecorded, DeliveredArrives, Tells, appVars
<1>6. LandedIsRecorded'
  BY DEF PushFails, FeedInv, FeedAsRecorded, LandedIsRecorded, bankVars, appVars
<1>. QED
  BY <1>1, <1>2, <1>3, <1>4, <1>5, <1>6 DEF FeedInv, FeedAsRecorded

LEMMA PushArrivesKeeps ==
  ASSUME FeedAssumption, FeedInv,
         NEW r \in FeedThreads, PushArrives(r)
  PROVE  FeedInv'
<1>. Queued' = Queued
  BY DEF PushArrives, Queued, bankVars, appVars
<1>1. FeedTypeOK'
  BY DEF PushArrives, FeedInv, FeedTypeOK, FeedStages, FeedRequest, Passes, Closes, Tells,
    bankVars, appVars
<1>2. RequestsFit'
  BY DEF PushArrives, FeedInv, FeedTypeOK, RequestsFit, InHand, FeedRequest, Passes, Closes,
    bankVars, appVars
<1>3. DiscoveredListed'
  BY DEF PushArrives, FeedInv, FeedTypeOK, DiscoveredListed, Arrived, FeedRequest, Passes,
    Closes, bankVars, appVars
<1>4. FeedComplete'
  BY DEF PushArrives, FeedInv, FeedTypeOK, RequestsFit, FeedAsRecorded, FeedComplete, InHand,
    UnderWay, RecordedOf, FeedRequest, Passes, Closes, HandsOn, bankVars, appVars
<1>5. DeliveredArrives'
  BY DEF PushArrives, FeedInv, FeedTypeOK, FeedAsRecorded, DeliveredArrives, Tells, appVars
<1>6. LandedIsRecorded'
  BY DEF PushArrives, FeedInv, FeedAsRecorded, LandedIsRecorded, bankVars, appVars
<1>. QED
  BY <1>1, <1>2, <1>3, <1>4, <1>5, <1>6 DEF FeedInv, FeedAsRecorded

LEMMA DiscoverKeeps ==
  ASSUME FeedAssumption, FeedInv,
         NEW r \in FeedThreads, Discover(r)
  PROVE  FeedInv'
<1>. Queued' = Queued
  BY DEF Discover, Queued, bankVars, appVars
<1>1. FeedTypeOK'
  BY DEF Discover, FeedInv, FeedTypeOK, FeedStages, FeedRequest, Passes, Closes, Tells,
    bankVars, appVars
<1>2. RequestsFit'
  BY DEF Discover, FeedInv, FeedTypeOK, RequestsFit, InHand, FeedRequest, Passes, Closes,
    bankVars, appVars
<1>3. DiscoveredListed'
  BY DEF Discover, FeedInv, FeedTypeOK, DiscoveredListed, Arrived, FeedRequest, Passes,
    Closes, bankVars, appVars
<1>4. FeedComplete'
  BY DEF Discover, FeedInv, FeedTypeOK, RequestsFit, DiscoveredListed, FeedAsRecorded,
    FeedComplete, InHand, Arrived, UnderWay, RecordedOf, Passes, Closes, bankVars, appVars
<1>5. DeliveredArrives'
  BY DEF Discover, FeedInv, FeedTypeOK, FeedAsRecorded, DeliveredArrives, Tells, appVars
<1>6. LandedIsRecorded'
  BY DEF Discover, FeedInv, FeedAsRecorded, LandedIsRecorded, bankVars, appVars
<1>. QED
  BY <1>1, <1>2, <1>3, <1>4, <1>5, <1>6 DEF FeedInv, FeedAsRecorded

LEMMA PushEnqueuesKeeps ==
  ASSUME FeedAssumption, FeedInv,
         NEW r \in FeedThreads, PushEnqueues(r)
  PROVE  FeedInv'
<1>. Queued' = Queued \cup {feedReq[r].event}
  BY QueuedMore DEF PushEnqueues
<1>1. FeedTypeOK'
  BY DEF PushEnqueues, FeedInv, FeedTypeOK, RequestsFit, InHand, FeedRequest, Closes, Tells,
    bankVars
<1>2. RequestsFit'
  BY DEF PushEnqueues, FeedInv, RequestsFit, InHand, Closes, bankVars
<1>3. DiscoveredListed'
  BY DEF PushEnqueues, FeedInv, DiscoveredListed, Arrived, Closes, bankVars
<1>4. FeedComplete'
  BY DEF PushEnqueues, FeedInv, FeedAsRecorded, FeedComplete, UnderWay, RecordedOf, Closes,
    bankVars
<1>5. DeliveredArrives'
  BY DEF PushEnqueues, FeedInv, FeedAsRecorded, DeliveredArrives, Tells
<1>6. LandedIsRecorded'
  BY DEF PushEnqueues, FeedInv, RequestsFit, FeedAsRecorded, LandedIsRecorded, InHand, bankVars
<1>. QED
  BY <1>1, <1>2, <1>3, <1>4, <1>5, <1>6 DEF FeedInv, FeedAsRecorded

LEMMA PersistKeeps ==
  ASSUME FeedAssumption, FeedInv,
         NEW r \in FeedThreads, Persist(r)
  PROVE  FeedInv'
<1>. Queued' = Queued
  BY DEF Persist, Queued, bankVars, appVars
<1>1. FeedTypeOK'
  BY DEF Persist, FeedInv, FeedTypeOK, RequestsFit, InHand, FeedStages, FeedRequest, Passes,
    bankVars
<1>2. RequestsFit'
  BY DEF Persist, FeedInv, RequestsFit, InHand, Passes, bankVars
<1>3. DiscoveredListed'
  BY DEF Persist, FeedInv, DiscoveredListed, Arrived, Passes, bankVars
<1>4. FeedComplete'
  BY DEF Persist, FeedInv, FeedAsRecorded, FeedComplete, UnderWay, RecordedOf, Passes,
    bankVars
<1>5. DeliveredArrives'
  BY DEF Persist, FeedInv, FeedAsRecorded, DeliveredArrives
<1>6. LandedIsRecorded'
  BY DEF Persist, FeedInv, FeedAsRecorded, LandedIsRecorded, bankVars
<1>. QED
  BY <1>1, <1>2, <1>3, <1>4, <1>5, <1>6 DEF FeedInv, FeedAsRecorded

LEMMA BackfillKeeps ==
  ASSUME FeedAssumption, FeedInv,
         NEW r \in FeedThreads, Backfill(r)
  PROVE  FeedInv'
<1>. DEFINE a == feedReq[r].holder
<1>. Queued' = Queued \cup RecordedOf(a)
  <2>1. CASE RecordedOf(a) = {}
    BY <2>1 DEF Backfill, Queued
  <2>2. CASE RecordedOf(a) # {}
    BY <2>2, QueuedMore DEF Backfill
  <2>. QED
    BY <2>1, <2>2
<1>1. FeedTypeOK'
  BY DEF Backfill, FeedInv, FeedTypeOK, RequestsFit, InHand, RecordedOf, FeedStages,
    FeedRequest, Passes, Closes, HandsOn, bankVars
<1>2. RequestsFit'
  BY DEF Backfill, FeedInv, FeedTypeOK, RequestsFit, InHand, FeedRequest, Passes, Closes,
    HandsOn, bankVars
<1>3. DiscoveredListed'
  BY DEF Backfill, FeedInv, FeedTypeOK, RequestsFit, DiscoveredListed, InHand, Arrived,
    RecordedOf, FeedRequest, Passes, Closes, HandsOn, bankVars
<1>4. FeedComplete'
  <2>. SUFFICES ASSUME NEW b \in backfilled', NEW e \in RecordedOf(b)'
                PROVE  (e \in Arrived \/ UnderWay(e))'
    BY DEF FeedComplete, Arrived
  <2>1. event' = event /\ lost' = lost /\ landed' = landed /\ e \in RecordedOf(b)
    BY DEF Backfill, RecordedOf, bankVars
  <2>2. CASE b = a
    BY <2>1, <2>2 DEF Arrived
  <2>3. CASE b # a
    <3>1. b \in backfilled
      BY <2>3 DEF Backfill
    <3>2. e \in Arrived \/ UnderWay(e)
      BY <2>1, <3>1 DEF FeedInv, FeedAsRecorded, FeedComplete, Arrived
    <3>3. UnderWay(e) => UnderWay(e)'
      BY FeedAssumption DEF UnderWay, Backfill, HandsOn, Closes, Passes, RecordedOf, FeedInv,
        FeedTypeOK, FeedRequest
    <3>. QED
      BY <2>1, <3>2, <3>3 DEF Arrived
  <2>. QED
    BY <2>2, <2>3
<1>5. DeliveredArrives'
  BY DEF Backfill, FeedInv, FeedAsRecorded, DeliveredArrives
<1>6. LandedIsRecorded'
  BY DEF Backfill, FeedInv, RequestsFit, FeedAsRecorded, LandedIsRecorded, InHand, RecordedOf,
    bankVars
<1>. QED
  BY <1>1, <1>2, <1>3, <1>4, <1>5, <1>6 DEF FeedInv, FeedAsRecorded

LEMMA BackfillFailsKeeps ==
  ASSUME FeedAssumption, FeedInv,
         NEW r \in FeedThreads, BackfillFails(r)
  PROVE  FeedInv'
<1>. Queued' = Queued
  BY DEF BackfillFails, Queued, bankVars, appVars
<1>1. FeedTypeOK'
  BY DEF BackfillFails, FeedInv, FeedTypeOK, FeedStages, FeedRequest, Passes, Closes, HandsOn,
    bankVars, appVars
<1>2. RequestsFit'
  BY DEF BackfillFails, FeedInv, FeedTypeOK, RequestsFit, InHand, FeedRequest, Passes, Closes,
    HandsOn, bankVars, appVars
<1>3. DiscoveredListed'
  BY DEF BackfillFails, FeedInv, FeedTypeOK, DiscoveredListed, Arrived, FeedRequest, Passes,
    Closes, HandsOn, bankVars, appVars
<1>4. FeedComplete'
  BY DEF BackfillFails, FeedInv, FeedTypeOK, FeedAsRecorded, FeedComplete, UnderWay,
    RecordedOf, FeedRequest, Passes, Closes, HandsOn, bankVars, appVars
<1>5. DeliveredArrives'
  BY DEF BackfillFails, FeedInv, FeedAsRecorded, DeliveredArrives, appVars
<1>6. LandedIsRecorded'
  BY DEF BackfillFails, FeedInv, FeedAsRecorded, LandedIsRecorded, bankVars, appVars
<1>. QED
  BY <1>1, <1>2, <1>3, <1>4, <1>5, <1>6 DEF FeedInv, FeedAsRecorded

LEMMA RequestDiesKeeps ==
  ASSUME FeedAssumption, FeedInv,
         NEW r \in FeedThreads, RequestDies(r)
  PROVE  FeedInv'
<1>. Queued' = Queued
  BY DEF RequestDies, Queued, bankVars, appVars
<1>1. FeedTypeOK'
  BY DEF RequestDies, FeedInv, FeedTypeOK, FeedStages, FeedRequest, Closes, Tells, bankVars,
    appVars
<1>2. RequestsFit'
  BY DEF RequestDies, FeedInv, RequestsFit, InHand, Closes, bankVars, appVars
<1>3. DiscoveredListed'
  BY DEF RequestDies, FeedInv, DiscoveredListed, Arrived, Closes, bankVars, appVars
<1>4. FeedComplete'
  BY DEF RequestDies, FeedInv, FeedAsRecorded, FeedComplete, UnderWay, RecordedOf, Closes,
    bankVars, appVars
<1>5. DeliveredArrives'
  BY DEF RequestDies, FeedInv, FeedAsRecorded, DeliveredArrives, Tells, appVars
<1>6. LandedIsRecorded'
  BY DEF RequestDies, FeedInv, FeedAsRecorded, LandedIsRecorded, bankVars, appVars
<1>. QED
  BY <1>1, <1>2, <1>3, <1>4, <1>5, <1>6 DEF FeedInv, FeedAsRecorded

LEMMA FeedStart ==
  ASSUME FeedAssumption, FeedInit
  PROVE  FeedInv
BY DEF FeedInit, Queued, FeedInv, FeedTypeOK, RequestsFit, DiscoveredListed, FeedAsRecorded,
  FeedComplete, DeliveredArrives, LandedIsRecorded, InHand, Event, NoEvent

LEMMA FeedStep ==
  ASSUME FeedAssumption, FeedInv, [FeedNext]_feedVars
  PROVE  FeedInv'
<1>1. ASSUME NEW a \in Holders, SimulateCustomer(a) PROVE FeedInv'
  BY <1>1, SimulateCustomerKeeps
<1>2. ASSUME NEW a \in Holders, DeleteCustomer(a) PROVE FeedInv'
  BY <1>2, DeleteCustomerKeeps
<1>3. ASSUME NEW batch \in batches, Ingest(batch) PROVE FeedInv'
  BY <1>3, IngestKeeps
<1>4. ASSUME NEW batch \in batches, WorkerDies(batch) PROVE FeedInv'
  BY <1>4, WorkerDiesKeeps
<1>5. ASSUME NEW r \in FeedThreads, NEW e \in Events, NEW a \in Holders,
             SimulateTransaction(r, e, a)
      PROVE  FeedInv'
  BY <1>5, SimulateTransactionKeeps
<1>6. ASSUME NEW r \in FeedThreads, NEW a \in Holders, LinkConnection(r, a) PROVE FeedInv'
  BY <1>6, LinkConnectionKeeps
<1>7. ASSUME NEW r \in FeedThreads, NEW a \in Holders, LoginAgain(r, a) PROVE FeedInv'
  BY <1>7, LoginAgainKeeps
<1>8. ASSUME NEW r \in FeedThreads, PushFails(r) PROVE FeedInv'
  BY <1>8, PushFailsKeeps
<1>9. ASSUME NEW r \in FeedThreads, PushArrives(r) PROVE FeedInv'
  BY <1>9, PushArrivesKeeps
<1>10. ASSUME NEW r \in FeedThreads, Discover(r) PROVE FeedInv'
  BY <1>10, DiscoverKeeps
<1>11. ASSUME NEW r \in FeedThreads, PushEnqueues(r) PROVE FeedInv'
  BY <1>11, PushEnqueuesKeeps
<1>12. ASSUME NEW r \in FeedThreads, Persist(r) PROVE FeedInv'
  BY <1>12, PersistKeeps
<1>13. ASSUME NEW r \in FeedThreads, Backfill(r) PROVE FeedInv'
  BY <1>13, BackfillKeeps
<1>14. ASSUME NEW r \in FeedThreads, BackfillFails(r) PROVE FeedInv'
  BY <1>14, BackfillFailsKeeps
<1>15. ASSUME NEW r \in FeedThreads, RequestDies(r) PROVE FeedInv'
  BY <1>15, RequestDiesKeeps
<1>16. CASE UNCHANGED feedVars
  BY <1>16 DEF feedVars, Queued, FeedInv, FeedTypeOK, RequestsFit, DiscoveredListed,
    FeedAsRecorded, FeedComplete, DeliveredArrives, LandedIsRecorded, InHand, Arrived, UnderWay,
    RecordedOf
<1>. QED
  BY <1>1, <1>2, <1>3, <1>4, <1>5, <1>6, <1>7, <1>8, <1>9, <1>10, <1>11, <1>12, <1>13, <1>14,
    <1>15, <1>16 DEF FeedNext

\* Rows, batches and requests are of their types; an account is known only of a linked
\* customer, and backfilled only when it is known.
THEOREM FeedTyping ==
  ASSUME FeedAssumption
  PROVE  FeedSpec => []FeedTypeOK
<1>1. FeedInit => FeedInv
  BY FeedStart
<1>2. FeedInv /\ [FeedNext]_feedVars => FeedInv'
  BY FeedStep
<1>3. FeedInv => FeedTypeOK
  BY DEF FeedInv
<1>. QED
  BY <1>1, <1>2, <1>3, PTL DEF FeedSpec

\* "Ongoing sync pushes populate it either way": no transaction falls between backfill and
\* pushes, what was told to be delivered is there or lost with its worker, and what lands is
\* recorded, for any number of customers, transactions and requests.
THEOREM NothingFallsBetween ==
  ASSUME FeedAssumption
  PROVE  FeedSpec => []FeedAsRecorded
<1>1. FeedInit => FeedInv
  BY FeedStart
<1>2. FeedInv /\ [FeedNext]_feedVars => FeedInv'
  BY FeedStep
<1>3. FeedInv => FeedAsRecorded
  BY DEF FeedInv
<1>. QED
  BY <1>1, <1>2, <1>3, PTL DEF FeedSpec

==============================================================================
