------------------------------ MODULE Sessions ------------------------------
(***************************************************************************)
(* The account of one user and its sessions: signup, login, refresh,       *)
(* logout, password reset and email verification (core/views/auth.py), the *)
(* profile (core/views/profile.py) and the single-use tickets of emailed   *)
(* links and of the event stream (services/link_tickets.py, sse_tickets.py)*)
(*                                                                         *)
(* A refresh token is live from the insertion of its row in                *)
(* outstanding_tokens to that of its row in blacklisted_tokens.  Login and *)
(* refresh look first and insert later, a password reset saves the         *)
(* password, looks for the outstanding tokens and blacklists them one      *)
(* after another: none of these is a transaction.                          *)
(*                                                                         *)
(* A password is named by how many resets came before it.  Access tokens,  *)
(* which nothing revokes, and expiry by time are left out.                 *)
(***************************************************************************)
EXTENDS Naturals, FiniteSets

CONSTANTS
  Tokens,          \* refresh tokens, by their jti
  Tickets,         \* tickets in Redis
  SessionThreads,  \* the web threads at work for this user
  CarefulProfile   \* a profile change overlaps no other change of the user's row

ASSUME SessionAssumption ==
  /\ CarefulProfile \in BOOLEAN
  /\ IsFiniteSet(Tickets)

VARIABLES
  user,        \* the row of users
  token,       \* rows of outstanding_tokens and blacklisted_tokens
  ticket,      \* tickets, and what they stand for
  streams,     \* event streams opened with a ticket
  sessionReq,  \* what each thread is in the middle of
  userStated   \* history: what the answered requests make of the user's row

sessionVars == <<user, token, ticket, streams, sessionReq, userStated>>

Passwords == 0..Cardinality(Tickets)

User == [exists : BOOLEAN, password : Passwords, verified : BOOLEAN]

\* "born" is the password of the login a token descends from; "late" tells that
\* a login or refresh it descends from overlapped a reset.
Token   == [state : {"none", "live", "blacklisted"}, born : Passwords, late : BOOLEAN]
NoToken == [state |-> "none", born |-> 0, late |-> FALSE]

\* The state an emailed token is a hash of is in "made".
Ticket   == [kind : {"none", "reset", "verify", "stream", "redeemed"}, made : User]
NoTicket(kind) == [kind |-> kind, made |-> [exists |-> TRUE, password |-> 0, verified |-> FALSE]]

Quiet     == [at : {"idle"}]
Minting   == [at : {"minting"}, born : Passwords, late : BOOLEAN]
Rotating  == [at : {"rotating"}, old : Tokens, born : Passwords, late : BOOLEAN]
Saving    == [at : {"verifying", "profile"}, copy : User]
Resets    == [at : {"resetting"}, copy : User, new : Passwords]
Sweeping  == [at : {"changed", "sweeping"}, left : SUBSET Tokens, reset : BOOLEAN]

SessionTypeOK ==
  /\ user \in User
  /\ token \in [Tokens -> Token]
  /\ ticket \in [Tickets -> Ticket]
  /\ streams \in Nat
  /\ sessionReq \in [SessionThreads -> Quiet \cup Minting \cup Rotating
                                        \cup Saving \cup Resets \cup Sweeping]
  /\ userStated \in User

\* POST /auth/signup has created the account and is about to issue tokens.
SessionInit ==
  /\ user = [exists |-> TRUE, password |-> 0, verified |-> FALSE]
  /\ token = [t \in Tokens |-> NoToken]
  /\ ticket = [k \in Tickets |-> NoTicket("none")]
  /\ streams = 0
  /\ sessionReq \in [SessionThreads -> {[at |-> "idle"],
                                        [at |-> "minting", born |-> 0, late |-> FALSE]}]
  /\ userStated = user

Live(t)        == token[t].state = "live"
IsAt(r, place) == sessionReq[r].at = place
Resetting      == \E r \in SessionThreads :
                    IsAt(r, "changed") \/ (IsAt(r, "sweeping") /\ sessionReq[r].reset)

RowAtRest      == CarefulProfile => ~\E r \in SessionThreads : IsAt(r, "profile")
NobodySaves    == CarefulProfile => ~\E r \in SessionThreads : IsAt(r, "resetting") \/ IsAt(r, "verifying")

Starts(r, record) == IsAt(r, "idle") /\ sessionReq' = [sessionReq EXCEPT ![r] = record]
Goes(r, record)   == sessionReq' = [sessionReq EXCEPT ![r] = record]
Ends(r)           == Goes(r, [at |-> "idle"])

Blacklisted(tokens) ==
  [t \in Tokens |-> IF t \in tokens THEN [token[t] EXCEPT !.state = "blacklisted"] ELSE token[t]]

(***************************************************************************)
(* Sessions                                                                *)
(***************************************************************************)

\* The password is checked here ...
LoginCheck(r) ==
  /\ user.exists
  /\ Starts(r, [at |-> "minting", born |-> user.password, late |-> FALSE])
  /\ UNCHANGED <<user, token, ticket, streams, userStated>>

\* ... and the token is inserted here, by a login or a refresh, unless the
\* user it refers to has gone.
Mint(r, t) ==
  /\ IsAt(r, "minting") /\ token[t] = NoToken
  /\ token' = IF user.exists
                THEN [token EXCEPT ![t] = [state |-> "live", born |-> sessionReq[r].born,
                                           late |-> sessionReq[r].late]]
                ELSE token
  /\ Ends(r)
  /\ UNCHANGED <<user, ticket, streams, userStated>>

\* A refresh finds its token live and its user active ...
RefreshCheck(r, t) ==
  /\ Live(t) /\ user.exists
  /\ Starts(r, [at |-> "rotating", old |-> t, born |-> token[t].born,
                late |-> token[t].late \/ Resetting])
  /\ UNCHANGED <<user, token, ticket, streams, userStated>>

\* ... and blacklists it; that another refresh has done so does not matter.
RefreshBlacklist(r) ==
  /\ IsAt(r, "rotating")
  /\ token' = Blacklisted({sessionReq[r].old})
  /\ Goes(r, [at |-> "minting", born |-> sessionReq[r].born, late |-> sessionReq[r].late])
  /\ UNCHANGED <<user, ticket, streams, userStated>>

Logout(t) ==
  /\ Live(t) /\ user.exists
  /\ token' = Blacklisted({t})
  /\ UNCHANGED <<user, ticket, streams, sessionReq, userStated>>

\* Log out of all devices: the tokens other than the caller's are looked up.
LogoutAll(r, keep) ==
  /\ user.exists
  /\ Starts(r, [at |-> "sweeping", reset |-> FALSE,
                left |-> {t \in Tokens : token[t].state # "none"} \ keep])
  /\ UNCHANGED <<user, token, ticket, streams, userStated>>

(***************************************************************************)
(* Tickets                                                                 *)
(***************************************************************************)

MintTicket(k, kind) ==
  /\ ticket[k].kind = "none" /\ user.exists
  /\ ticket' = [ticket EXCEPT ![k] = [kind |-> kind, made |-> user]]
  /\ UNCHANGED <<user, token, streams, sessionReq, userStated>>

Redeemed(k) == ticket' = [ticket EXCEPT ![k] = NoTicket("redeemed")]

OpenStream(k) ==
  /\ ticket[k].kind = "stream"
  /\ Redeemed(k)
  /\ streams' = IF user.exists THEN streams + 1 ELSE streams
  /\ UNCHANGED <<user, token, sessionReq, userStated>>

\* What an emailed token is a hash of must not have changed since.
Checks(k) ==
  /\ user.exists
  /\ ticket[k].kind = "reset" => ticket[k].made.password = user.password
  /\ ticket[k].kind = "verify" => ticket[k].made.verified = user.verified

NewPassword == Cardinality({k \in Tickets : ticket[k].kind = "redeemed"}) + 1

\* A link is redeemed and its token is checked against the row as it is read.
ConfirmCheck(r, k) ==
  /\ ticket[k].kind \in {"reset", "verify"}
  /\ Redeemed(k)
  /\ IF Checks(k)
       THEN /\ RowAtRest
            /\ Starts(r, IF ticket[k].kind = "reset"
                           THEN [at |-> "resetting", copy |-> user, new |-> NewPassword]
                           ELSE [at |-> "verifying", copy |-> user])
       ELSE UNCHANGED sessionReq
  /\ UNCHANGED <<user, token, streams, userStated>>

\* Those who were about to mint a token when a password was saved.
Overlapped(reqs) ==
  [r \in SessionThreads |-> IF reqs[r].at \in {"minting", "rotating"}
                              THEN [reqs[r] EXCEPT !.late = TRUE] ELSE reqs[r]]

\* save(update_fields=["password"]), which fails when the row has gone.
ResetSave(r) ==
  /\ IsAt(r, "resetting")
  /\ LET new == sessionReq[r].new
     IN  IF user.exists
           THEN /\ user' = [user EXCEPT !.password = new]
                /\ userStated' = [userStated EXCEPT !.password = new]
                /\ sessionReq' = Overlapped([sessionReq EXCEPT ![r] =
                                    [at |-> "changed", left |-> {}, reset |-> TRUE]])
           ELSE Ends(r) /\ UNCHANGED <<user, userStated>>
  /\ UNCHANGED <<token, ticket, streams>>

\* Mutant: the reset blacklists one session only, as a logout does.
ResetLookOne(r) ==
  /\ IsAt(r, "changed")
  /\ \E t \in Tokens :
       Goes(r, [at |-> "sweeping", reset |-> TRUE, left |-> {t} \cap {u \in Tokens : Live(u)}])
  /\ UNCHANGED <<user, token, ticket, streams, userStated>>

\* The outstanding tokens are looked up ...
ResetLook(r) ==
  /\ IsAt(r, "changed")
  /\ Goes(r, [at |-> "sweeping", reset |-> TRUE,
              left |-> {t \in Tokens : token[t].state # "none"}])
  /\ UNCHANGED <<user, token, ticket, streams, userStated>>

\* ... and blacklisted one after another.
Sweep(r) ==
  /\ IsAt(r, "sweeping")
  /\ LET left == sessionReq[r].left
     IN  IF left = {}
           THEN Ends(r) /\ UNCHANGED token
           ELSE \E t \in left :
                  /\ token' = Blacklisted({t})
                  /\ Goes(r, [sessionReq[r] EXCEPT !.left = @ \ {t}])
  /\ UNCHANGED <<user, ticket, streams, userStated>>

VerifySave(r) ==
  /\ IsAt(r, "verifying")
  /\ IF user.exists
       THEN /\ user' = [user EXCEPT !.verified = TRUE]
            /\ userStated' = [userStated EXCEPT !.verified = TRUE]
       ELSE UNCHANGED <<user, userStated>>
  /\ Ends(r)
  /\ UNCHANGED <<token, ticket, streams>>

(***************************************************************************)
(* The profile                                                             *)
(***************************************************************************)

\* PATCH /me: the row is read by the authentication of the request ...
ProfileRead(r) ==
  /\ user.exists /\ NobodySaves
  /\ Starts(r, [at |-> "profile", copy |-> user])
  /\ UNCHANGED <<user, token, ticket, streams, userStated>>

\* ... and all its columns are saved, inserted if the row has gone.
ProfileSave(r) ==
  /\ IsAt(r, "profile")
  /\ user' = sessionReq[r].copy
  /\ Ends(r)
  /\ UNCHANGED <<token, ticket, streams, userStated>>

DeleteAccount ==
  /\ user.exists /\ RowAtRest
  /\ user' = [user EXCEPT !.exists = FALSE]
  /\ userStated' = [userStated EXCEPT !.exists = FALSE]
  /\ UNCHANGED <<token, ticket, streams, sessionReq>>

SessionNext ==
  \/ DeleteAccount
  \/ \E t \in Tokens : Logout(t)
  \/ \E k \in Tickets : OpenStream(k)
  \/ \E k \in Tickets, kind \in {"reset", "verify", "stream"} : MintTicket(k, kind)
  \/ \E r \in SessionThreads :
       \/ LoginCheck(r)
       \/ \E t \in Tokens : Mint(r, t) \/ RefreshCheck(r, t)
       \/ RefreshBlacklist(r)
       \/ \E t \in Tokens : LogoutAll(r, {t})
       \/ LogoutAll(r, {})
       \/ \E k \in Tickets : ConfirmCheck(r, k)
       \/ ResetSave(r)
       \/ ResetLook(r)
       \/ Sweep(r)
       \/ VerifySave(r)
       \/ ProfileRead(r)
       \/ ProfileSave(r)

SessionSpec == SessionInit /\ [][SessionNext]_sessionVars

(***************************************************************************)
(* Properties                                                              *)
(***************************************************************************)

\* "A stale but still-valid refresh token shouldn't survive" a password reset:
\* once a reset has been answered, a session that began under an older
\* password is live only if one of its logins or refreshes was in flight while
\* the reset saved and looked.  Tokens minted before, rotated before, or minted
\* by logins and refreshes that came later do not survive it.
ResetEndsSessions ==
  ~Resetting => \A t \in Tokens : Live(t) /\ ~token[t].late => token[t].born = user.password

\* The row of the user is what the answered requests say, column by column: a
\* reset does not take a verification back nor the other way round, no profile
\* change restores an old password, and a deleted account stays deleted.
ColumnsAsStated ==
  user = userStated

\* An account is as its owner's answered requests left it, and open only to
\* sessions of its present password.
AccountAsStated == ResetEndsSessions /\ ColumnsAsStated
=============================================================================
