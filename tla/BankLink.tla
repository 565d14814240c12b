------------------------------ MODULE BankLink ------------------------------
(***************************************************************************)
(* How the customers of one bank become users of the application: linking  *)
(* (core/views/bank_connections.py), bank login (core/views/auth.py) and   *)
(* the bank's own pushes (core/views/webhooks.py).                         *)
(*                                                                         *)
(* Linking and login both send a browser to the bank with a fresh OAuth    *)
(* state; the bank sends it back with a code.  A handler reads a           *)
(* connection, calls the bank (several seconds, perhaps), and saves what   *)
(* the connection has become; each of its accesses to the database is an   *)
(* action, together with the call to the bank before it.  One bank is      *)
(* modelled, and one account of each of its customers.                     *)
(***************************************************************************)
EXTENDS Naturals, FiniteSets

CONSTANTS
  Users,      \* users who signed up, with an e-mail address each
  Customers,  \* the bank's customers; also the users provisioned for them
  Shared,     \* customers whose e-mail address is that of one of Users
  Rows,       \* bank_connections rows that may be created
  Links,      \* POST /bank-connections requests, and the OAuth states they store
  Callbacks,  \* POST /bank-connections/{id}/callback requests
  Logins,     \* bank logins: the state minted, and the one callback that redeems it
  Pushes,     \* POST /webhooks/bank-sync requests
  Careful,    \* TRUE: a user waits for each response before the next request
  MaxLost     \* bound on requests killed with their web process

Requests == Links \cup Callbacks \cup Logins \cup Pushes
People == Users \cup Customers

None == "none"

ASSUME LinkAssumption ==
  /\ Users \cap Customers = {} /\ Shared \subseteq Customers
  /\ None \notin People \cup Links
  /\ Careful \in BOOLEAN /\ MaxLost \in Nat
  /\ IsFiniteSet(Requests)
  /\ Links \cap (Callbacks \cup Logins \cup Pushes) = {}
  /\ Callbacks \cap (Logins \cup Pushes) = {} /\ Logins \cap Pushes = {}

VARIABLES
  members,   \* customers with a user provisioned for them
  conn,      \* the bank_connections rows
  accounts,  \* per row: customers whose synced account hangs on it
  code,      \* per state: the code the bank has issued for it
  pc,        \* where each request is
  who,       \* the user it is for; of a push: the customer it names
  at,        \* the row it has read, or that its response names
  via,       \* of a callback: the state it brings back
  got        \* the customer whose token, and accounts, the bank gave it

vars == <<members, conn, accounts, code, pc, who, at, via, got>>
-----------------------------------------------------------------------------
NoConn == [user |-> None, status |-> "pending_otp", state |-> None,
           customer |-> None, token |-> None]
NoCode == [customer |-> None, used |-> FALSE]
States == Links \cup Logins

ConnType ==
  [user : People \cup {None}, status : {"pending_otp", "linked", "failed"},
   state : Links \cup {None}, customer : Customers \cup {None}, token : Customers \cup {None}]

PCs == {"idle", "checked", "creating", "sent", "exchanged", "known", "unknown",
        "new", "raced", "failing", "applying", "done", "refused", "lost"}

TypeOK ==
  /\ members \subseteq Customers
  /\ conn \in [Rows -> ConnType]
  /\ \A r \in Rows : conn[r].status = "linked" =>
       conn[r].customer \in Customers /\ conn[r].token \in Customers
  /\ accounts \in [Rows -> SUBSET Customers]
  /\ code \in [States -> [customer : Customers \cup {None}, used : BOOLEAN]]
  /\ pc \in [Requests -> PCs]
  /\ who \in [Requests -> People \cup {None}]
  /\ at \in [Requests -> Rows \cup {None}]
  /\ via \in [Requests -> Links \cup {None}]
  /\ got \in [Requests -> Customers \cup {None}]

Init ==
  /\ members = {}
  /\ conn = [r \in Rows |-> NoConn]
  /\ accounts = [r \in Rows |-> {}]
  /\ code = [s \in States |-> NoCode]
  /\ pc = [q \in Requests |-> "idle"]
  /\ who = [q \in Requests |-> None]
  /\ at = [q \in Requests |-> None]
  /\ via = [q \in Requests |-> None]
  /\ got = [q \in Requests |-> None]

RowsOf(u) == {r \in Rows : conn[r].user = u}
RowsFor(c) == {r \in Rows : conn[r].customer = c}
Linked(r) == conn[r].status = "linked"

Goto(q, there) == pc' = [pc EXCEPT ![q] = there]

\* A request ends, and with it all the state it had.
End(q, there) ==
  /\ Goto(q, there)
  /\ who' = [who EXCEPT ![q] = None]
  /\ at' = [at EXCEPT ![q] = None]
  /\ via' = [via EXCEPT ![q] = None]
  /\ got' = [got EXCEPT ![q] = None]

\* The user has signed up, or a bank login has given them a session.
SignedIn(u) == u \in Users \/ \E l \in Logins : pc[l] = "done" /\ who[l] = u

\* A user's own requests that are being served.
Busy(u) ==
  \E q \in Links \cup Callbacks :
    who[q] = u /\ pc[q] \in {"checked", "creating", "exchanged", "failing", "applying"}

Sends(q, u) ==
  /\ pc[q] = "idle" /\ SignedIn(u)
  /\ Careful => ~Busy(u)
  /\ who' = [who EXCEPT ![q] = u]

\* Mutant: without unique_bank_customer_identity.
NeverTaken(c, r) == FALSE

\* unique_bank_customer_identity: the customer is bound to another row than r.
Taken(c, r) == RowsFor(c) \ {r} # {}

\* unique_active_bank_connection_per_user_provider
SecondLink(u, r) == \E s \in RowsOf(u) \ {r} : Linked(s)
-----------------------------------------------------------------------------
(* POST /bank-connections                                                  *)

\* Mutant: without the guard against an existing link.
InitiateCheckNothing(i, u) ==
  /\ Sends(i, u) /\ Goto(i, "checked")
  /\ UNCHANGED <<members, conn, accounts, code, at, via, got>>

\* existing = ... .first(): any row of the user, which must not be linked.
InitiateCheck(i, u) ==
  /\ Sends(i, u)
  /\ RowsOf(u) = {} \/ \E r \in RowsOf(u) : ~Linked(r)
  /\ Goto(i, "checked")
  /\ UNCHANGED <<members, conn, accounts, code, at, via, got>>

\* update_or_create(): the user's row becomes pending again, whatever it is by
\* now; two rows raise MultipleObjectsReturned (500); without one ...
InitiateUpdate(i) ==
  /\ pc[i] = "checked"
  /\ \/ /\ RowsOf(who[i]) = {} /\ Goto(i, "creating")
        /\ UNCHANGED <<conn, who, at, via, got>>
     \/ \E r \in Rows :
          /\ RowsOf(who[i]) = {r}
          /\ conn' = [conn EXCEPT ![r].status = "pending_otp", ![r].state = i]
          /\ Goto(i, "sent")
          /\ at' = [at EXCEPT ![i] = r]
          /\ UNCHANGED <<who, via, got>>
     \/ Cardinality(RowsOf(who[i])) > 1 /\ End(i, "done") /\ UNCHANGED conn
  /\ UNCHANGED <<members, accounts, code>>

\* ... one is created, which no constraint prevents if another has been since.
InitiateCreate(i) ==
  /\ pc[i] = "creating"
  /\ \E r \in RowsOf(None) :
       /\ conn' = [conn EXCEPT ![r] = [NoConn EXCEPT !.user = who[i], !.state = i]]
       /\ at' = [at EXCEPT ![i] = r]
  /\ Goto(i, "sent")
  /\ UNCHANGED <<members, accounts, code, who, via, got>>

-----------------------------------------------------------------------------
(* At the bank (mock-bank-oauth)                                           *)

\* A customer logs in with an OTP: the challenge is popped, a code issued and
\* the browser sent back with it and the state it came with.
Authorize(s, c) ==
  /\ pc[s] = "sent" /\ code[s] = NoCode
  /\ code' = [code EXCEPT ![s].customer = c]
  /\ UNCHANGED <<members, conn, accounts, pc, who, at, via, got>>

\* consume_authorization_code(): checked and marked under one lock.
Consume(s) ==
  /\ code[s].customer # None /\ ~code[s].used
  /\ code' = [code EXCEPT ![s].used = TRUE]

-----------------------------------------------------------------------------
(* POST /bank-connections/{id}/callback                                    *)

\* Mutant: the state is not compared.
CallbackCheckNoState(k, i) ==
  /\ pc[i] = "sent" /\ code[i].customer # None
  /\ Sends(k, who[i])
  /\ Goto(k, "checked")
  /\ at' = [at EXCEPT ![k] = at[i]]
  /\ via' = [via EXCEPT ![k] = i]
  /\ UNCHANGED <<members, conn, accounts, code, got>>

\* The browser of the user who began brings back state and code; the state must
\* be the one the row holds.
CallbackCheck(k, i) ==
  /\ pc[i] = "sent" /\ code[i].customer # None
  /\ Sends(k, who[i])
  /\ conn[at[i]].state = i
  /\ Goto(k, "checked")
  /\ at' = [at EXCEPT ![k] = at[i]]
  /\ via' = [via EXCEPT ![k] = i]
  /\ UNCHANGED <<members, conn, accounts, code, got>>

\* exchange_code_for_token() and fetch_accounts(): either may fail, before or
\* after the code is spent.
CallbackExchange(k) ==
  /\ pc[k] = "checked"
  /\ \/ /\ Consume(via[k])
        /\ got' = [got EXCEPT ![k] = code[via[k]].customer]
        /\ Goto(k, "exchanged")
     \/ /\ Consume(via[k]) \/ UNCHANGED code
        /\ Goto(k, "failing")
        /\ UNCHANGED got
  /\ UNCHANGED <<members, conn, accounts, who, at, via>>

\* _mark_failed(), on the row as the request read it.
MarkFailed(k) ==
  /\ pc[k] = "failing"
  /\ conn' = [conn EXCEPT ![at[k]].status = "failed", ![at[k]].state = None]
  /\ End(k, "done")
  /\ UNCHANGED <<members, accounts, code>>

\* Mutant: external_customer_id is missing from update_fields.
SaveLinkedWithoutCustomer(k) ==
  LET r == at[k]
      linked == [conn[r] EXCEPT !.status = "linked", !.state = None, !.token = got[k]]
  IN
  /\ pc[k] = "exchanged"
  /\ IF Taken(got[k], r) \/ SecondLink(conn[r].user, r)
     THEN End(k, "done") /\ UNCHANGED conn
     ELSE /\ conn' = [conn EXCEPT ![r] = linked]
          /\ Goto(k, "applying")
          /\ UNCHANGED <<who, at, via, got>>
  /\ UNCHANGED <<members, accounts, code>>

\* The connection is saved as linked; a constraint may refuse that (500).
SaveLinked(k) ==
  LET r == at[k]
      linked == [conn[r] EXCEPT !.status = "linked", !.state = None,
                                !.customer = got[k], !.token = got[k]]
  IN
  /\ pc[k] = "exchanged"
  /\ IF Taken(got[k], r) \/ SecondLink(conn[r].user, r)
     THEN End(k, "done") /\ UNCHANGED conn
     ELSE /\ conn' = [conn EXCEPT ![r] = linked]
          /\ Goto(k, "applying")
          /\ UNCHANGED <<who, at, via, got>>
  /\ UNCHANGED <<members, accounts, code>>

-----------------------------------------------------------------------------
(* Bank login: POST /auth/bank-login/initiate and .../callback             *)

LoginInitiate(l) ==
  /\ pc[l] = "idle"
  /\ Goto(l, "sent")
  /\ UNCHANGED <<members, conn, accounts, code, who, at, via, got>>

\* redeem_state() (GETDEL) lets one callback pass; then the exchange.
LoginExchange(l) ==
  /\ pc[l] = "sent"
  /\ \/ /\ Consume(l)
        /\ got' = [got EXCEPT ![l] = code[l].customer]
        /\ Goto(l, "exchanged")
        /\ UNCHANGED <<who, at, via>>
     \/ /\ code[l].customer # None
        /\ End(l, "done") /\ UNCHANGED code
  /\ UNCHANGED <<members, conn, accounts>>

\* The user a login ends in the session of.
Session(l, u) ==
  /\ Goto(l, "done")
  /\ who' = [who EXCEPT ![l] = u]
  /\ at' = [at EXCEPT ![l] = None]
  /\ UNCHANGED <<via, got>>

\* The connection of the customer, whatever its status ...
LoginLook(l) ==
  /\ pc[l] = "exchanged"
  /\ \/ \E r \in RowsFor(got[l]) :
          /\ Goto(l, "known")
          /\ at' = [at EXCEPT ![l] = r]
          /\ who' = [who EXCEPT ![l] = conn[r].user]
     \/ RowsFor(got[l]) = {} /\ Goto(l, "unknown") /\ UNCHANGED <<who, at>>
  /\ UNCHANGED <<members, conn, accounts, code, via, got>>

\* ... without one, a customer whose e-mail address a user has is refused, and
\* any other needs accounts to become a user.
LoginEmailCheck(l) ==
  /\ pc[l] = "unknown"
  /\ \/ got[l] \in Shared \cup members /\ End(l, "refused")
     \/ got[l] \notin Shared \cup members /\ End(l, "done")
     \/ /\ got[l] \notin Shared \cup members
        /\ Goto(l, "new") /\ UNCHANGED <<who, at, via, got>>
  /\ UNCHANGED <<members, conn, accounts, code>>

\* A repeat login saves its token; if the bank then gives no accounts, the
\* session is opened all the same.
LoginKnown(l) ==
  /\ pc[l] = "known"
  /\ conn' = [conn EXCEPT ![at[l]].token = got[l]]
  /\ \/ Goto(l, "applying") /\ UNCHANGED <<who, at, via, got>>
     \/ Session(l, who[l])
  /\ UNCHANGED <<members, accounts, code>>

\* Mutant: nobody applies the accounts of a first login.
LoginProvisionOnly(l) ==
  LET c == got[l]
  IN
  /\ pc[l] = "new"
  /\ \E r \in RowsOf(None) :
       IF c \in members \/ Taken(c, r)
       THEN Goto(l, "raced") /\ UNCHANGED <<members, conn, who, at, via, got>>
       ELSE /\ members' = members \cup {c}
            /\ conn' = [conn EXCEPT ![r] = [user |-> c, status |-> "linked", state |-> None,
                                            customer |-> c, token |-> c]]
            /\ Session(l, c)
  /\ UNCHANGED <<accounts, code>>

\* User and connection in one transaction, which a unique constraint (e-mail or
\* customer) may refuse ...
LoginProvision(l) ==
  LET c == got[l]
  IN
  /\ pc[l] = "new"
  /\ \E r \in RowsOf(None) :
       IF c \in members \/ Taken(c, r)
       THEN Goto(l, "raced") /\ UNCHANGED <<members, conn, who, at>>
       ELSE /\ members' = members \cup {c}
            /\ conn' = [conn EXCEPT ![r] = [user |-> c, status |-> "linked", state |-> None,
                                            customer |-> c, token |-> c]]
            /\ who' = [who EXCEPT ![l] = c]
            /\ at' = [at EXCEPT ![l] = r]
            /\ Goto(l, "applying")
  /\ UNCHANGED <<accounts, code, via, got>>

\* ... since a login of the same customer may have been faster: its connection
\* decides.
LoginRaced(l) ==
  /\ pc[l] = "raced"
  /\ \/ \E r \in RowsFor(got[l]) : Session(l, conn[r].user)
     \/ RowsFor(got[l]) = {} /\ End(l, "refused")
  /\ UNCHANGED <<members, conn, accounts, code>>

-----------------------------------------------------------------------------
(* POST /webhooks/bank-sync, for the account of customer c                 *)

\* Mutant: an account not yet known goes to any linked connection.
PushLookAnyLink(p, c) ==
  LET known == {r \in Rows : Linked(r) /\ c \in accounts[r]}
  IN
  /\ pc[p] = "idle"
  /\ who' = [who EXCEPT ![p] = c]
  /\ \/ \E r \in known :
          at' = [at EXCEPT ![p] = r] /\ Goto(p, "done") /\ UNCHANGED got
     \/ /\ known = {}
        /\ \E r \in Rows :
             /\ Linked(r)
             /\ at' = [at EXCEPT ![p] = r]
             /\ got' = [got EXCEPT ![p] = c]
             /\ Goto(p, "applying")
     \/ known = {} /\ Goto(p, "refused") /\ UNCHANGED <<at, got>>
  /\ UNCHANGED <<members, conn, accounts, code, via>>

\* The account under a linked connection; an account not yet known sends the
\* handler to the bank with the token of its customer's connection.  (404: refused.)
PushLook(p, c) ==
  LET known == {r \in Rows : Linked(r) /\ c \in accounts[r]}
  IN
  /\ pc[p] = "idle"
  /\ who' = [who EXCEPT ![p] = c]
  /\ \/ \E r \in known :
          at' = [at EXCEPT ![p] = r] /\ Goto(p, "done") /\ UNCHANGED got
     \/ /\ known = {}
        /\ \E r \in RowsFor(c) :
             /\ Linked(r)
             /\ at' = [at EXCEPT ![p] = r]
             /\ got' = [got EXCEPT ![p] = conn[r].token]
             /\ Goto(p, "applying")
     \/ known = {} /\ Goto(p, "refused") /\ UNCHANGED <<at, got>>
  /\ UNCHANGED <<members, conn, accounts, code, via>>

-----------------------------------------------------------------------------
\* apply_synced_accounts(): the accounts the bank gave are the row's, new or not.
\* A push looks for its account again after that.
Apply(q) ==
  LET theirs == accounts[at[q]] \cup {got[q]}
  IN
  /\ pc[q] = "applying"
  /\ accounts' = [accounts EXCEPT ![at[q]] = theirs]
  /\ \/ q \in Callbacks /\ End(q, "done")
     \/ q \in Logins /\ Session(q, who[q])
     \/ q \in Pushes /\ who[q] \in theirs /\ Goto(q, "done") /\ UNCHANGED <<who, at, via, got>>
     \/ q \in Pushes /\ who[q] \notin theirs /\ End(q, "refused")
  /\ UNCHANGED <<members, conn, code>>

\* The web process is killed with the requests it serves.
Lost(q) ==
  /\ pc[q] \notin {"idle", "sent", "done", "refused", "lost"}
  /\ Cardinality({o \in Requests : pc[o] = "lost"}) < MaxLost
  /\ End(q, "lost")
  /\ UNCHANGED <<members, conn, accounts, code>>

Next ==
  \/ \E i \in Links, u \in People : InitiateCheck(i, u)
  \/ \E i \in Links : InitiateUpdate(i) \/ InitiateCreate(i)
  \/ \E s \in States, c \in Customers : Authorize(s, c)
  \/ \E k \in Callbacks, i \in Links : CallbackCheck(k, i)
  \/ \E k \in Callbacks : CallbackExchange(k) \/ MarkFailed(k) \/ SaveLinked(k)
  \/ \E l \in Logins :
       \/ LoginInitiate(l) \/ LoginExchange(l) \/ LoginLook(l) \/ LoginKnown(l)
       \/ LoginEmailCheck(l) \/ LoginProvision(l) \/ LoginRaced(l)
  \/ \E p \in Pushes, c \in Customers : PushLook(p, c)
  \/ \E q \in Requests : Apply(q) \/ Lost(q)

Spec == Init /\ [][Next]_vars
-----------------------------------------------------------------------------
\* A customer of the bank, once bound to a user, is that user's for good, however
\* often either links, fails, or logs in again (unique_bank_customer_identity:
\* "every login by the same bank customer must resolve to the same user").
CustomerKeepsUser ==
  [][\A r \in Rows, c \in Customers :
       r \in RowsFor(c) => \E s \in Rows : conn'[s].customer = c
                                        /\ conn'[s].user = conn[r].user]_conn

\* ... and so every session that a login of the customer opened is one user's,
\* also when a link and several logins of the customer race (BankLoginCallbackView).
OneUserPerCustomer ==
  \A l, m \in Logins :
    pc[l] = "done" /\ pc[m] = "done" /\ got[l] = got[m] /\ got[l] # None => who[l] = who[m]

\* A working link stays one: neither a late callback nor another initiation takes
\* it down (the guard of BankConnectionListCreateView.post()).
LinkedStays == [][\A r \in Rows : Linked(r) => conn'[r].status = "linked"]_conn

\* What hangs on a connection is its customer's: the token that the next push
\* is fetched with, and the accounts that were found with it.
LinkOfOneCustomer ==
  \A r \in Rows :
    /\ Linked(r) => conn[r].token = conn[r].customer
    /\ accounts[r] # {} => accounts[r] = {conn[r].customer}

\* The transactions of a customer's account go into the ledger of the user the
\* customer is bound to (BankSyncWebhookView.post()).
PushGoesHome ==
  \A p \in Pushes : pc[p] = "done" => conn[at[p]].customer = who[p]

\* A linked connection is not left without accounts, once nobody is about to
\* apply them, unless the process was killed before it could (SaveLinked and
\* LoginProvision commit the link first, apply_synced_accounts() follows).
LinkedHasAccounts ==
  (\A q \in Requests : pc[q] # "lost") =>
    \A r \in Rows : Linked(r) /\ accounts[r] = {} =>
      \E q \in Requests : pc[q] = "applying" /\ at[q] = r
=============================================================================
