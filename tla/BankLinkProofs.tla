--------------------------- MODULE BankLinkProofs ---------------------------
(***************************************************************************)
(* What a customer of the bank is bound to.  With users who wait for each  *)
(* response (Careful), no request ever holds a row that has been linked    *)
(* since it read it, so linked rows are never written again, and all else  *)
(* follows from that.                                                      *)
(***************************************************************************)
EXTENDS BankLink, TLAPS

\* What requests have in hand, whoever sends them: a row, a user, a customer.
Carried ==
  /\ \A i \in Links :
       /\ pc[i] \in {"checked", "creating", "sent"} => who[i] \in People
       /\ pc[i] = "sent" => at[i] \in Rows
       /\ pc[i] \in {"idle", "checked", "creating", "sent", "done", "lost"}
  /\ \A k \in Callbacks :
       /\ pc[k] \in {"checked", "exchanged", "failing", "applying"}
            => at[k] \in Rows /\ who[k] \in People /\ via[k] \in Links
       /\ pc[k] \in {"exchanged", "applying"} => got[k] \in Customers
       /\ pc[k] \in {"idle", "checked", "exchanged", "failing", "applying", "done", "lost"}
  /\ \A l \in Logins :
       /\ pc[l] \in {"known", "applying"} => at[l] \in Rows
       /\ pc[l] \in {"exchanged", "known", "unknown", "new", "raced", "applying"}
            => got[l] \in Customers
       /\ pc[l] \notin {"known", "applying", "done"} => who[l] = None
  /\ \A p \in Pushes :
       /\ pc[p] \in {"applying", "done"} => at[p] \in Rows /\ who[p] \in Customers
       /\ pc[p] = "applying" => got[p] \in Customers
       /\ pc[p] \in {"idle", "applying", "done", "refused", "lost"}

\* A row is free, or waits for its bank, or is linked: to one customer, with that
\* customer's token and accounts, and no state that a callback could bring back.
RowsWhole ==
  \A r \in Rows :
    /\ conn[r].user = None => conn[r] = NoConn
    /\ conn[r].customer # None => Linked(r)
    /\ Linked(r) => conn[r].token = conn[r].customer /\ conn[r].state = None
    /\ accounts[r] # {} => Linked(r) /\ accounts[r] = {conn[r].customer}

\* No user has two rows, no customer either, and users provisioned for customers
\* are members before they own or ask for anything.
RowsApart ==
  /\ \A r, s \in Rows : conn[r].user = conn[s].user /\ conn[r].user # None => r = s
  /\ \A r, s \in Rows : conn[r].customer = conn[s].customer /\ conn[r].customer # None => r = s
  /\ \A r \in Rows : conn[r].user \in Customers => conn[r].user \in members
  /\ \A q \in Links \cup Callbacks \cup Logins : who[q] \in Customers => who[q] \in members

\* A user's requests take turns, and the row of one that is under way is not linked.
InTurn ==
  /\ \A q, o \in Links \cup Callbacks :
       /\ pc[q] \in {"checked", "creating", "exchanged", "failing", "applying"}
       /\ pc[o] \in {"checked", "creating", "exchanged", "failing", "applying"}
       /\ who[q] = who[o]
       => q = o
  /\ \A i \in Links :
       /\ pc[i] \in {"checked", "creating"} => \A r \in RowsOf(who[i]) : ~Linked(r)
       /\ pc[i] = "creating" => RowsOf(who[i]) = {}
       /\ pc[i] = "sent" => conn[at[i]].user = who[i]
  /\ \A k \in Callbacks :
       /\ pc[k] \in {"checked", "exchanged", "failing", "applying"} => conn[at[k]].user = who[k]
       /\ pc[k] \in {"checked", "exchanged", "failing"} => ~Linked(at[k])

\* Who has been found to be bound to a customer still is.
Found ==
  /\ \A q \in Requests :
       pc[q] \in {"known", "applying"} => conn[at[q]].customer = got[q]
  /\ \A l \in Logins :
       /\ pc[l] \in {"known", "applying"} => conn[at[l]].user = who[l]
       /\ pc[l] = "done" /\ got[l] # None =>
            \E r \in Rows : conn[r].user = who[l] /\ conn[r].customer = got[l]
  /\ \A p \in Pushes :
       pc[p] \in {"applying", "done"} => conn[at[p]].customer = who[p]

LinkInv == RowsWhole /\ RowsApart /\ InTurn /\ Found

-----------------------------------------------------------------------------
TypeInv == TypeOK /\ Carried

\* Ending a request forgets what it carried, and changes no other request.
LEMMA EndTypes ==
  ASSUME TypeInv, NEW q \in Requests, NEW there \in PCs, End(q, there),
         there \in {"done", "lost", "refused"},
         there = "done" => q \notin Pushes,
         there = "refused" => q \in Logins \cup Pushes
  PROVE  /\ pc' \in [Requests -> PCs]
         /\ who' \in [Requests -> People \cup {None}]
         /\ at' \in [Requests -> Rows \cup {None}]
         /\ via' \in [Requests -> Links \cup {None}]
         /\ got' \in [Requests -> Customers \cup {None}]
         /\ Carried'
  BY LinkAssumption DEF TypeInv, TypeOK, Carried, End, Goto, PCs, Requests

ConnTyped ==
  /\ conn \in [Rows -> ConnType]
  /\ \A r \in Rows : conn[r].status = "linked" =>
       conn[r].customer \in Customers /\ conn[r].token \in Customers

\* One row is saved.
LEMMA RowSaved ==
  ASSUME ConnTyped, NEW r \in Rows, NEW row \in ConnType, conn' = [conn EXCEPT ![r] = row],
         row.status = "linked" => row.customer \in Customers /\ row.token \in Customers
  PROVE  ConnTyped'
  BY DEF ConnTyped

\* Spending a code.
LEMMA CodeSpent ==
  ASSUME NEW s \in States, Consume(s),
         code \in [States -> [customer : Customers \cup {None}, used : BOOLEAN]]
  PROVE  /\ code' \in [States -> [customer : Customers \cup {None}, used : BOOLEAN]]
         /\ code[s].customer \in Customers
  BY DEF Consume

\* Init reaches no request, row or account.
LEMMA TypeInit == Init => TypeInv
  BY LinkAssumption DEF Init, TypeInv, TypeOK, Carried, PCs, Requests, States, NoConn, NoCode, ConnType

LEMMA TypeNext == TypeInv /\ [Next]_vars => TypeInv'
<1> SUFFICES ASSUME TypeInv, [Next]_vars PROVE TypeInv'
  OBVIOUS
<1> USE LinkAssumption
<1>1. ASSUME NEW i \in Links, NEW u \in People, InitiateCheck(i, u) PROVE TypeInv'
  BY <1>1 DEF TypeInv, TypeOK, Carried, InitiateCheck, Sends, Goto, PCs, Requests
<1>2. ASSUME NEW i \in Links, InitiateUpdate(i) PROVE TypeInv'
  <2>1. CASE RowsOf(who[i]) = {} /\ Goto(i, "creating") /\ UNCHANGED <<conn, who, at, via, got>>
    BY <1>2, <2>1 DEF TypeInv, TypeOK, Carried, InitiateUpdate, Goto, PCs, Requests
  <2>2. ASSUME NEW r \in Rows,
               conn' = [conn EXCEPT ![r].status = "pending_otp", ![r].state = i],
               Goto(i, "sent"), at' = [at EXCEPT ![i] = r], UNCHANGED <<who, via, got>>
        PROVE  TypeInv'
    BY <1>2, <2>2 DEF TypeInv, TypeOK, Carried, InitiateUpdate, Goto, PCs, Requests, ConnType
  <2>3. CASE End(i, "done") /\ UNCHANGED conn
    BY <1>2, <2>3, EndTypes DEF TypeInv, TypeOK, InitiateUpdate, PCs, Requests
  <2> QED BY <1>2, <2>1, <2>2, <2>3 DEF InitiateUpdate
<1>3. ASSUME NEW i \in Links, InitiateCreate(i) PROVE TypeInv'
  <2>1. PICK r \in RowsOf(None) :
             /\ conn' = [conn EXCEPT ![r] = [NoConn EXCEPT !.user = who[i], !.state = i]]
             /\ at' = [at EXCEPT ![i] = r]
    BY <1>3 DEF InitiateCreate
  <2> DEFINE row == [NoConn EXCEPT !.user = who[i], !.state = i]
  <2>2. row \in ConnType /\ row.status # "linked"
    BY <1>3 DEF TypeInv, Carried, InitiateCreate, ConnType, NoConn
  <2>3. ConnTyped'
    BY <2>1, <2>2, RowSaved DEF TypeInv, TypeOK, ConnTyped, RowsOf
  <2>4. pc' = [pc EXCEPT ![i] = "sent"] /\ UNCHANGED <<members, accounts, code, who, via, got>>
    BY <1>3 DEF InitiateCreate, Goto
  <2> HIDE DEF row
  <2>5. Carried' /\ pc' \in [Requests -> PCs] /\ at' \in [Requests -> Rows \cup {None}]
    BY <1>3, <2>1, <2>4 DEF TypeInv, TypeOK, Carried, InitiateCreate, PCs, Requests, RowsOf
  <2> QED BY <2>3, <2>4, <2>5 DEF TypeInv, TypeOK, ConnTyped
<1>4. ASSUME NEW s \in States, NEW c \in Customers, Authorize(s, c) PROVE TypeInv'
  BY <1>4 DEF TypeInv, TypeOK, Carried, Authorize, States
<1>5. ASSUME NEW k \in Callbacks, NEW i \in Links, CallbackCheck(k, i) PROVE TypeInv'
  BY <1>5 DEF TypeInv, TypeOK, Carried, CallbackCheck, Sends, Goto, PCs, Requests
<1>6. ASSUME NEW k \in Callbacks, CallbackExchange(k) PROVE TypeInv'
  <2>1. via[k] \in States /\ pc[k] = "checked"
    BY <1>6 DEF TypeInv, TypeOK, Carried, CallbackExchange, States
  <2>2. code' \in [States -> [customer : Customers \cup {None}, used : BOOLEAN]]
    BY <1>6, <2>1, CodeSpent DEF TypeInv, TypeOK, CallbackExchange
  <2>3. CASE Consume(via[k]) /\ got' = [got EXCEPT ![k] = code[via[k]].customer] /\ Goto(k, "exchanged")
    <3>1. code[via[k]].customer \in Customers
      BY <2>1, <2>3 DEF TypeInv, TypeOK, Consume
    <3> QED BY <1>6, <2>2, <2>1, <2>3, <3>1 DEF TypeInv, TypeOK, Carried, CallbackExchange, Goto, PCs, Requests
  <2>4. CASE Goto(k, "failing") /\ UNCHANGED got
    BY <1>6, <2>2, <2>1, <2>4 DEF TypeInv, TypeOK, Carried, CallbackExchange, Goto, PCs, Requests
  <2> QED BY <1>6, <2>3, <2>4 DEF CallbackExchange
<1>7. ASSUME NEW k \in Callbacks, MarkFailed(k) PROVE TypeInv'
  <2>1. /\ End(k, "done") /\ UNCHANGED <<members, accounts, code>>
        /\ conn' = [conn EXCEPT ![at[k]].status = "failed", ![at[k]].state = None]
    BY <1>7 DEF MarkFailed
  <2>2. ConnTyped'
    <3> DEFINE row == [conn[at[k]] EXCEPT !.status = "failed", !.state = None]
    <3>1. at[k] \in Rows /\ conn[at[k]] \in ConnType
      BY <1>7 DEF MarkFailed, TypeInv, TypeOK, Carried
    <3>2. row \in ConnType /\ row.status # "linked"
      BY <3>1 DEF ConnType
    <3>3. conn' = [conn EXCEPT ![at[k]] = row]
      BY <2>1, <3>1 DEF TypeInv, TypeOK
    <3> HIDE DEF row
    <3> QED BY <3>1, <3>2, <3>3, RowSaved DEF TypeInv, TypeOK, ConnTyped
  <2> QED BY <2>1, <2>2, EndTypes DEF TypeInv, TypeOK, ConnTyped, PCs, Requests
<1>8. ASSUME NEW k \in Callbacks, SaveLinked(k) PROVE TypeInv'
  <2>1. CASE End(k, "done") /\ UNCHANGED conn
    BY <1>8, <2>1, EndTypes DEF TypeInv, TypeOK, SaveLinked, PCs, Requests
  <2>2. CASE ~(Taken(got[k], at[k]) \/ SecondLink(conn[at[k]].user, at[k]))
    <3> DEFINE r == at[k]
               linked == [conn[r] EXCEPT !.status = "linked", !.state = None,
                                         !.customer = got[k], !.token = got[k]]
    <3>1. r \in Rows /\ got[k] \in Customers
      BY <1>8 DEF TypeInv, Carried, SaveLinked
    <3>2. conn' = [conn EXCEPT ![r] = linked] /\ pc' = [pc EXCEPT ![k] = "applying"]
          /\ pc[k] = "exchanged" /\ UNCHANGED <<members, accounts, code, who, at, via, got>>
      BY <1>8, <2>2 DEF SaveLinked, Goto
    <3>3. linked \in ConnType /\ linked.customer \in Customers /\ linked.token \in Customers
      <4>1. conn[r] \in ConnType
        BY <3>1 DEF TypeInv, TypeOK
      <4> QED BY <3>1, <4>1 DEF ConnType
    <3> HIDE DEF linked
    <3>4. ConnTyped'
      BY <3>1, <3>2, <3>3, RowSaved DEF TypeInv, TypeOK, ConnTyped
    <3>5. Carried' /\ pc' \in [Requests -> PCs]
      BY <3>2 DEF TypeInv, TypeOK, Carried, PCs, Requests
    <3> QED BY <3>2, <3>4, <3>5 DEF TypeInv, TypeOK, ConnTyped
  <2> QED BY <1>8, <2>1, <2>2 DEF SaveLinked
<1>9. ASSUME NEW l \in Logins, LoginInitiate(l) PROVE TypeInv'
  BY <1>9 DEF TypeInv, TypeOK, Carried, LoginInitiate, Goto, PCs, Requests
<1>10. ASSUME NEW l \in Logins, LoginExchange(l) PROVE TypeInv'
  <2>1. CASE End(l, "done") /\ UNCHANGED code
    BY <1>10, <2>1, EndTypes DEF TypeInv, TypeOK, LoginExchange, PCs, Requests
  <2>2. CASE Consume(l) /\ got' = [got EXCEPT ![l] = code[l].customer]
             /\ Goto(l, "exchanged") /\ UNCHANGED <<who, at, via>>
    <3>1. code[l].customer \in Customers
          /\ code' \in [States -> [customer : Customers \cup {None}, used : BOOLEAN]]
      BY <2>2 DEF TypeInv, TypeOK, Consume, States
    <3> QED BY <1>10, <2>2, <3>1 DEF TypeInv, TypeOK, Carried, LoginExchange, Goto, PCs, Requests
  <2> QED BY <1>10, <2>1, <2>2 DEF LoginExchange
<1>11. ASSUME NEW l \in Logins, LoginLook(l) PROVE TypeInv'
  BY <1>11, SMTT(30) DEF TypeInv, TypeOK, Carried, LoginLook, RowsFor, Goto, PCs, Requests, ConnType
<1>12. ASSUME NEW l \in Logins, LoginKnown(l) PROVE TypeInv'
  <2> DEFINE row == [conn[at[l]] EXCEPT !.token = got[l]]
  <2>1. at[l] \in Rows /\ got[l] \in Customers /\ pc[l] = "known"
    BY <1>12 DEF TypeInv, Carried, LoginKnown
  <2>2. conn' = [conn EXCEPT ![at[l]] = row] /\ UNCHANGED <<members, accounts, code>>
    BY <1>12 DEF LoginKnown
  <2>3. row \in ConnType /\ (row.status = "linked" => row.customer \in Customers /\ row.token \in Customers)
    <3>1. /\ conn[at[l]] \in ConnType
          /\ conn[at[l]].status = "linked" => conn[at[l]].customer \in Customers
      BY <2>1 DEF TypeInv, TypeOK
    <3> QED BY <2>1, <3>1 DEF ConnType
  <2> HIDE DEF row
  <2>4. ConnTyped'
    BY <2>1, <2>2, <2>3, RowSaved DEF TypeInv, TypeOK, ConnTyped
  <2>5. CASE Goto(l, "applying") /\ UNCHANGED <<who, at, via, got>>
    BY <2>1, <2>2, <2>4, <2>5 DEF TypeInv, TypeOK, ConnTyped, Carried, Goto, PCs, Requests
  <2>6. CASE Session(l, who[l])
    BY <2>1, <2>2, <2>4, <2>6 DEF TypeInv, TypeOK, ConnTyped, Carried, Session, Goto, PCs, Requests
  <2> QED BY <1>12, <2>5, <2>6 DEF LoginKnown
<1>13. ASSUME NEW l \in Logins, LoginEmailCheck(l) PROVE TypeInv'
  <2>1. ASSUME NEW there \in {"refused", "done"}, End(l, there) PROVE TypeInv'
    BY <1>13, <2>1, EndTypes DEF TypeInv, TypeOK, LoginEmailCheck, PCs, Requests
  <2>2. CASE Goto(l, "new") /\ UNCHANGED <<who, at, via, got>>
    BY <1>13, <2>2 DEF TypeInv, TypeOK, Carried, LoginEmailCheck, Goto, PCs, Requests
  <2> QED BY <1>13, <2>1, <2>2 DEF LoginEmailCheck
<1>14. ASSUME NEW l \in Logins, LoginProvision(l) PROVE TypeInv'
  <2> DEFINE c == got[l]
             row == [user |-> c, status |-> "linked", state |-> None, customer |-> c, token |-> c]
  <2>1. c \in Customers /\ pc[l] = "new"
    BY <1>14 DEF TypeInv, Carried, LoginProvision
  <2>2. CASE Goto(l, "raced") /\ UNCHANGED <<members, conn, who, at>>
    BY <1>14, <2>1, <2>2 DEF TypeInv, TypeOK, Carried, LoginProvision, Goto, PCs, Requests
  <2>3. ASSUME NEW r \in Rows, conn' = [conn EXCEPT ![r] = row], members' = members \cup {c},
               who' = [who EXCEPT ![l] = c], at' = [at EXCEPT ![l] = r], Goto(l, "applying")
        PROVE  TypeInv'
    <3>1. row \in ConnType /\ row.customer \in Customers /\ row.token \in Customers
      BY <2>1 DEF ConnType, People
    <3> HIDE DEF row
    <3>2. ConnTyped'
      BY <2>3, <3>1, RowSaved DEF TypeInv, TypeOK, ConnTyped
    <3>3. c \in People /\ UNCHANGED <<accounts, code, via, got>>
      BY <1>14, <2>1 DEF LoginProvision, People
    <3> QED BY <2>1, <2>3, <3>2, <3>3 DEF TypeInv, TypeOK, ConnTyped, Carried, Goto, PCs, Requests
  <2> QED BY <1>14, <2>2, <2>3 DEF LoginProvision, RowsOf
<1>15. ASSUME NEW l \in Logins, LoginRaced(l) PROVE TypeInv'
  <2>1. CASE End(l, "refused")
    BY <1>15, <2>1, EndTypes DEF TypeInv, TypeOK, LoginRaced, PCs, Requests
  <2>2. ASSUME NEW r \in Rows, Session(l, conn[r].user) PROVE TypeInv'
    BY <1>15, <2>2 DEF TypeInv, TypeOK, Carried, LoginRaced, Session, Goto, PCs, Requests, ConnType
  <2> QED BY <1>15, <2>1, <2>2 DEF LoginRaced, RowsFor
<1>16. ASSUME NEW p \in Pushes, NEW c \in Customers, PushLook(p, c) PROVE TypeInv'
  BY <1>16 DEF TypeInv, TypeOK, Carried, PushLook, RowsFor, Linked, Goto, PCs, Requests, People, ConnType
<1>17. ASSUME NEW q \in Requests, Apply(q) PROVE TypeInv'
  <2>1. accounts' \in [Rows -> SUBSET Customers]
    BY <1>17 DEF TypeInv, TypeOK, Carried, Apply, Requests
  <2>2. ASSUME NEW there \in {"refused", "done"}, End(q, there),
               there = "done" => q \in Callbacks, there = "refused" => q \in Pushes
        PROVE  TypeInv'
    BY <1>17, <2>1, <2>2, EndTypes DEF TypeInv, TypeOK, Apply, PCs, Requests
  <2>3. CASE q \in Logins /\ Session(q, who[q])
    BY <1>17, <2>1, <2>3 DEF TypeInv, TypeOK, Carried, Apply, Session, Goto, PCs, Requests
  <2>4. CASE q \in Pushes /\ Goto(q, "done") /\ UNCHANGED <<who, at, via, got>>
    BY <1>17, <2>1, <2>4 DEF TypeInv, TypeOK, Carried, Apply, Goto, PCs, Requests
  <2> QED BY <1>17, <2>2, <2>3, <2>4 DEF Apply
<1>18. ASSUME NEW q \in Requests, Lost(q) PROVE TypeInv'
  BY <1>18, EndTypes DEF TypeInv, TypeOK, Lost, PCs, Requests
<1>19. CASE UNCHANGED vars
  BY <1>19 DEF TypeInv, TypeOK, Carried, vars
<1> QED
  BY <1>1, <1>2, <1>3, <1>4, <1>5, <1>6, <1>7, <1>8, <1>9, <1>10, <1>11, <1>12, <1>13, <1>14,
     <1>15, <1>16, <1>17, <1>18, <1>19 DEF Next

\* Type correctness of linking and login, whoever sends the requests and however
\* they overlap (bank_connections.py, auth.py, webhooks.py).
THEOREM Typing == Spec => []TypeOK
<1>1. TypeInv => TypeOK
  BY DEF TypeInv
<1> QED BY <1>1, TypeInit, TypeNext, PTL DEF Spec

-----------------------------------------------------------------------------
Inv == TypeInv /\ LinkInv

LEMMA LinkInit == Init => LinkInv
  BY LinkAssumption DEF Init, LinkInv, RowsWhole, RowsApart, InTurn, Found, NoConn, Requests, Linked, RowsOf, People

\* The row of a user who waits for a response is not written by anybody else, so
\* a linked row is never written: this is where Careful is needed.
LEMMA LinkedUntouched ==
  ASSUME Inv, [Next]_vars
  PROVE  \A r \in Rows : Linked(r) => conn'[r] = conn[r]
<1> USE LinkAssumption DEF Inv, TypeInv, LinkInv
<1>1. ASSUME NEW i \in Links, InitiateUpdate(i) PROVE \A r \in Rows : Linked(r) => conn'[r] = conn[r]
  BY <1>1 DEF InitiateUpdate, InTurn, RowsOf, TypeOK
<1>2. ASSUME NEW i \in Links, InitiateCreate(i) PROVE \A r \in Rows : Linked(r) => conn'[r] = conn[r]
  BY <1>2 DEF InitiateCreate, RowsWhole, RowsOf, Linked, NoConn, TypeOK
<1>3. ASSUME NEW k \in Callbacks, MarkFailed(k) PROVE \A r \in Rows : Linked(r) => conn'[r] = conn[r]
  BY <1>3 DEF MarkFailed, InTurn, TypeOK
<1>4. ASSUME NEW k \in Callbacks, SaveLinked(k) PROVE \A r \in Rows : Linked(r) => conn'[r] = conn[r]
  BY <1>4 DEF SaveLinked, InTurn, TypeOK
<1>5. ASSUME NEW l \in Logins, LoginKnown(l) PROVE conn' = conn
  <2>1. at[l] \in Rows /\ conn[at[l]].customer = got[l] /\ got[l] \in Customers
    BY <1>5 DEF LoginKnown, Found, Carried, Requests
  <2>2. conn[at[l]].token = got[l] /\ conn[at[l]] \in ConnType
    BY <2>1 DEF RowsWhole, TypeOK, People
  <2>3. [conn[at[l]] EXCEPT !.token = got[l]] = conn[at[l]]
    BY <2>2 DEF ConnType
  <2> QED BY <1>5, <2>1, <2>3 DEF LoginKnown, TypeOK
<1>6. ASSUME NEW l \in Logins, LoginProvision(l) PROVE \A r \in Rows : Linked(r) => conn'[r] = conn[r]
  BY <1>6 DEF LoginProvision, RowsWhole, RowsOf, Linked, NoConn, TypeOK
<1>7. CASE UNCHANGED conn
  BY <1>7
<1> QED
  BY <1>1, <1>2, <1>3, <1>4, <1>5, <1>6, <1>7
  DEF Next, vars, InitiateCheck, Authorize, CallbackCheck, CallbackExchange, LoginInitiate,
      LoginExchange, LoginLook, LoginEmailCheck, LoginRaced, PushLook, Apply, Lost

\* The end of a request leaves the others where they are.
LEMMA EndInv ==
  ASSUME Inv, NEW q \in Requests, NEW there \in {"done", "lost", "refused"}, End(q, there),
         there = "done" => q \notin Pushes,
         UNCHANGED <<members, conn, accounts>>
  PROVE  RowsApart' /\ InTurn' /\ Found'
<1> USE LinkAssumption DEF Inv, TypeInv, LinkInv
<1>1. RowsApart'
  BY DEF RowsApart, End, TypeOK, Requests, People
<1>2. InTurn'
  BY DEF InTurn, End, Goto, TypeOK, Requests, RowsOf, Linked
<1>3. Found'
  BY DEF Found, End, Goto, TypeOK, Requests
<1> QED BY <1>1, <1>2, <1>3

\* Rows that nobody writes stay whole.
LEMMA WholeKept == ASSUME RowsWhole, UNCHANGED <<conn, accounts>> PROVE RowsWhole'
  BY DEF RowsWhole, Linked

LEMMA LinkNext ==
  ASSUME Careful, Inv, [Next]_vars
  PROVE  LinkInv'
<1> USE LinkAssumption DEF Inv, TypeInv, LinkInv
<1>1. ASSUME NEW i \in Links, NEW u \in People, InitiateCheck(i, u) PROVE LinkInv'
  <2>1. UNCHANGED <<members, conn, accounts, code, at, via, got>>
        /\ pc[i] = "idle" /\ SignedIn(u) /\ ~Busy(u)
        /\ pc' = [pc EXCEPT ![i] = "checked"] /\ who' = [who EXCEPT ![i] = u]
    BY <1>1 DEF InitiateCheck, Sends, Goto
  <2>2. RowsApart'
    <3>1. u \in Customers => u \in members
      BY <2>1 DEF SignedIn, RowsApart
    <3> QED BY <2>1, <3>1 DEF RowsApart, TypeOK, Requests
  <2>3. InTurn'
    <3>1. \A r \in RowsOf(u) : ~Linked(r)
      BY <1>1 DEF InitiateCheck, RowsApart, RowsOf, People
    <3> QED BY <2>1, <3>1 DEF InTurn, Busy, TypeOK, Requests, RowsOf, Linked
  <2>4. Found'
    BY <2>1 DEF Found, TypeOK, Requests
  <2> QED BY <2>1, <2>2, <2>3, <2>4, WholeKept
<1>2. ASSUME NEW i \in Links, InitiateUpdate(i) PROVE LinkInv'
  <2>1. CASE End(i, "done") /\ UNCHANGED conn
    BY <1>2, <2>1, EndInv, WholeKept DEF InitiateUpdate, Requests
  <2>2. CASE RowsOf(who[i]) = {} /\ Goto(i, "creating") /\ UNCHANGED <<conn, who, at, via, got>>
    <3>1. UNCHANGED <<members, conn, accounts, who, at, via, got>> /\ pc[i] = "checked"
          /\ pc' = [pc EXCEPT ![i] = "creating"]
      BY <1>2, <2>2 DEF InitiateUpdate, Goto
    <3>2. RowsApart'
      BY <3>1 DEF RowsApart
    <3>3. InTurn'
      BY <2>2, <3>1 DEF InTurn, TypeOK, Requests, RowsOf, Linked
    <3>4. Found'
      BY <3>1 DEF Found, TypeOK, Requests
    <3> QED BY <3>1, <3>2, <3>3, <3>4, WholeKept
  <2>3. ASSUME NEW r \in Rows, RowsOf(who[i]) = {r},
               conn' = [conn EXCEPT ![r].status = "pending_otp", ![r].state = i],
               Goto(i, "sent"), at' = [at EXCEPT ![i] = r], UNCHANGED <<who, via, got>>
        PROVE  LinkInv'
    <3>1. UNCHANGED <<members, accounts, who, via, got>> /\ pc[i] = "checked"
          /\ pc' = [pc EXCEPT ![i] = "sent"] /\ at' = [at EXCEPT ![i] = r]
      BY <1>2, <2>3 DEF InitiateUpdate, Goto
    <3>2. conn[r].user = who[i] /\ ~Linked(r) /\ who[i] \in People
      BY <2>3, <3>1 DEF RowsOf, InTurn, Carried
    <3>3. /\ \A s \in Rows : s # r => conn'[s] = conn[s]
          /\ conn'[r].user = who[i] /\ conn'[r].customer = None /\ conn[r].customer = None
          /\ conn'[r].status # "linked" /\ accounts[r] = {}
      BY <2>3, <3>2 DEF TypeOK, ConnType, RowsWhole
    <3>4. RowsWhole'
      BY <3>1, <3>2, <3>3 DEF RowsWhole, Linked
    <3>5. RowsApart'
      BY <3>1, <3>2, <3>3 DEF RowsApart
    <3>6. InTurn'
      BY <3>1, <3>2, <3>3 DEF InTurn, TypeOK, Requests, RowsOf, Linked, Carried
    <3>7. Found'
      BY <3>1, <3>2, <3>3 DEF Found, TypeOK, Requests, Carried, People
    <3> QED BY <3>4, <3>5, <3>6, <3>7
  <2> QED BY <1>2, <2>1, <2>2, <2>3 DEF InitiateUpdate
<1>3. ASSUME NEW i \in Links, InitiateCreate(i) PROVE LinkInv'
  <2>1. PICK r \in RowsOf(None) :
             /\ conn' = [conn EXCEPT ![r] = [NoConn EXCEPT !.user = who[i], !.state = i]]
             /\ at' = [at EXCEPT ![i] = r]
    BY <1>3 DEF InitiateCreate
  <2>2. UNCHANGED <<members, accounts, who, via, got>> /\ pc[i] = "creating"
        /\ pc' = [pc EXCEPT ![i] = "sent"]
    BY <1>3 DEF InitiateCreate, Goto
  <2>3. /\ r \in Rows /\ conn[r].user = None /\ conn[r] = NoConn /\ accounts[r] = {}
        /\ who[i] \in People /\ RowsOf(who[i]) = {}
        /\ who[i] \in Customers => who[i] \in members
    BY <2>1, <2>2 DEF RowsOf, RowsWhole, InTurn, Carried, RowsApart, Linked, NoConn
  <2>4. /\ \A s \in Rows : s # r => conn'[s] = conn[s]
        /\ conn'[r].user = who[i] /\ conn'[r].customer = None
        /\ conn'[r].status # "linked" /\ conn[r].status # "linked" /\ conn[r].customer = None
    BY <2>1, <2>3 DEF TypeOK, NoConn
  <2>5. RowsWhole'
    BY <2>2, <2>3, <2>4 DEF RowsWhole, Linked, People
  <2>6. RowsApart'
    BY <2>2, <2>3, <2>4 DEF RowsApart, RowsOf
  <2>7. InTurn'
    BY <2>1, <2>2, <2>3, <2>4 DEF InTurn, TypeOK, Requests, RowsOf, Linked, Carried, People
  <2>8. Found'
    BY <2>1, <2>2, <2>3, <2>4 DEF Found, TypeOK, Requests, Carried, People
  <2> QED BY <2>5, <2>6, <2>7, <2>8
<1>4. ASSUME NEW s \in States, NEW c \in Customers, Authorize(s, c) PROVE LinkInv'
  BY <1>4, WholeKept DEF Authorize, RowsApart, InTurn, Found, RowsOf, Linked
<1>5. ASSUME NEW k \in Callbacks, NEW i \in Links, CallbackCheck(k, i) PROVE LinkInv'
  <2>1. UNCHANGED <<members, conn, accounts, code, got>> /\ pc[k] = "idle" /\ pc[i] = "sent"
        /\ ~Busy(who[i]) /\ conn[at[i]].state = i
        /\ pc' = [pc EXCEPT ![k] = "checked"] /\ who' = [who EXCEPT ![k] = who[i]]
        /\ at' = [at EXCEPT ![k] = at[i]]
    BY <1>5 DEF CallbackCheck, Sends, Goto
  <2>2. at[i] \in Rows /\ ~Linked(at[i]) /\ conn[at[i]].user = who[i]
    BY <2>1 DEF Carried, RowsWhole, InTurn
  <2>3. RowsApart'
    BY <2>1 DEF RowsApart, TypeOK, Requests
  <2>4. InTurn'
    BY <2>1, <2>2 DEF InTurn, Busy, TypeOK, Requests, RowsOf, Linked
  <2>5. Found'
    BY <2>1 DEF Found, TypeOK, Requests
  <2> QED BY <2>1, <2>3, <2>4, <2>5, WholeKept
<1>6. ASSUME NEW k \in Callbacks, CallbackExchange(k) PROVE LinkInv'
  <2>1. PICK there \in {"exchanged", "failing"} :
             /\ pc' = [pc EXCEPT ![k] = there] /\ pc[k] = "checked"
             /\ \A q \in Requests : q # k => got'[q] = got[q]
             /\ UNCHANGED <<members, conn, accounts, who, at, via>>
    BY <1>6 DEF CallbackExchange, Goto, TypeOK, Requests
  <2>2. RowsApart'
    BY <2>1 DEF RowsApart
  <2>3. InTurn'
    BY <2>1 DEF InTurn, TypeOK, Requests, RowsOf, Linked
  <2>4. Found'
    BY <2>1 DEF Found, TypeOK, Requests
  <2> QED BY <2>1, <2>2, <2>3, <2>4, WholeKept
<1>7. ASSUME NEW k \in Callbacks, MarkFailed(k) PROVE LinkInv'
  <2> DEFINE r == at[k]
  <2>1. /\ pc[k] = "failing" /\ UNCHANGED <<members, accounts>>
        /\ conn' = [conn EXCEPT ![r].status = "failed", ![r].state = None]
        /\ pc' = [pc EXCEPT ![k] = "done"] /\ who' = [who EXCEPT ![k] = None]
        /\ at' = [at EXCEPT ![k] = None] /\ got' = [got EXCEPT ![k] = None]
    BY <1>7 DEF MarkFailed, End, Goto
  <2>2. r \in Rows /\ conn[r].user = who[k] /\ ~Linked(r) /\ who[k] \in People
    BY <2>1 DEF InTurn, Carried
  <2> HIDE DEF r
  <2>3. /\ \A s \in Rows : s # r => conn'[s] = conn[s]
        /\ conn'[r].user = who[k] /\ conn'[r].customer = None /\ conn[r].customer = None
        /\ conn'[r].status # "linked" /\ accounts[r] = {}
    BY <2>1, <2>2 DEF TypeOK, ConnType, RowsWhole
  <2>4. RowsWhole'
    BY <2>1, <2>2, <2>3, ZenonT(30) DEF RowsWhole, Linked, People
  <2>5. RowsApart'
    BY <2>1, <2>2, <2>3 DEF RowsApart, TypeOK, Requests, People
  <2>6. InTurn'
    BY <2>1, <2>2, <2>3 DEF InTurn, TypeOK, Requests, RowsOf, Linked, Carried
  <2>7. Found'
    BY <2>1, <2>2, <2>3 DEF Found, TypeOK, Requests, Carried, People
  <2> QED BY <2>4, <2>5, <2>6, <2>7
<1>8. ASSUME NEW k \in Callbacks, SaveLinked(k) PROVE LinkInv'
  <2>1. CASE End(k, "done") /\ UNCHANGED conn
    BY <1>8, <2>1, EndInv, WholeKept DEF SaveLinked, Requests
  <2>2. CASE ~(Taken(got[k], at[k]) \/ SecondLink(conn[at[k]].user, at[k]))
    <3> DEFINE r == at[k]
               linked == [conn[r] EXCEPT !.status = "linked", !.state = None,
                                         !.customer = got[k], !.token = got[k]]
    <3>1. /\ conn' = [conn EXCEPT ![r] = linked] /\ pc' = [pc EXCEPT ![k] = "applying"]
          /\ pc[k] = "exchanged" /\ UNCHANGED <<members, accounts, who, at, via, got>>
          /\ ~Taken(got[k], r)
      BY <1>8, <2>2 DEF SaveLinked, Goto
    <3>2. /\ r \in Rows /\ conn[r] \in ConnType /\ got[k] \in Customers
          /\ conn[r].user = who[k] /\ ~Linked(r) /\ who[k] \in People
      BY <3>1 DEF InTurn, Carried, TypeOK
    <3>3. /\ linked.user = who[k] /\ linked.customer = got[k] /\ linked.token = got[k]
          /\ linked.state = None /\ linked.status = "linked"
      BY <3>2 DEF ConnType
    <3>4. /\ \A s \in Rows : s # r => conn'[s] = conn[s] /\ conn[s].customer # got[k]
          /\ conn'[r] = linked /\ conn[r].customer = None /\ accounts[r] = {}
      BY <3>1, <3>2 DEF TypeOK, Taken, RowsFor, RowsWhole
    <3> HIDE DEF linked
    <3>5. RowsWhole'
      BY <3>1, <3>2, <3>3, <3>4 DEF RowsWhole, Linked, People
    <3>6. RowsApart'
      BY <3>1, <3>2, <3>3, <3>4 DEF RowsApart
    <3>7. InTurn'
      BY <3>1, <3>2, <3>3, <3>4 DEF InTurn, TypeOK, Requests, RowsOf, Linked, Carried
    <3>8. Found'
      BY <3>1, <3>2, <3>3, <3>4 DEF Found, TypeOK, Requests, Carried, People
    <3> QED BY <3>5, <3>6, <3>7, <3>8
  <2> QED BY <1>8, <2>1, <2>2 DEF SaveLinked
<1>9. ASSUME NEW l \in Logins, LoginInitiate(l) PROVE LinkInv'
  <2>1. UNCHANGED <<members, conn, accounts, who, at, via, got>> /\ pc' = [pc EXCEPT ![l] = "sent"]
    BY <1>9 DEF LoginInitiate, Goto
  <2>2. RowsApart' /\ InTurn'
    BY <2>1 DEF RowsApart, InTurn, TypeOK, Requests, RowsOf, Linked
  <2>3. Found'
    BY <2>1 DEF Found, TypeOK, Requests
  <2> QED BY <2>1, <2>2, <2>3, WholeKept
<1>10. ASSUME NEW l \in Logins, LoginExchange(l) PROVE LinkInv'
  <2>1. CASE End(l, "done")
    BY <1>10, <2>1, EndInv, WholeKept DEF LoginExchange, Requests
  <2>2. CASE Goto(l, "exchanged") /\ got' = [got EXCEPT ![l] = code[l].customer] /\ UNCHANGED <<who, at, via>>
    <3>1. UNCHANGED <<members, conn, accounts>>
      BY <1>10 DEF LoginExchange
    <3>2. RowsApart' /\ InTurn'
      BY <2>2, <3>1 DEF RowsApart, InTurn, Goto, TypeOK, Requests, RowsOf, Linked
    <3>3. Found'
      BY <2>2, <3>1 DEF Found, Goto, TypeOK, Requests
    <3> QED BY <3>1, <3>2, <3>3, WholeKept
  <2> QED BY <1>10, <2>1, <2>2 DEF LoginExchange
<1>11. ASSUME NEW l \in Logins, LoginLook(l) PROVE LinkInv'
  <2>1. UNCHANGED <<members, conn, accounts, via, got>> /\ pc[l] = "exchanged"
    BY <1>11 DEF LoginLook
  <2>2. ASSUME NEW r \in RowsFor(got[l]), Goto(l, "known"), at' = [at EXCEPT ![l] = r],
               who' = [who EXCEPT ![l] = conn[r].user]
        PROVE  LinkInv'
    <3>1. r \in Rows /\ conn[r].customer = got[l]
      BY <2>2 DEF RowsFor
    <3>2. RowsApart'
      BY <2>1, <2>2, <3>1 DEF RowsApart, TypeOK, Requests
    <3>3. InTurn'
      BY <2>1, <2>2 DEF InTurn, Goto, TypeOK, Requests, RowsOf, Linked
    <3>4. Found'
      BY <2>1, <2>2, <3>1 DEF Found, Goto, TypeOK, Requests
    <3> QED BY <2>1, <3>2, <3>3, <3>4, WholeKept
  <2>3. CASE Goto(l, "unknown") /\ UNCHANGED <<who, at>>
    <3>1. RowsApart' /\ InTurn'
      BY <2>1, <2>3 DEF RowsApart, InTurn, Goto, TypeOK, Requests, RowsOf, Linked
    <3>2. Found'
      BY <2>1, <2>3 DEF Found, Goto, TypeOK, Requests
    <3> QED BY <2>1, <3>1, <3>2, WholeKept
  <2> QED BY <1>11, <2>2, <2>3 DEF LoginLook
<1>12. ASSUME NEW l \in Logins, LoginKnown(l) PROVE LinkInv'
  <2>1. /\ at[l] \in Rows /\ conn[at[l]].customer = got[l] /\ conn[at[l]].user = who[l]
        /\ pc[l] = "known" /\ UNCHANGED <<members, accounts, via, got>>
    <3>1. pc[l] = "known" /\ UNCHANGED <<members, accounts, via>> /\ got' = got
      BY <1>12 DEF LoginKnown, Session
    <3>2. at[l] \in Rows
      BY <3>1 DEF Carried
    <3> QED BY <3>1, <3>2 DEF Found, Requests
  <2>2. conn' = conn
    <3>1. got[l] \in Customers /\ Linked(at[l])
      BY <2>1 DEF Carried, RowsWhole, People
    <3>2. conn'[at[l]] = conn[at[l]]
      BY <2>1, <3>1, LinkedUntouched
    <3> QED BY <1>12, <2>1, <3>2 DEF LoginKnown, TypeOK
  <2>3. CASE Goto(l, "applying") /\ UNCHANGED <<who, at, via, got>>
    <3>1. RowsApart' /\ InTurn'
      BY <2>1, <2>2, <2>3 DEF RowsApart, InTurn, Goto, TypeOK, Requests, RowsOf, Linked
    <3>2. Found'
      BY <2>1, <2>2, <2>3 DEF Found, Goto, TypeOK, Requests
    <3> QED BY <2>1, <2>2, <3>1, <3>2, WholeKept
  <2>4. CASE Session(l, who[l])
    <3>1. RowsApart' /\ InTurn'
      BY <2>1, <2>2, <2>4 DEF RowsApart, InTurn, Session, Goto, TypeOK, Requests, RowsOf, Linked
    <3>2. Found'
      BY <2>1, <2>2, <2>4 DEF Found, Session, Goto, TypeOK, Requests
    <3> QED BY <2>1, <2>2, <3>1, <3>2, WholeKept
  <2> QED BY <1>12, <2>3, <2>4 DEF LoginKnown
<1>13. ASSUME NEW l \in Logins, LoginEmailCheck(l) PROVE LinkInv'
  <2>1. ASSUME NEW there \in {"refused", "done"}, End(l, there) PROVE LinkInv'
    BY <1>13, <2>1, EndInv, WholeKept DEF LoginEmailCheck, Requests
  <2>2. CASE Goto(l, "new") /\ UNCHANGED <<who, at, via, got>>
    <3>1. UNCHANGED <<members, conn, accounts>>
      BY <1>13 DEF LoginEmailCheck
    <3>2. RowsApart' /\ InTurn'
      BY <2>2, <3>1 DEF RowsApart, InTurn, Goto, TypeOK, Requests, RowsOf, Linked
    <3>3. Found'
      BY <2>2, <3>1 DEF Found, Goto, TypeOK, Requests
    <3> QED BY <3>1, <3>2, <3>3, WholeKept
  <2> QED BY <1>13, <2>1, <2>2 DEF LoginEmailCheck
<1>14. ASSUME NEW l \in Logins, LoginProvision(l) PROVE LinkInv'
  <2> DEFINE c == got[l]
             row == [user |-> c, status |-> "linked", state |-> None, customer |-> c, token |-> c]
  <2>1. pc[l] = "new" /\ UNCHANGED <<accounts, via, got>> /\ c \in Customers
    BY <1>14 DEF LoginProvision, Carried
  <2>2. CASE Goto(l, "raced") /\ UNCHANGED <<members, conn, who, at>>
    <3>1. RowsApart' /\ InTurn'
      BY <2>1, <2>2 DEF RowsApart, InTurn, Goto, TypeOK, Requests, RowsOf, Linked
    <3>2. Found'
      BY <2>1, <2>2 DEF Found, Goto, TypeOK, Requests
    <3> QED BY <2>1, <2>2, <3>1, <3>2, WholeKept
  <2>3. ASSUME NEW r \in RowsOf(None), conn' = [conn EXCEPT ![r] = row], members' = members \cup {c},
               who' = [who EXCEPT ![l] = c], at' = [at EXCEPT ![l] = r], Goto(l, "applying"),
               c \notin members, ~Taken(c, r)
        PROVE  LinkInv'
    <3>1. r \in Rows /\ conn[r].user = None /\ conn[r] = NoConn /\ accounts[r] = {} /\ c # None
      BY <2>1, <2>3 DEF RowsOf, RowsWhole, Linked, NoConn, People
    <3>2. /\ \A s \in Rows : s # r => conn'[s] = conn[s] /\ conn[s].customer # c /\ conn[s].user # c
          /\ conn'[r].user = c /\ conn'[r].customer = c /\ conn'[r].token = c
          /\ conn'[r].state = None /\ conn'[r].status = "linked"
          /\ conn[r].customer = None /\ conn[r].status # "linked"
      BY <2>1, <2>3, <3>1 DEF TypeOK, Taken, RowsFor, RowsApart, NoConn
    <3> HIDE DEF row, c
    <3>3. RowsWhole'
      BY <2>1, <3>1, <3>2 DEF RowsWhole, Linked
    <3>4. RowsApart'
      BY <2>1, <2>3, <3>1, <3>2 DEF RowsApart, TypeOK, Requests
    <3>5. InTurn'
      BY <2>1, <2>3, <3>1, <3>2 DEF InTurn, Goto, TypeOK, Requests, RowsOf, Linked, Carried, RowsApart, People
    <3>6. Found'
      BY <2>1, <2>3, <3>1, <3>2 DEF c, Found, Goto, TypeOK, Requests, Carried, People
    <3> QED BY <3>3, <3>4, <3>5, <3>6
  <2> QED BY <1>14, <2>2, <2>3 DEF LoginProvision
<1>15. ASSUME NEW l \in Logins, LoginRaced(l) PROVE LinkInv'
  <2>1. UNCHANGED <<members, conn, accounts>> /\ pc[l] = "raced"
    BY <1>15 DEF LoginRaced
  <2>2. CASE End(l, "refused")
    BY <2>1, <2>2, EndInv, WholeKept DEF Requests
  <2>3. ASSUME NEW r \in RowsFor(got[l]), Session(l, conn[r].user) PROVE LinkInv'
    <3>1. r \in Rows /\ conn[r].customer = got[l]
      BY <2>3 DEF RowsFor
    <3>2. RowsApart'
      BY <2>1, <2>3, <3>1 DEF RowsApart, Session, TypeOK, Requests
    <3>3. InTurn'
      BY <2>1, <2>3 DEF InTurn, Session, Goto, TypeOK, Requests, RowsOf, Linked
    <3>4. Found'
      BY <2>1, <2>3, <3>1 DEF Found, Session, Goto, TypeOK, Requests
    <3> QED BY <2>1, <3>2, <3>3, <3>4, WholeKept
  <2> QED BY <1>15, <2>2, <2>3 DEF LoginRaced
<1>16. ASSUME NEW p \in Pushes, NEW c \in Customers, PushLook(p, c) PROVE LinkInv'
  <2>1. UNCHANGED <<members, conn, accounts, via>> /\ pc[p] = "idle"
        /\ who' = [who EXCEPT ![p] = c] /\ c \in People
    BY <1>16 DEF PushLook, People
  <2>2. CASE Goto(p, "refused") /\ UNCHANGED <<at, got>>
    <3>1. RowsApart' /\ InTurn'
      BY <2>1, <2>2 DEF RowsApart, InTurn, Goto, TypeOK, Requests, RowsOf, Linked
    <3>2. Found'
      BY <2>1, <2>2 DEF Found, Goto, TypeOK, Requests
    <3> QED BY <2>1, <3>1, <3>2, WholeKept
  <2>3. ASSUME NEW r \in Rows, NEW there \in {"done", "applying"},
               Linked(r), conn[r].customer = c, Goto(p, there), at' = [at EXCEPT ![p] = r],
               \A q \in Requests : q # p => got'[q] = got[q],
               there = "applying" => got'[p] = conn[r].token
        PROVE  LinkInv'
    <3>1. RowsApart' /\ InTurn'
      BY <2>1, <2>3 DEF RowsApart, InTurn, Goto, TypeOK, Requests, RowsOf, Linked
    <3>2. Found'
      BY <2>1, <2>3 DEF Found, Goto, TypeOK, Requests, RowsWhole
    <3> QED BY <2>1, <3>1, <3>2, WholeKept
  <2>4. \A r \in Rows : Linked(r) /\ c \in accounts[r] => conn[r].customer = c
    BY DEF RowsWhole
  <2>5. ASSUME NEW r \in Rows, Linked(r), c \in accounts[r],
               at' = [at EXCEPT ![p] = r], Goto(p, "done"), UNCHANGED got
        PROVE  LinkInv'
    BY <2>3, <2>4, <2>5
  <2>6. ASSUME NEW r \in RowsFor(c), Linked(r), at' = [at EXCEPT ![p] = r],
               got' = [got EXCEPT ![p] = conn[r].token], Goto(p, "applying")
        PROVE  LinkInv'
    BY <2>3, <2>6 DEF RowsFor, TypeOK, Requests
  <2> QED BY <1>16, <2>2, <2>5, <2>6 DEF PushLook
<1>17. ASSUME NEW q \in Requests, Apply(q) PROVE LinkInv'
  <2> DEFINE theirs == accounts[at[q]] \cup {got[q]}
  <2>1. UNCHANGED <<members, conn>> /\ pc[q] = "applying"
        /\ accounts' = [accounts EXCEPT ![at[q]] = theirs]
    BY <1>17 DEF Apply
  <2>2. at[q] \in Rows /\ conn[at[q]].customer = got[q] /\ got[q] \in Customers
    BY <2>1 DEF Found, Carried, Requests
  <2>3. theirs = {conn[at[q]].customer} /\ Linked(at[q])
    BY <2>2 DEF RowsWhole, People, TypeOK
  <2> HIDE DEF theirs
  <2>4. RowsWhole'
    BY <2>1, <2>2, <2>3 DEF RowsWhole, Linked, TypeOK
  <2>5. ASSUME NEW there \in {"done", "refused"}, End(q, there), there = "done" => q \notin Pushes
        PROVE  RowsApart' /\ InTurn' /\ Found'
    <3>1. RowsApart'
      BY <2>1, <2>5 DEF RowsApart, End, TypeOK, Requests, People
    <3>2. InTurn'
      BY <2>1, <2>5 DEF InTurn, End, Goto, TypeOK, Requests, RowsOf, Linked
    <3>3. Found'
      BY <2>1, <2>5 DEF Found, End, Goto, TypeOK, Requests
    <3> QED BY <3>1, <3>2, <3>3
  <2>6. ASSUME q \in Logins, Session(q, who[q]) PROVE RowsApart' /\ InTurn' /\ Found'
    <3>1. RowsApart' /\ InTurn'
      BY <2>1, <2>6 DEF RowsApart, InTurn, Session, Goto, TypeOK, Requests, RowsOf, Linked
    <3>2. Found'
      BY <2>1, <2>2, <2>6 DEF Found, Session, Goto, TypeOK, Requests
    <3> QED BY <3>1, <3>2
  <2>7. ASSUME q \in Pushes, Goto(q, "done"), UNCHANGED <<who, at, via, got>>
        PROVE  RowsApart' /\ InTurn' /\ Found'
    <3>1. RowsApart' /\ InTurn'
      BY <2>1, <2>7 DEF RowsApart, InTurn, Goto, TypeOK, Requests, RowsOf, Linked
    <3>2. Found'
      BY <2>1, <2>7 DEF Found, Goto, TypeOK, Requests
    <3> QED BY <3>1, <3>2
  <2> QED BY <1>17, <2>4, <2>5, <2>6, <2>7 DEF Apply
<1>18. ASSUME NEW q \in Requests, Lost(q) PROVE LinkInv'
  BY <1>18, EndInv, WholeKept DEF Lost
<1>19. CASE UNCHANGED vars
  BY <1>19, WholeKept DEF vars, RowsApart, InTurn, Found, RowsOf, Linked
<1> QED
  BY <1>1, <1>2, <1>3, <1>4, <1>5, <1>6, <1>7, <1>8, <1>9, <1>10, <1>11, <1>12, <1>13, <1>14,
     <1>15, <1>16, <1>17, <1>18, <1>19 DEF Next

LEMMA Linking == ASSUME Careful PROVE Spec => []Inv
<1>1. Init => Inv
  BY TypeInit, LinkInit DEF Inv
<1>2. Inv /\ [Next]_vars => Inv'
  BY TypeNext, LinkNext DEF Inv
<1> QED BY <1>1, <1>2, PTL DEF Spec

\* A linked connection stays one, if users wait for their responses: no late
\* callback marks it failed, no other initiation makes it pending again.
THEOREM StaysLinked == ASSUME Careful PROVE Spec => LinkedStays
<1>1. Inv /\ [Next]_vars => [\A r \in Rows : Linked(r) => conn'[r].status = "linked"]_conn
  BY LinkedUntouched DEF Linked
<1> QED BY <1>1, Linking, PTL DEF Spec, LinkedStays

\* A customer, once bound to a user, stays bound to that user.
THEOREM Bound == ASSUME Careful PROVE Spec => CustomerKeepsUser
<1>1. Inv /\ [Next]_vars =>
        [\A r \in Rows, c \in Customers :
           r \in RowsFor(c) => \E s \in Rows : conn'[s].customer = c
                                            /\ conn'[s].user = conn[r].user]_conn
  <2> SUFFICES ASSUME Inv, [Next]_vars, NEW r \in Rows, NEW c \in Customers, r \in RowsFor(c)
               PROVE  \E s \in Rows : conn'[s].customer = c /\ conn'[s].user = conn[r].user
    OBVIOUS
  <2>1. conn[r].customer = c /\ Linked(r)
    BY LinkAssumption DEF RowsFor, Inv, LinkInv, RowsWhole, People
  <2>2. conn'[r] = conn[r]
    BY <2>1, LinkedUntouched
  <2> QED BY <2>1, <2>2
<1> QED BY <1>1, Linking, PTL DEF Spec, CustomerKeepsUser

\* All sessions that logins of a customer open are one user's: what
\* unique_bank_customer_identity is there for.
THEOREM OneUser == ASSUME Careful PROVE Spec => []OneUserPerCustomer
<1>1. Inv => OneUserPerCustomer
  <2> SUFFICES ASSUME Inv, NEW l \in Logins, NEW m \in Logins,
                      pc[l] = "done", pc[m] = "done", got[l] = got[m], got[l] # None
               PROVE  who[l] = who[m]
    BY DEF OneUserPerCustomer
  <2>1. PICK r \in Rows : conn[r].user = who[l] /\ conn[r].customer = got[l]
    BY DEF Inv, LinkInv, Found
  <2>2. PICK s \in Rows : conn[s].user = who[m] /\ conn[s].customer = got[m]
    BY DEF Inv, LinkInv, Found
  <2> QED BY <2>1, <2>2 DEF Inv, LinkInv, RowsApart
<1> QED BY <1>1, Linking, PTL

\* A linked connection has its customer's token and its customer's accounts.
THEOREM OneCustomer == ASSUME Careful PROVE Spec => []LinkOfOneCustomer
<1>1. Inv => LinkOfOneCustomer
  BY DEF Inv, LinkInv, RowsWhole, LinkOfOneCustomer
<1> QED BY <1>1, Linking, PTL

\* Pushed transactions of a customer go to the user the customer is bound to.
THEOREM PushedHome == ASSUME Careful PROVE Spec => []PushGoesHome
<1>1. Inv => PushGoesHome
  BY DEF Inv, LinkInv, Found, PushGoesHome
<1> QED BY <1>1, Linking, PTL

-----------------------------------------------------------------------------
\* What cannot break LinkedHasAccounts: no row is newly linked, and whoever is
\* about to apply accounts still is.
LEMMA AppliersStay ==
  ASSUME TypeInv, LinkedHasAccounts, UNCHANGED accounts,
         \A q \in Requests : pc[q] = "applying" => pc'[q] = "applying" /\ at'[q] = at[q],
         \A q \in Requests : pc[q] = "lost" => pc'[q] = "lost",
         \A r \in Rows : Linked(r)' => Linked(r)
  PROVE  LinkedHasAccounts'
  BY DEF LinkedHasAccounts, Linked

\* Nor does a row that is saved as anything but linked.
LEMMA Unlinking ==
  ASSUME TypeInv, NEW s \in Rows, NEW status \in {"pending_otp", "failed"}, NEW state,
         conn' = [conn EXCEPT ![s].status = status, ![s].state = state]
  PROVE  \A r \in Rows : Linked(r)' => Linked(r)
<1> SUFFICES ASSUME NEW r \in Rows, Linked(r)' PROVE Linked(r)
  OBVIOUS
<1>1. conn[s] \in ConnType /\ conn'[r].status = "linked"
  BY DEF TypeInv, TypeOK, Linked
<1>2. r # s
  BY <1>1 DEF TypeInv, TypeOK, ConnType
<1>3. conn'[r] = conn[r]
  BY <1>2 DEF TypeInv, TypeOK
<1> QED BY <1>1, <1>3 DEF Linked

LEMMA AccountsNext ==
  ASSUME TypeInv, LinkedHasAccounts, [Next]_vars
  PROVE  LinkedHasAccounts'
<1> USE LinkAssumption DEF TypeInv, TypeOK, Requests, Goto, End, Session
<1>1. ASSUME NEW i \in Links, NEW u \in People, InitiateCheck(i, u) PROVE LinkedHasAccounts'
  BY <1>1, AppliersStay DEF InitiateCheck, Sends, Linked
<1>2. ASSUME NEW i \in Links, InitiateUpdate(i) PROVE LinkedHasAccounts'
  <2>1. /\ UNCHANGED accounts /\ pc[i] = "checked"
        /\ \A q \in Requests : q # i => pc'[q] = pc[q] /\ at'[q] = at[q]
    BY <1>2 DEF InitiateUpdate
  <2>2. \A r \in Rows : Linked(r)' => Linked(r)
    <3>1. CASE UNCHANGED conn
      BY <3>1 DEF Linked
    <3>2. ASSUME NEW s \in Rows, conn' = [conn EXCEPT ![s].status = "pending_otp", ![s].state = i]
          PROVE  \A r \in Rows : Linked(r)' => Linked(r)
      BY <3>2, Unlinking
    <3> QED BY <1>2, <3>1, <3>2 DEF InitiateUpdate
  <2> QED BY <2>1, <2>2, AppliersStay
<1>3. ASSUME NEW i \in Links, InitiateCreate(i) PROVE LinkedHasAccounts'
  BY <1>3, AppliersStay DEF InitiateCreate, RowsOf, Linked, NoConn
<1>4. ASSUME NEW k \in Callbacks, NEW i \in Links, CallbackCheck(k, i) PROVE LinkedHasAccounts'
  BY <1>4, AppliersStay DEF CallbackCheck, Sends, Linked
<1>5. ASSUME NEW k \in Callbacks, CallbackExchange(k) \/ MarkFailed(k) PROVE LinkedHasAccounts'
  <2>1. UNCHANGED accounts /\ \A q \in Requests : q # k => pc'[q] = pc[q] /\ at'[q] = at[q]
    BY <1>5 DEF CallbackExchange, MarkFailed
  <2>2. pc[k] \in {"checked", "failing"}
    BY <1>5 DEF CallbackExchange, MarkFailed
  <2>3. \A r \in Rows : Linked(r)' => Linked(r)
    <3>1. CASE CallbackExchange(k)
      BY <3>1 DEF CallbackExchange, Linked
    <3>2. CASE MarkFailed(k)
      <4>1. at[k] \in Rows /\ conn' = [conn EXCEPT ![at[k]].status = "failed", ![at[k]].state = None]
        BY <3>2 DEF MarkFailed, Carried
      <4> QED BY <4>1, Unlinking
    <3> QED BY <1>5, <3>1, <3>2
  <2> QED BY <2>1, <2>2, <2>3, AppliersStay
<1>6. ASSUME NEW k \in Callbacks, SaveLinked(k) PROVE LinkedHasAccounts'
  BY <1>6 DEF SaveLinked, LinkedHasAccounts, Linked
<1>7. ASSUME NEW l \in Logins,
             LoginInitiate(l) \/ LoginExchange(l) \/ LoginLook(l) \/ LoginEmailCheck(l) \/ LoginRaced(l)
      PROVE  LinkedHasAccounts'
  BY <1>7, AppliersStay
  DEF LoginInitiate, LoginExchange, LoginLook, LoginEmailCheck, LoginRaced, Linked
<1>8. ASSUME NEW l \in Logins, LoginKnown(l) PROVE LinkedHasAccounts'
  BY <1>8, AppliersStay DEF LoginKnown, Linked
<1>9. ASSUME NEW l \in Logins, LoginProvision(l) PROVE LinkedHasAccounts'
  BY <1>9 DEF LoginProvision, LinkedHasAccounts, Linked, RowsOf
<1>10. ASSUME NEW p \in Pushes, NEW c \in Customers, PushLook(p, c) PROVE LinkedHasAccounts'
  BY <1>10, AppliersStay DEF PushLook, Linked
<1>11. ASSUME NEW q \in Requests, Apply(q) PROVE LinkedHasAccounts'
  <2>1. at[q] \in Rows /\ pc[q] = "applying"
    BY <1>11 DEF Apply, Carried
  <2>2. accounts'[at[q]] # {} /\ \A r \in Rows : r # at[q] => accounts'[r] = accounts[r]
    BY <1>11, <2>1 DEF Apply
  <2>3. conn' = conn /\ \A o \in Requests : o # q => pc'[o] = pc[o] /\ at'[o] = at[o]
    BY <1>11, <2>1 DEF Apply
  <2> QED BY <2>1, <2>2, <2>3 DEF LinkedHasAccounts, Linked
<1>12. ASSUME NEW q \in Requests, Lost(q) PROVE LinkedHasAccounts'
  BY <1>12 DEF Lost, LinkedHasAccounts
<1>13. ASSUME NEW s \in States, NEW c \in Customers, Authorize(s, c) PROVE LinkedHasAccounts'
  BY <1>13, AppliersStay DEF Authorize, Linked
<1>14. CASE UNCHANGED vars
  BY <1>14, AppliersStay DEF vars, Linked
<1> QED
  BY <1>1, <1>2, <1>3, <1>4, <1>5, <1>6, <1>7, <1>8, <1>9, <1>10, <1>11, <1>12, <1>13, <1>14 DEF Next

\* Whoever saves a connection as linked goes on to apply its accounts, however
\* requests overlap, unless its process is killed (SaveLinked, LoginProvision).
THEOREM HasAccounts == Spec => []LinkedHasAccounts
<1>1. Init => LinkedHasAccounts
  BY DEF Init, LinkedHasAccounts, Linked, NoConn
<1> QED BY <1>1, TypeInit, TypeNext, AccountsNext, PTL DEF Spec
=============================================================================
