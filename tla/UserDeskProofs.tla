--------------------------- MODULE UserDeskProofs ----------------------------
(***************************************************************************)
(* Proofs about Sessions, AccountRegistry, BudgetPlan, ChatReply and       *)
(* AdminDesk, for any number of tokens, tickets, accounts, banks,          *)
(* categories, conversations, templates and threads, and lists of          *)
(* allocations of any length, assuming that nobody starts a change of a    *)
(* row while another change of it is under way (CarefulProfile,            *)
(* CarefulLinker, CarefulBudgeter, CarefulAdmin).  What the user is told   *)
(* of a chat, and how often a token is honoured, needs no such assumption. *)
(***************************************************************************)
EXTENDS Sessions, AccountRegistry, BudgetPlan, ChatReply, AdminDesk,
        FiniteSetTheorems, SequenceTheorems, TLAPS

(***************************************************************************)
(* Sessions, and the user's row                                            *)
(***************************************************************************)

\* A session of an older password that is still open, and of which no login or refresh
\* was in flight when the password changed, is one that a reset is about to close.
OldSessionsDoomed ==
  \A t \in Tokens : Live(t) /\ ~token[t].late /\ token[t].born # user.password =>
    \E r \in SessionThreads :
      \/ IsAt(r, "changed")
      \/ IsAt(r, "sweeping") /\ sessionReq[r].reset /\ t \in sessionReq[r].left

\* A token that is about to be issued, and that no reset overlaps, stands for the
\* present password.
IssuesFresh ==
  \A r \in SessionThreads :
    (IsAt(r, "minting") \/ IsAt(r, "rotating")) /\ ~sessionReq[r].late
      => sessionReq[r].born = user.password

\* What a profile change has read is what is stored, and nobody else is about to change
\* the row.
ProfileFresh ==
  \A r \in SessionThreads : IsAt(r, "profile") =>
    /\ sessionReq[r].copy = user
    /\ \A q \in SessionThreads : ~IsAt(q, "resetting") /\ ~IsAt(q, "verifying")

SessionInv ==
  /\ SessionTypeOK /\ OldSessionsDoomed /\ IssuesFresh /\ ProfileFresh /\ ColumnsAsStated

\* What holds of the sessions and of the row, apart from the types.
Sessional == OldSessionsDoomed /\ IssuesFresh /\ ProfileFresh /\ ColumnsAsStated

SessionRequests == Quiet \cup Minting \cup Rotating \cup Saving \cup Resets \cup Sweeping

LEMMA SessionKinds ==
  ASSUME NEW req \in SessionRequests
  PROVE  /\ req.at = "minting" => req \in Minting
         /\ req.at = "rotating" => req \in Rotating
         /\ req.at \in {"verifying", "profile"} => req \in Saving
         /\ req.at = "resetting" => req \in Resets
         /\ req.at \in {"changed", "sweeping"} => req \in Sweeping
BY DEF SessionRequests, Quiet, Minting, Rotating, Saving, Resets, Sweeping

LEMMA SessionStored ==
  ASSUME SessionTypeOK, NEW r \in SessionThreads, NEW req \in SessionRequests
  PROVE  /\ [sessionReq EXCEPT ![r] = req] \in [SessionThreads -> SessionRequests]
         /\ [sessionReq EXCEPT ![r] = req][r] = req
         /\ \A q \in SessionThreads : q # r => [sessionReq EXCEPT ![r] = req][q] = sessionReq[q]
BY DEF SessionTypeOK, SessionRequests

LEMMA IdleIsRequest == [at |-> "idle"] \in SessionRequests
BY DEF SessionRequests, Quiet

\* To blacklist tokens opens none.
LEMMA BlacklistedTyped ==
  ASSUME SessionTypeOK, NEW tokens \in SUBSET Tokens
  PROVE  /\ Blacklisted(tokens) \in [Tokens -> Token]
         /\ \A t \in Tokens : Blacklisted(tokens)[t].state = "live" =>
              t \notin tokens /\ Blacklisted(tokens)[t] = token[t]
<1>1. \A t \in Tokens : token[t] \in Token
  BY DEF SessionTypeOK
<1>2. ASSUME NEW t \in Tokens
      PROVE  /\ [token[t] EXCEPT !.state = "blacklisted"] \in Token
             /\ [token[t] EXCEPT !.state = "blacklisted"].state = "blacklisted"
  BY <1>1 DEF Token
<1>. QED
  BY <1>1, <1>2 DEF Blacklisted

\* A thread that was not closing sessions goes on, the row stays, and no token is issued.
LEMMA ThreadGoesOn ==
  ASSUME Sessional, NEW r \in SessionThreads,
         ~IsAt(r, "changed"), ~IsAt(r, "sweeping"),
         sessionReq'[r].at \in {"idle", "minting", "rotating", "sweeping"},
         IsAt(r, "minting")' \/ IsAt(r, "rotating")' =>
           sessionReq'[r].late \/ sessionReq'[r].born = user.password,
         \A q \in SessionThreads : q # r => sessionReq'[q] = sessionReq[q],
         \A t \in Tokens : Live(t)' => token'[t] = token[t],
         UNCHANGED <<user, userStated>>
  PROVE  Sessional'
<1>1. OldSessionsDoomed'
  BY DEF Sessional, OldSessionsDoomed, IsAt, Live
<1>2. IssuesFresh'
  BY DEF Sessional, IssuesFresh, IsAt
<1>3. ProfileFresh'
  BY DEF Sessional, ProfileFresh, IsAt
<1>4. ColumnsAsStated'
  BY DEF Sessional, ColumnsAsStated
<1>. QED
  BY <1>1, <1>2, <1>3, <1>4 DEF Sessional

\* Nothing happens but that tokens are blacklisted.
LEMMA ThreadsStay ==
  ASSUME Sessional, UNCHANGED <<user, userStated, sessionReq>>,
         \A t \in Tokens : Live(t)' => token'[t] = token[t]
  PROVE  Sessional'
<1>1. OldSessionsDoomed'
  BY DEF Sessional, OldSessionsDoomed, IsAt, Live
<1>2. IssuesFresh'
  BY DEF Sessional, IssuesFresh, IsAt
<1>3. ProfileFresh'
  BY DEF Sessional, ProfileFresh, IsAt
<1>4. ColumnsAsStated'
  BY DEF Sessional, ColumnsAsStated
<1>. QED
  BY <1>1, <1>2, <1>3, <1>4 DEF Sessional

LEMMA NoTicketTyped ==
  ASSUME SessionAssumption, NEW kind \in {"none", "redeemed"}
  PROVE  NoTicket(kind) \in Ticket
<1>1. Cardinality(Tickets) \in Nat
  BY FS_CardinalityType DEF SessionAssumption
<1>. QED
  BY <1>1 DEF NoTicket, Ticket, User, Passwords

\* A password that is set has a name of its own, one beyond those of the links redeemed before.
LEMMA NewPasswordTyped ==
  ASSUME SessionAssumption, NEW k \in Tickets, ticket[k].kind # "redeemed"
  PROVE  NewPassword \in Passwords
<1>. DEFINE redeemed == {j \in Tickets : ticket[j].kind = "redeemed"}
<1>1. /\ IsFiniteSet(Tickets) /\ redeemed \subseteq Tickets /\ redeemed # Tickets
  BY DEF SessionAssumption
<1>2. /\ Cardinality(redeemed) \in Nat /\ Cardinality(Tickets) \in Nat
      /\ Cardinality(redeemed) < Cardinality(Tickets)
  BY <1>1, FS_Subset, FS_CardinalityType
<1>. QED
  BY <1>2 DEF NewPassword, Passwords

LEMMA LoginCheckKeeps ==
  ASSUME SessionInv, NEW r \in SessionThreads, LoginCheck(r)
  PROVE  SessionInv'
<1>. DEFINE req == [at |-> "minting", born |-> user.password, late |-> FALSE]
<1>1. req \in SessionRequests /\ sessionReq' = [sessionReq EXCEPT ![r] = req] /\ IsAt(r, "idle")
  BY DEF SessionInv, SessionTypeOK, User, SessionRequests, Minting, LoginCheck, Starts
<1>2. SessionTypeOK'
  BY <1>1, SessionStored DEF SessionInv, SessionTypeOK, SessionRequests, LoginCheck
<1>3. sessionReq'[r] = req /\ \A q \in SessionThreads : q # r => sessionReq'[q] = sessionReq[q]
  BY <1>1, SessionStored DEF SessionInv
<1>4. Sessional'
  BY <1>1, <1>3, ThreadGoesOn DEF SessionInv, Sessional, LoginCheck, IsAt
<1>. QED
  BY <1>2, <1>4 DEF SessionInv, Sessional

LEMMA MintKeeps ==
  ASSUME SessionInv, NEW r \in SessionThreads, NEW t \in Tokens, Mint(r, t)
  PROVE  SessionInv'
<1>. DEFINE issued == [state |-> "live", born |-> sessionReq[r].born, late |-> sessionReq[r].late]
<1>1. issued \in Token /\ (~issued.late => issued.born = user.password)
  <2>1. sessionReq[r] \in Minting
    BY SessionKinds DEF SessionInv, SessionTypeOK, SessionRequests, Mint, IsAt
  <2>2. ~sessionReq[r].late => sessionReq[r].born = user.password
    BY DEF SessionInv, IssuesFresh, Mint
  <2>. QED
    BY <2>1, <2>2 DEF Minting, Token
<1>2. /\ sessionReq' = [sessionReq EXCEPT ![r] = [at |-> "idle"]] /\ IsAt(r, "minting")
      /\ token' = token \/ token' = [token EXCEPT ![t] = issued]
  BY DEF Mint, Ends, Goes
<1>3. SessionTypeOK'
  <2>1. token' \in [Tokens -> Token]
    BY <1>1, <1>2 DEF SessionInv, SessionTypeOK
  <2>. QED
    BY <1>2, <2>1, IdleIsRequest, SessionStored DEF SessionInv, SessionTypeOK, SessionRequests, Mint
<1>4. sessionReq'[r].at = "idle" /\ \A q \in SessionThreads : q # r => sessionReq'[q] = sessionReq[q]
  BY <1>2, IdleIsRequest, SessionStored DEF SessionInv
<1>. HIDE DEF issued
<1>5. \A u \in Tokens : token'[u] = token[u] \/ token'[u] = issued
  BY <1>2 DEF SessionInv, SessionTypeOK
<1>6. OldSessionsDoomed'
  BY <1>1, <1>2, <1>4, <1>5 DEF SessionInv, OldSessionsDoomed, Live, IsAt, Mint
<1>7. IssuesFresh' /\ ProfileFresh' /\ ColumnsAsStated'
  BY <1>4 DEF SessionInv, IssuesFresh, ProfileFresh, ColumnsAsStated, IsAt, Mint
<1>. QED
  BY <1>3, <1>6, <1>7 DEF SessionInv

LEMMA RefreshCheckKeeps ==
  ASSUME SessionInv, NEW r \in SessionThreads, NEW t \in Tokens, RefreshCheck(r, t)
  PROVE  SessionInv'
<1>. DEFINE req == [at |-> "rotating", old |-> t, born |-> token[t].born,
                    late |-> token[t].late \/ Resetting]
<1>1. req \in SessionRequests
  <2>1. token[t] \in Token
    BY DEF SessionInv, SessionTypeOK
  <2>2. Resetting \in BOOLEAN
    BY DEF Resetting
  <2>3. (token[t].late \/ Resetting) \in BOOLEAN
    OBVIOUS
  <2>. QED
    BY <2>1, <2>3 DEF Token, SessionRequests, Rotating
<1>2. sessionReq' = [sessionReq EXCEPT ![r] = req] /\ IsAt(r, "idle") /\ Live(t)
  BY DEF RefreshCheck, Starts
<1>3. req.late \/ req.born = user.password
  <2>1. SUFFICES ASSUME ~token[t].late, ~Resetting PROVE token[t].born = user.password
    OBVIOUS
  <2>. QED
    BY <1>2, <2>1 DEF SessionInv, OldSessionsDoomed, Resetting
<1>4. SessionTypeOK'
  BY <1>1, <1>2, SessionStored DEF SessionInv, SessionTypeOK, SessionRequests, RefreshCheck
<1>5. sessionReq'[r] = req /\ \A q \in SessionThreads : q # r => sessionReq'[q] = sessionReq[q]
  BY <1>1, <1>2, SessionStored DEF SessionInv
<1>6. req.at = "rotating"
  OBVIOUS
<1>. HIDE DEF req
<1>7. Sessional'
  BY <1>2, <1>3, <1>5, <1>6, ThreadGoesOn DEF SessionInv, Sessional, RefreshCheck, IsAt
<1>. QED
  BY <1>4, <1>7 DEF SessionInv, Sessional

LEMMA RefreshBlacklistKeeps ==
  ASSUME SessionInv, NEW r \in SessionThreads, RefreshBlacklist(r)
  PROVE  SessionInv'
<1>. DEFINE req == [at |-> "minting", born |-> sessionReq[r].born, late |-> sessionReq[r].late]
<1>1. sessionReq[r] \in Rotating
  BY SessionKinds DEF SessionInv, SessionTypeOK, SessionRequests, RefreshBlacklist, IsAt
<1>2. req \in SessionRequests /\ sessionReq[r].old \in Tokens
  BY <1>1 DEF SessionRequests, Rotating, Minting
<1>3. sessionReq' = [sessionReq EXCEPT ![r] = req] /\ IsAt(r, "rotating")
  BY DEF RefreshBlacklist, Goes
<1>4. /\ token' \in [Tokens -> Token]
      /\ \A t \in Tokens : Live(t)' => token'[t] = token[t]
  BY <1>2, BlacklistedTyped DEF SessionInv, RefreshBlacklist, Live
<1>5. SessionTypeOK'
  BY <1>2, <1>3, <1>4, SessionStored DEF SessionInv, SessionTypeOK, SessionRequests, RefreshBlacklist
<1>6. sessionReq'[r] = req /\ \A q \in SessionThreads : q # r => sessionReq'[q] = sessionReq[q]
  BY <1>2, <1>3, SessionStored DEF SessionInv
<1>7. req.late \/ req.born = user.password
  BY <1>3 DEF SessionInv, IssuesFresh
<1>8. Sessional'
  BY <1>3, <1>4, <1>6, <1>7, ThreadGoesOn DEF SessionInv, Sessional, RefreshBlacklist, IsAt
<1>. QED
  BY <1>5, <1>8 DEF SessionInv, Sessional

LEMMA LogoutKeeps ==
  ASSUME SessionInv, NEW t \in Tokens, Logout(t)
  PROVE  SessionInv'
<1>1. /\ token' \in [Tokens -> Token]
      /\ \A u \in Tokens : Live(u)' => token'[u] = token[u]
  BY BlacklistedTyped DEF SessionInv, Logout, Live
<1>2. SessionTypeOK'
  BY <1>1 DEF SessionInv, SessionTypeOK, Logout
<1>3. Sessional'
  BY <1>1, ThreadsStay DEF SessionInv, Sessional, Logout
<1>. QED
  BY <1>2, <1>3 DEF SessionInv, Sessional

LEMMA LogoutAllKeeps ==
  ASSUME SessionInv, NEW r \in SessionThreads, NEW keep \in SUBSET Tokens, LogoutAll(r, keep)
  PROVE  SessionInv'
<1>. DEFINE req == [at |-> "sweeping", reset |-> FALSE,
                    left |-> {t \in Tokens : token[t].state # "none"} \ keep]
<1>1. req \in SessionRequests
  BY DEF SessionRequests, Sweeping
<1>2. sessionReq' = [sessionReq EXCEPT ![r] = req] /\ IsAt(r, "idle")
  BY DEF LogoutAll, Starts
<1>3. SessionTypeOK'
  BY <1>1, <1>2, SessionStored DEF SessionInv, SessionTypeOK, SessionRequests, LogoutAll
<1>4. sessionReq'[r] = req /\ \A q \in SessionThreads : q # r => sessionReq'[q] = sessionReq[q]
  BY <1>1, <1>2, SessionStored DEF SessionInv
<1>5. Sessional'
  BY <1>2, <1>4, ThreadGoesOn DEF SessionInv, Sessional, LogoutAll, IsAt
<1>. QED
  BY <1>3, <1>5 DEF SessionInv, Sessional

LEMMA TicketStepKeeps ==
  ASSUME SessionAssumption, SessionInv, NEW k \in Tickets,
         OpenStream(k) \/ \E kind \in {"reset", "verify", "stream"} : MintTicket(k, kind)
  PROVE  SessionInv'
<1>1. /\ NoTicket("redeemed") \in Ticket
      /\ \A kind \in {"reset", "verify", "stream"} : [kind |-> kind, made |-> user] \in Ticket
  BY NoTicketTyped DEF SessionInv, SessionTypeOK, Ticket
<1>2. SessionTypeOK'
  BY <1>1 DEF SessionInv, SessionTypeOK, OpenStream, MintTicket, Redeemed
<1>3. Sessional'
  BY ThreadsStay DEF SessionInv, Sessional, OpenStream, MintTicket, Live
<1>. QED
  BY <1>2, <1>3 DEF SessionInv, Sessional

\* A link is redeemed; its request then waits to save what it has read.
LEMMA ConfirmCheckKeeps ==
  ASSUME SessionAssumption, CarefulProfile, SessionInv,
         NEW r \in SessionThreads, NEW k \in Tickets, ConfirmCheck(r, k)
  PROVE  SessionInv'
<1>1. ticket' \in [Tickets -> Ticket]
  BY NoTicketTyped DEF SessionInv, SessionTypeOK, ConfirmCheck, Redeemed
<1>2. CASE ~Checks(k)
  <2>1. UNCHANGED <<user, token, streams, userStated, sessionReq>>
    BY <1>2 DEF ConfirmCheck
  <2>2. SessionTypeOK'
    BY <1>1, <2>1 DEF SessionInv, SessionTypeOK
  <2>3. Sessional'
    BY <2>1, ThreadsStay DEF SessionInv, Sessional, Live
  <2>. QED
    BY <2>2, <2>3 DEF SessionInv, Sessional
<1>3. CASE Checks(k)
  <2>1. PICK req \in SessionRequests :
          /\ sessionReq' = [sessionReq EXCEPT ![r] = req]
          /\ req.at \in {"resetting", "verifying"}
    <3>1. [at |-> "resetting", copy |-> user, new |-> NewPassword] \in SessionRequests
      BY NewPasswordTyped DEF SessionInv, SessionTypeOK, ConfirmCheck, SessionRequests, Resets
    <3>2. [at |-> "verifying", copy |-> user] \in SessionRequests
      BY DEF SessionInv, SessionTypeOK, SessionRequests, Saving
    <3>. QED
      BY <1>3, <3>1, <3>2 DEF ConfirmCheck, Starts
  <2>2. /\ UNCHANGED <<user, token, streams, userStated>>
        /\ IsAt(r, "idle")
        /\ \A q \in SessionThreads : ~IsAt(q, "profile")
    BY <1>3 DEF ConfirmCheck, Starts, RowAtRest
  <2>3. SessionTypeOK'
    BY <1>1, <2>1, <2>2, SessionStored DEF SessionInv, SessionTypeOK, SessionRequests
  <2>4. sessionReq'[r] = req /\ \A q \in SessionThreads : q # r => sessionReq'[q] = sessionReq[q]
    BY <2>1, SessionStored DEF SessionInv
  <2>5. OldSessionsDoomed'
    BY <2>1, <2>2, <2>4 DEF SessionInv, OldSessionsDoomed, Live, IsAt
  <2>6. IssuesFresh' /\ ProfileFresh' /\ ColumnsAsStated'
    BY <2>1, <2>2, <2>4 DEF SessionInv, IssuesFresh, ProfileFresh, ColumnsAsStated, IsAt
  <2>. QED
    BY <2>3, <2>5, <2>6 DEF SessionInv
<1>. QED
  BY <1>2, <1>3

\* The password changes: whoever is about to issue a token is late, and every session
\* is now one that the reset will close.
LEMMA ResetSaveKeeps ==
  ASSUME SessionInv, NEW r \in SessionThreads, ResetSave(r)
  PROVE  SessionInv'
<1>1. sessionReq[r] \in Resets /\ sessionReq[r].new \in Passwords
  <2>1. sessionReq[r] \in Resets
    BY SessionKinds DEF SessionInv, SessionTypeOK, SessionRequests, ResetSave, IsAt
  <2>. QED
    BY <2>1 DEF Resets
<1>2. IsAt(r, "resetting") /\ \A q \in SessionThreads : ~IsAt(q, "profile")
  BY DEF SessionInv, ProfileFresh, ResetSave
<1>3. CASE ~user.exists
  <2>1. UNCHANGED <<user, userStated, token, ticket, streams>>
        /\ sessionReq' = [sessionReq EXCEPT ![r] = [at |-> "idle"]]
    BY <1>3 DEF ResetSave, Ends, Goes
  <2>2. SessionTypeOK'
    BY <2>1, IdleIsRequest, SessionStored DEF SessionInv, SessionTypeOK, SessionRequests
  <2>3. sessionReq'[r].at = "idle" /\ \A q \in SessionThreads : q # r => sessionReq'[q] = sessionReq[q]
    BY <2>1, IdleIsRequest, SessionStored DEF SessionInv
  <2>4. Sessional'
    BY <1>2, <2>1, <2>3, ThreadGoesOn DEF SessionInv, Sessional, IsAt, Live
  <2>. QED
    BY <2>2, <2>4 DEF SessionInv, Sessional
<1>4. CASE user.exists
  <2>. DEFINE req  == [at |-> "changed", left |-> {}, reset |-> TRUE]
              reqs == [sessionReq EXCEPT ![r] = req]
  <2>1. /\ user' = [user EXCEPT !.password = sessionReq[r].new]
        /\ userStated' = [userStated EXCEPT !.password = sessionReq[r].new]
        /\ UNCHANGED <<token, ticket, streams>>
        /\ sessionReq' = Overlapped(reqs)
    BY <1>4 DEF ResetSave
  <2>2. /\ reqs \in [SessionThreads -> SessionRequests] /\ reqs[r] = req
        /\ \A q \in SessionThreads : q # r => reqs[q] = sessionReq[q]
    <3>1. req \in SessionRequests
      BY DEF SessionRequests, Sweeping
    <3>. QED
      BY <3>1, SessionStored DEF SessionInv
  <2>. HIDE DEF reqs
  <2>3. ASSUME NEW q \in SessionThreads
        PROVE  /\ sessionReq'[q] \in SessionRequests
               /\ sessionReq'[q].at = reqs[q].at
               /\ sessionReq'[q].at \in {"minting", "rotating"} => sessionReq'[q].late
               /\ reqs[q].at \notin {"minting", "rotating"} => sessionReq'[q] = reqs[q]
    <3>1. CASE reqs[q].at \in {"minting", "rotating"}
      <4>1. reqs[q] \in Minting \cup Rotating
        BY <2>2, <3>1, SessionKinds
      <4>2. /\ [reqs[q] EXCEPT !.late = TRUE] \in Minting \cup Rotating
            /\ [reqs[q] EXCEPT !.late = TRUE].at = reqs[q].at
            /\ [reqs[q] EXCEPT !.late = TRUE].late
        <5>1. CASE reqs[q] \in Minting
          BY <5>1 DEF Minting
        <5>2. CASE reqs[q] \in Rotating
          BY <5>2 DEF Rotating
        <5>. QED
          BY <4>1, <5>1, <5>2
      <4>3. sessionReq'[q] = [reqs[q] EXCEPT !.late = TRUE]
        BY <2>1, <3>1 DEF Overlapped
      <4>. QED
        BY <3>1, <4>2, <4>3 DEF SessionRequests
    <3>2. CASE reqs[q].at \notin {"minting", "rotating"}
      <4>1. sessionReq'[q] = reqs[q]
        BY <2>1, <3>2 DEF Overlapped
      <4>. QED
        BY <2>2, <3>2, <4>1
    <3>. QED
      BY <3>1, <3>2
  <2>4. SessionTypeOK'
    <3>1. sessionReq' \in [SessionThreads -> SessionRequests]
      BY <2>1, <2>3 DEF Overlapped
    <3>2. user' \in User /\ userStated' \in User
      BY <1>1, <2>1 DEF SessionInv, SessionTypeOK, User
    <3>. QED
      BY <2>1, <3>1, <3>2 DEF SessionInv, SessionTypeOK, SessionRequests
  <2>5. IsAt(r, "changed")'
    BY <2>2, <2>3 DEF IsAt
  <2>6. OldSessionsDoomed'
    BY <2>5 DEF OldSessionsDoomed
  <2>7. IssuesFresh'
    BY <2>3 DEF IssuesFresh, IsAt
  <2>8. ProfileFresh'
    BY <1>2, <2>2, <2>3 DEF ProfileFresh, IsAt
  <2>9. ColumnsAsStated'
    BY <2>1 DEF SessionInv, ColumnsAsStated
  <2>. QED
    BY <2>4, <2>6, <2>7, <2>8, <2>9 DEF SessionInv
<1>. QED
  BY <1>3, <1>4

\* Every session there is, is looked up.
LEMMA ResetLookKeeps ==
  ASSUME SessionInv, NEW r \in SessionThreads, ResetLook(r)
  PROVE  SessionInv'
<1>. DEFINE req == [at |-> "sweeping", reset |-> TRUE, left |-> {t \in Tokens : token[t].state # "none"}]
<1>1. req \in SessionRequests /\ sessionReq' = [sessionReq EXCEPT ![r] = req]
  BY DEF SessionRequests, Sweeping, ResetLook, Goes
<1>2. SessionTypeOK'
  BY <1>1, SessionStored DEF SessionInv, SessionTypeOK, SessionRequests, ResetLook
<1>3. sessionReq'[r] = req /\ \A q \in SessionThreads : q # r => sessionReq'[q] = sessionReq[q]
  BY <1>1, SessionStored DEF SessionInv
<1>4. OldSessionsDoomed'
  <2>1. \A t \in Tokens : Live(t)' => t \in req.left
    BY DEF ResetLook, Live
  <2>. QED
    BY <1>3, <2>1 DEF OldSessionsDoomed, IsAt
<1>5. IssuesFresh' /\ ProfileFresh' /\ ColumnsAsStated'
  BY <1>3 DEF SessionInv, IssuesFresh, ProfileFresh, ColumnsAsStated, IsAt, ResetLook
<1>. QED
  BY <1>2, <1>4, <1>5 DEF SessionInv

\* A session is no longer one to close only once it is closed.
LEMMA SweepKeeps ==
  ASSUME SessionInv, NEW r \in SessionThreads, Sweep(r)
  PROVE  SessionInv'
<1>1. sessionReq[r] \in Sweeping /\ IsAt(r, "sweeping")
  BY SessionKinds DEF SessionInv, SessionTypeOK, SessionRequests, Sweep, IsAt
<1>2. PICK req \in SessionRequests, gone \in SUBSET Tokens :
        /\ sessionReq' = [sessionReq EXCEPT ![r] = req]
        /\ token' \in [Tokens -> Token]
        /\ \A t \in Tokens : Live(t)' => t \notin gone /\ token'[t] = token[t]
        /\ \/ req.at = "idle" /\ sessionReq[r].left = {}
           \/ /\ req.at = "sweeping" /\ req.reset = sessionReq[r].reset
              /\ req.left = sessionReq[r].left \ gone
  <2>1. CASE sessionReq[r].left = {}
    <3>1. token' = token /\ sessionReq' = [sessionReq EXCEPT ![r] = [at |-> "idle"]]
      BY <2>1 DEF Sweep, Ends, Goes
    <3>2. token \in [Tokens -> Token] /\ {} \in SUBSET Tokens
      BY DEF SessionInv, SessionTypeOK
    <3>3. \A t \in Tokens : Live(t)' => t \notin {} /\ token'[t] = token[t]
      BY <3>1
    <3>. QED
      BY <2>1, <3>1, <3>2, <3>3, IdleIsRequest
  <2>2. CASE sessionReq[r].left # {}
    <3>1. PICK t \in sessionReq[r].left :
            /\ token' = Blacklisted({t})
            /\ sessionReq' = [sessionReq EXCEPT ![r] = [sessionReq[r] EXCEPT !.left = @ \ {t}]]
      BY <2>2 DEF Sweep, Goes
    <3>2. t \in Tokens
      BY <1>1 DEF Sweeping
    <3>. DEFINE req == [sessionReq[r] EXCEPT !.left = @ \ {t}]
    <3>3. /\ req \in SessionRequests /\ req.at = "sweeping" /\ req.reset = sessionReq[r].reset
          /\ req.left = sessionReq[r].left \ {t}
      BY <1>1 DEF Sweeping, SessionRequests, IsAt
    <3>4. /\ token' \in [Tokens -> Token]
          /\ \A u \in Tokens : Live(u)' => u \notin {t} /\ token'[u] = token[u]
      BY <3>1, <3>2, BlacklistedTyped DEF SessionInv, Live
    <3>. HIDE DEF req
    <3>5. {t} \in SUBSET Tokens /\ sessionReq' = [sessionReq EXCEPT ![r] = req]
      BY <3>1, <3>2 DEF req
    <3>. QED
      BY <3>3, <3>4, <3>5
  <2>. QED
    BY <2>1, <2>2
<1>3. SessionTypeOK'
  BY <1>2, SessionStored DEF SessionInv, SessionTypeOK, SessionRequests, Sweep
<1>4. sessionReq'[r] = req /\ \A q \in SessionThreads : q # r => sessionReq'[q] = sessionReq[q]
  BY <1>2, SessionStored DEF SessionInv
<1>5. OldSessionsDoomed'
  <2>. SUFFICES ASSUME NEW t \in Tokens, Live(t)', ~token'[t].late, token'[t].born # user'.password
                PROVE  (\E q \in SessionThreads :
                         \/ IsAt(q, "changed")
                         \/ IsAt(q, "sweeping") /\ sessionReq[q].reset /\ t \in sessionReq[q].left)'
    BY DEF OldSessionsDoomed
  <2>1. t \notin gone /\ Live(t) /\ token'[t] = token[t] /\ user' = user
    BY <1>2 DEF Live, Sweep
  <2>2. PICK q \in SessionThreads :
          \/ IsAt(q, "changed")
          \/ IsAt(q, "sweeping") /\ sessionReq[q].reset /\ t \in sessionReq[q].left
    BY <2>1 DEF SessionInv, OldSessionsDoomed
  <2>3. CASE q # r
    BY <1>4, <2>2, <2>3 DEF IsAt
  <2>4. CASE q = r
    <3>1. sessionReq[r].reset /\ t \in sessionReq[r].left
      BY <1>1, <2>2, <2>4 DEF IsAt
    <3>2. sessionReq'[r].at = "sweeping" /\ sessionReq'[r].reset /\ t \in sessionReq'[r].left
      BY <1>2, <1>4, <2>1, <3>1
    <3>. QED
      BY <3>2 DEF IsAt
  <2>. QED
    BY <2>3, <2>4
<1>6. IssuesFresh' /\ ProfileFresh' /\ ColumnsAsStated'
  BY <1>2, <1>4 DEF SessionInv, IssuesFresh, ProfileFresh, ColumnsAsStated, IsAt, Sweep
<1>. QED
  BY <1>3, <1>5, <1>6 DEF SessionInv

\* A verification saves its column and leaves the password alone.
LEMMA VerifySaveKeeps ==
  ASSUME SessionInv, NEW r \in SessionThreads, VerifySave(r)
  PROVE  SessionInv'
<1>1. /\ IsAt(r, "verifying") /\ \A q \in SessionThreads : ~IsAt(q, "profile")
      /\ sessionReq' = [sessionReq EXCEPT ![r] = [at |-> "idle"]]
      /\ UNCHANGED <<token, ticket, streams>>
  BY DEF SessionInv, ProfileFresh, VerifySave, Ends, Goes
<1>2. /\ user' \in User /\ userStated' \in User /\ user' = userStated'
      /\ user'.password = user.password
  BY DEF SessionInv, SessionTypeOK, ColumnsAsStated, VerifySave, User
<1>3. SessionTypeOK'
  BY <1>1, <1>2, IdleIsRequest, SessionStored DEF SessionInv, SessionTypeOK, SessionRequests
<1>4. sessionReq'[r].at = "idle" /\ \A q \in SessionThreads : q # r => sessionReq'[q] = sessionReq[q]
  BY <1>1, IdleIsRequest, SessionStored DEF SessionInv
<1>5. OldSessionsDoomed'
  BY <1>1, <1>2, <1>4 DEF SessionInv, OldSessionsDoomed, Live, IsAt
<1>6. IssuesFresh' /\ ProfileFresh' /\ ColumnsAsStated'
  BY <1>1, <1>2, <1>4 DEF SessionInv, IssuesFresh, ProfileFresh, ColumnsAsStated, IsAt
<1>. QED
  BY <1>3, <1>5, <1>6 DEF SessionInv

LEMMA ProfileReadKeeps ==
  ASSUME CarefulProfile, SessionInv, NEW r \in SessionThreads, ProfileRead(r)
  PROVE  SessionInv'
<1>. DEFINE req == [at |-> "profile", copy |-> user]
<1>1. /\ req \in SessionRequests /\ sessionReq' = [sessionReq EXCEPT ![r] = req] /\ IsAt(r, "idle")
      /\ UNCHANGED <<user, token, ticket, streams, userStated>>
  BY DEF SessionInv, SessionTypeOK, SessionRequests, Saving, ProfileRead, Starts
<1>2. SessionTypeOK'
  BY <1>1, SessionStored DEF SessionInv, SessionTypeOK, SessionRequests
<1>3. sessionReq'[r] = req /\ \A q \in SessionThreads : q # r => sessionReq'[q] = sessionReq[q]
  BY <1>1, SessionStored DEF SessionInv
<1>4. OldSessionsDoomed'
  BY <1>1, <1>3 DEF SessionInv, OldSessionsDoomed, Live, IsAt
<1>5. ProfileFresh'
  BY <1>1, <1>3 DEF SessionInv, ProfileFresh, IsAt, ProfileRead, NobodySaves
<1>6. IssuesFresh' /\ ColumnsAsStated'
  BY <1>1, <1>3 DEF SessionInv, IssuesFresh, ColumnsAsStated, IsAt
<1>. QED
  BY <1>2, <1>4, <1>5, <1>6 DEF SessionInv

\* All columns are saved, and all are what they were.
LEMMA ProfileSaveKeeps ==
  ASSUME SessionInv, NEW r \in SessionThreads, ProfileSave(r)
  PROVE  SessionInv'
<1>1. /\ user' = user /\ IsAt(r, "profile")
      /\ sessionReq' = [sessionReq EXCEPT ![r] = [at |-> "idle"]]
      /\ UNCHANGED <<token, ticket, streams, userStated>>
  BY DEF SessionInv, ProfileFresh, ProfileSave, Ends, Goes
<1>2. SessionTypeOK'
  BY <1>1, IdleIsRequest, SessionStored DEF SessionInv, SessionTypeOK, SessionRequests
<1>3. sessionReq'[r].at = "idle" /\ \A q \in SessionThreads : q # r => sessionReq'[q] = sessionReq[q]
  BY <1>1, IdleIsRequest, SessionStored DEF SessionInv
<1>4. Sessional'
  BY <1>1, <1>3, ThreadGoesOn DEF SessionInv, Sessional, IsAt, Live
<1>. QED
  BY <1>2, <1>4 DEF SessionInv, Sessional

LEMMA DeleteAccountKeeps ==
  ASSUME CarefulProfile, SessionInv, DeleteAccount
  PROVE  SessionInv'
<1>1. /\ \A q \in SessionThreads : ~IsAt(q, "profile")
      /\ UNCHANGED <<token, ticket, streams, sessionReq>>
  BY DEF DeleteAccount, RowAtRest
<1>2. /\ user' \in User /\ userStated' \in User /\ user' = userStated'
      /\ user'.password = user.password
  BY DEF SessionInv, SessionTypeOK, ColumnsAsStated, DeleteAccount, User
<1>3. SessionTypeOK'
  BY <1>1, <1>2 DEF SessionInv, SessionTypeOK
<1>4. OldSessionsDoomed'
  BY <1>1, <1>2 DEF SessionInv, OldSessionsDoomed, Live, IsAt
<1>5. IssuesFresh' /\ ProfileFresh' /\ ColumnsAsStated'
  BY <1>1, <1>2 DEF SessionInv, IssuesFresh, ProfileFresh, ColumnsAsStated, IsAt
<1>. QED
  BY <1>3, <1>4, <1>5 DEF SessionInv

LEMMA SessionInvStart ==
  ASSUME SessionAssumption PROVE SessionInit => SessionInv
<1>. SUFFICES ASSUME SessionInit PROVE SessionInv
  OBVIOUS
<1>1. Cardinality(Tickets) \in Nat /\ 0 \in Passwords
  <2>1. Cardinality(Tickets) \in Nat
    BY FS_CardinalityType DEF SessionAssumption
  <2>. QED
    BY <2>1 DEF Passwords
<1>2. NoTicket("none") \in Ticket
  BY NoTicketTyped
<1>3. NoToken \in Token /\ [exists |-> TRUE, password |-> 0, verified |-> FALSE] \in User
  BY <1>1 DEF NoToken, Token, User
<1>4. sessionReq \in [SessionThreads -> Quiet \cup Minting]
  <2>1. [at |-> "idle"] \in Quiet /\ [at |-> "minting", born |-> 0, late |-> FALSE] \in Minting
    BY <1>1 DEF Quiet, Minting
  <2>. QED
    BY <2>1 DEF SessionInit
<1>5. SessionTypeOK
  BY <1>2, <1>3, <1>4 DEF SessionInit, SessionTypeOK
<1>6. \A r \in SessionThreads :
         /\ sessionReq[r].at \in {"idle", "minting"}
         /\ sessionReq[r].at = "minting" => sessionReq[r].born = 0
  BY DEF SessionInit
<1>. QED
  BY <1>5, <1>6 DEF SessionInit, SessionInv, OldSessionsDoomed, IssuesFresh, ProfileFresh,
     ColumnsAsStated, Live, IsAt, NoToken

LEMMA SessionInvStep ==
  ASSUME SessionAssumption, CarefulProfile
  PROVE  SessionInv /\ [SessionNext]_sessionVars => SessionInv'
<1>. SUFFICES ASSUME SessionInv, [SessionNext]_sessionVars PROVE SessionInv'
  OBVIOUS
<1>1. CASE SessionNext
  <2>1. ASSUME NEW r \in SessionThreads, NEW t \in Tokens, LogoutAll(r, {t}) PROVE SessionInv'
    <3>1. {t} \in SUBSET Tokens
      OBVIOUS
    <3>. QED
      BY <2>1, <3>1, LogoutAllKeeps
  <2>2. ASSUME NEW r \in SessionThreads, LogoutAll(r, {}) PROVE SessionInv'
    <3>1. {} \in SUBSET Tokens
      OBVIOUS
    <3>. QED
      BY <2>2, <3>1, LogoutAllKeeps
  <2>. QED
    BY <1>1, <2>1, <2>2, DeleteAccountKeeps, LogoutKeeps, TicketStepKeeps, LoginCheckKeeps, MintKeeps,
       RefreshCheckKeeps, RefreshBlacklistKeeps, ConfirmCheckKeeps, ResetSaveKeeps, ResetLookKeeps,
       SweepKeeps, VerifySaveKeeps, ProfileReadKeeps, ProfileSaveKeeps DEF SessionNext
<1>2. CASE UNCHANGED sessionVars
  <2>1. SessionTypeOK'
    BY <1>2 DEF SessionInv, SessionTypeOK, sessionVars
  <2>2. Sessional'
    BY <1>2, ThreadsStay DEF SessionInv, Sessional, Live, sessionVars
  <2>. QED
    BY <2>1, <2>2 DEF SessionInv, Sessional
<1>. QED
  BY <1>1, <1>2

\* The user's row, tokens, tickets and requests have their types.
THEOREM SessionTyping ==
  ASSUME SessionAssumption, CarefulProfile PROVE SessionSpec => []SessionTypeOK
<1>1. SessionInv => SessionTypeOK
  BY DEF SessionInv
<1>. QED
  BY <1>1, SessionInvStart, SessionInvStep, PTL DEF SessionSpec

\* However many threads log in, refresh, log out and reset passwords: once a reset is
\* answered, a session of an older password is open only if one of its logins or refreshes
\* was in flight meanwhile, and the row of the user is what the answered requests say.
THEOREM AccountKept ==
  ASSUME SessionAssumption, CarefulProfile PROVE SessionSpec => []AccountAsStated
<1>1. ASSUME SessionInv PROVE AccountAsStated
  BY <1>1 DEF SessionInv, AccountAsStated, OldSessionsDoomed, ResetEndsSessions, Resetting
<1>. QED
  BY <1>1, SessionInvStart, SessionInvStep, PTL DEF SessionSpec

(***************************************************************************)
(* Bank accounts                                                           *)
(***************************************************************************)

\* The bank of an account that the user is about to enter, or to rename one to, or has an
\* account of that he changes, is still not connected; the account that is changed was
\* never a synced one.
BanksStillFree ==
  \A r \in RegistryThreads : LET req == registryReq[r] IN
    /\ req.at = "entering" => BankFree(req.name.bank)
    /\ req.at = "checked" => registry[req.id].kind \in {"manual", "gone"}
    /\ req.at \in {"checked", "copied"} /\ req.renames => BankFree(req.name.bank)
    /\ req.at = "copied" =>
         /\ req.copy.kind = "manual"
         /\ req.copy.from # "statement" => BankFree(req.copy.name.bank)

ShadowInv == RegistryTypeOK /\ BanksStillFree /\ OnlyStatementsShadow

LEMMA RemoveAccountKeeps ==
  ASSUME RegistryAssumption, CarefulLinker, ShadowInv,
         NEW i \in AccountIds, RemoveAccount(i)
  PROVE  ShadowInv'
<1>1. RegistryTypeOK'
  BY DEF RemoveAccount, ShadowInv, RegistryTypeOK, Without, Unresolved
<1>2. BanksStillFree'
  BY DEF RemoveAccount, ShadowInv, RegistryTypeOK, BanksStillFree, BankFree, Without,
    GoneAccount, Resting, Entering, Amending, Resolving
<1>3. OnlyStatementsShadow'
  BY DEF RemoveAccount, ShadowInv, OnlyStatementsShadow, IsManual, Without, GoneAccount
<1>. QED
  BY <1>1, <1>2, <1>3 DEF ShadowInv

LEMMA LinkKeeps ==
  ASSUME RegistryAssumption, CarefulLinker, ShadowInv,
         NEW name \in Name, NEW i \in AccountIds, Link(name, i)
  PROVE  ShadowInv'
<1>1. RegistryTypeOK'
  BY DEF Link, ShadowInv, RegistryTypeOK, AccountRow, Unresolved
<1>2. BanksStillFree'
  BY DEF Link, BanksStillFree, NobodyEnters
<1>3. OnlyStatementsShadow'
  BY DEF Link, ShadowInv, OnlyStatementsShadow, IsManual, GoneAccount
<1>. QED
  BY <1>1, <1>2, <1>3 DEF ShadowInv

LEMMA OverrideKeeps ==
  ASSUME RegistryAssumption, CarefulLinker, ShadowInv,
         NEW s \in Statements, NEW i \in AccountIds, Override(s, i)
  PROVE  ShadowInv'
<1>1. RegistryTypeOK'
  BY DEF Override, ShadowInv, RegistryTypeOK
<1>2. BanksStillFree'
  BY DEF Override, ShadowInv, BanksStillFree, BankFree
<1>3. OnlyStatementsShadow'
  BY DEF Override, ShadowInv, OnlyStatementsShadow, IsManual
<1>. QED
  BY <1>1, <1>2, <1>3 DEF ShadowInv

LEMMA EnterCheckKeeps ==
  ASSUME RegistryAssumption, CarefulLinker, ShadowInv,
         NEW r \in RegistryThreads, NEW name \in Name, EnterCheck(r, name)
  PROVE  ShadowInv'
<1>1. RegistryTypeOK'
  BY DEF EnterCheck, ShadowInv, RegistryTypeOK, Takes, Entering
<1>2. BanksStillFree'
  BY DEF EnterCheck, ShadowInv, BanksStillFree, BankFree, Takes
<1>3. OnlyStatementsShadow'
  BY DEF EnterCheck, ShadowInv, OnlyStatementsShadow, IsManual
<1>. QED
  BY <1>1, <1>2, <1>3 DEF ShadowInv

LEMMA EnterSaveKeeps ==
  ASSUME RegistryAssumption, CarefulLinker, ShadowInv,
         NEW r \in RegistryThreads, NEW i \in AccountIds, EnterSave(r, i)
  PROVE  ShadowInv'
<1>1. RegistryTypeOK'
  BY DEF EnterSave, ShadowInv, RegistryTypeOK, Moves, Leaves, AccountRow, Resting, Entering,
    Amending, Resolving
<1>2. BanksStillFree'
  BY DEF EnterSave, ShadowInv, BanksStillFree, BankFree, Moves, Leaves
<1>3. OnlyStatementsShadow'
  BY DEF EnterSave, ShadowInv, BanksStillFree, OnlyStatementsShadow, BankFree, IsManual
<1>. QED
  BY <1>1, <1>2, <1>3 DEF ShadowInv

LEMMA ResolveCreateKeeps ==
  ASSUME RegistryAssumption, CarefulLinker, ShadowInv,
         NEW r \in RegistryThreads, NEW i \in AccountIds, ResolveCreate(r, i)
  PROVE  ShadowInv'
<1>1. RegistryTypeOK'
  BY DEF ResolveCreate, ShadowInv, RegistryTypeOK, Moves, AccountRow, Resting, Entering,
    Amending, Resolving
<1>2. BanksStillFree'
  BY DEF ResolveCreate, ShadowInv, BanksStillFree, BankFree, Moves
<1>3. OnlyStatementsShadow'
  BY DEF ResolveCreate, ShadowInv, OnlyStatementsShadow, IsManual
<1>. QED
  BY <1>1, <1>2, <1>3 DEF ShadowInv

LEMMA ChangeCheckKeeps ==
  ASSUME RegistryAssumption, CarefulLinker, ShadowInv,
         NEW r \in RegistryThreads, NEW i \in AccountIds, NEW name \in Name, NEW renames \in BOOLEAN,
         ChangeCheck(r, i, name, renames)
  PROVE  ShadowInv'
<1>1. RegistryTypeOK'
  BY DEF ChangeCheck, ShadowInv, RegistryTypeOK, Takes, Amending
<1>2. BanksStillFree'
  BY DEF ChangeCheck, ShadowInv, BanksStillFree, BankFree, IsManual, Takes
<1>3. OnlyStatementsShadow'
  BY DEF ChangeCheck, ShadowInv, OnlyStatementsShadow, IsManual
<1>. QED
  BY <1>1, <1>2, <1>3 DEF ShadowInv

LEMMA ChangeReadKeeps ==
  ASSUME RegistryAssumption, CarefulLinker, ShadowInv,
         NEW r \in RegistryThreads, ChangeRead(r)
  PROVE  ShadowInv'
<1>1. RegistryTypeOK'
  BY DEF ChangeRead, ShadowInv, RegistryTypeOK, Present, Moves, Leaves, NoAccount,
    GoneAccount, Resting, Entering, Amending, Resolving
<1>2. BanksStillFree'
  BY DEF ChangeRead, ShadowInv, RegistryTypeOK, BanksStillFree, OnlyStatementsShadow,
    BankFree, Present, IsManual, Moves, Leaves, Resting, Entering, Amending, Resolving
<1>3. OnlyStatementsShadow'
  BY DEF ChangeRead, ShadowInv, OnlyStatementsShadow, IsManual
<1>. QED
  BY <1>1, <1>2, <1>3 DEF ShadowInv

LEMMA ChangeSaveKeeps ==
  ASSUME RegistryAssumption, CarefulLinker, ShadowInv,
         NEW r \in RegistryThreads, ChangeSave(r)
  PROVE  ShadowInv'
<1>1. RegistryTypeOK'
  <2>1. /\ registryReq[r].id \in AccountIds /\ registryReq[r].copy \in AccountRow
        /\ registryReq[r].name \in Name /\ registryReq[r].name.number \in Numbers
    BY DEF ChangeSave, ShadowInv, RegistryTypeOK, Resting, Entering, Amending, Resolving, Name
  <2>2. ASSUME NEW row \in AccountRow, NEW name \in Name
        PROVE  [[row EXCEPT !.name = name] EXCEPT !.from = "user"] \in AccountRow
    BY <2>2 DEF AccountRow
  <2>3. ASSUME NEW row \in AccountRow, NEW number \in Numbers
        PROVE  [row EXCEPT !.name.number = number] \in AccountRow
    <3>1. [row.name EXCEPT !.number = number] \in Name
      BY <2>3 DEF AccountRow, Name
    <3>. QED
      BY <2>3, <3>1 DEF AccountRow
  <2>4. registry' \in [AccountIds -> AccountRow \cup {NoAccount, GoneAccount}]
    BY <2>1, <2>2, <2>3 DEF ChangeSave, ShadowInv, RegistryTypeOK
  <2>. QED
    BY <2>4 DEF ChangeSave, Leaves, Moves, ShadowInv, RegistryTypeOK, Resting
<1>2. BanksStillFree'
  BY DEF ChangeSave, ShadowInv, BanksStillFree, BankFree, Moves, Leaves
<1>3. OnlyStatementsShadow'
  BY DEF ChangeSave, ShadowInv, BanksStillFree, OnlyStatementsShadow, BankFree, IsManual
<1>. QED
  BY <1>1, <1>2, <1>3 DEF ShadowInv

LEMMA ResolveKeeps ==
  ASSUME RegistryAssumption, CarefulLinker, ShadowInv,
         NEW r \in RegistryThreads, NEW s \in Statements, NEW name \in Name, Resolve(r, s, name)
  PROVE  ShadowInv'
<1>1. RegistryTypeOK'
  BY DEF Resolve, ShadowInv, RegistryTypeOK, Moves, Resolving, Unresolved
<1>2. BanksStillFree'
  BY DEF Resolve, ShadowInv, RegistryTypeOK, BanksStillFree, BankFree, Moves
<1>3. OnlyStatementsShadow'
  BY DEF Resolve, ShadowInv, OnlyStatementsShadow, IsManual
<1>. QED
  BY <1>1, <1>2, <1>3 DEF ShadowInv

LEMMA ResolveSaveKeeps ==
  ASSUME RegistryAssumption, CarefulLinker, ShadowInv,
         NEW r \in RegistryThreads, ResolveSave(r)
  PROVE  ShadowInv'
<1>1. RegistryTypeOK'
  BY DEF ResolveSave, ShadowInv, RegistryTypeOK, Moves, Leaves, Resting, Entering, Amending,
    Resolving, Unresolved
<1>2. BanksStillFree'
  BY DEF ResolveSave, ShadowInv, BanksStillFree, BankFree, Moves, Leaves
<1>3. OnlyStatementsShadow'
  BY DEF ResolveSave, ShadowInv, OnlyStatementsShadow, IsManual
<1>. QED
  BY <1>1, <1>2, <1>3 DEF ShadowInv

LEMMA ShadowStart ==
  ASSUME RegistryAssumption, RegistryInit
  PROVE  ShadowInv
BY DEF RegistryInit, ShadowInv, RegistryTypeOK, BanksStillFree, OnlyStatementsShadow,
  IsManual, Resting, Unresolved

LEMMA ShadowStep ==
  ASSUME RegistryAssumption, CarefulLinker, ShadowInv, [RegistryNext]_registryVars
  PROVE  ShadowInv'
<1>1. ASSUME NEW i \in AccountIds, RemoveAccount(i) PROVE ShadowInv'
  BY <1>1, RemoveAccountKeeps
<1>2. ASSUME NEW name \in Name, NEW i \in AccountIds, Link(name, i) PROVE ShadowInv'
  BY <1>2, LinkKeeps
<1>3. ASSUME NEW s \in Statements, NEW i \in AccountIds, Override(s, i) PROVE ShadowInv'
  BY <1>3, OverrideKeeps
<1>4. ASSUME NEW r \in RegistryThreads, NEW name \in Name, EnterCheck(r, name) PROVE ShadowInv'
  BY <1>4, EnterCheckKeeps
<1>5. ASSUME NEW r \in RegistryThreads, NEW i \in AccountIds, EnterSave(r, i) PROVE ShadowInv'
  BY <1>5, EnterSaveKeeps
<1>6. ASSUME NEW r \in RegistryThreads, NEW i \in AccountIds, ResolveCreate(r, i)
      PROVE  ShadowInv'
  BY <1>6, ResolveCreateKeeps
<1>7. ASSUME NEW r \in RegistryThreads, NEW i \in AccountIds, NEW name \in Name, NEW renames \in BOOLEAN,
             ChangeCheck(r, i, name, renames)
      PROVE  ShadowInv'
  BY <1>7, ChangeCheckKeeps
<1>8. ASSUME NEW r \in RegistryThreads, ChangeRead(r) PROVE ShadowInv'
  BY <1>8, ChangeReadKeeps
<1>9. ASSUME NEW r \in RegistryThreads, ChangeSave(r) PROVE ShadowInv'
  BY <1>9, ChangeSaveKeeps
<1>10. ASSUME NEW r \in RegistryThreads, NEW s \in Statements, NEW name \in Name, Resolve(r, s,
              name)
       PROVE  ShadowInv'
  BY <1>10, ResolveKeeps
<1>11. ASSUME NEW r \in RegistryThreads, ResolveSave(r) PROVE ShadowInv'
  BY <1>11, ResolveSaveKeeps
<1>12. CASE UNCHANGED registryVars
  BY <1>12 DEF registryVars, ShadowInv, RegistryTypeOK, BanksStillFree, OnlyStatementsShadow,
    BankFree, IsManual
<1>. QED
  BY <1>1, <1>2, <1>3, <1>4, <1>5, <1>6, <1>7, <1>8, <1>9, <1>10, <1>11, <1>12 DEF
    RegistryNext

\* Accounts, resolutions and requests are of their types.
THEOREM RegistryTyping ==
  ASSUME RegistryAssumption, CarefulLinker
  PROVE  RegistrySpec => []RegistryTypeOK
<1>1. RegistryInit => ShadowInv
  BY ShadowStart
<1>2. ShadowInv /\ [RegistryNext]_registryVars => ShadowInv'
  BY ShadowStep
<1>3. ShadowInv => RegistryTypeOK
  BY DEF ShadowInv
<1>. QED
  BY <1>1, <1>2, <1>3, PTL DEF RegistrySpec

\* "A manual account can't shadow or duplicate one under the same name": of any number of
\* accounts, banks and requests, none but those that statements were resolved onto.
THEOREM NoShadows ==
  ASSUME RegistryAssumption, CarefulLinker
  PROVE  RegistrySpec => []OnlyStatementsShadow
<1>1. RegistryInit => ShadowInv
  BY ShadowStart
<1>2. ShadowInv /\ [RegistryNext]_registryVars => ShadowInv'
  BY ShadowStep
<1>3. ShadowInv => OnlyStatementsShadow
  BY DEF ShadowInv
<1>. QED
  BY <1>1, <1>2, <1>3, PTL DEF RegistrySpec

(***************************************************************************)
(* Budget and goal                                                         *)
(***************************************************************************)

(***************************************************************************)
(* Lists of allocations                                                    *)
(***************************************************************************)

\* The first n places of a list name different categories.
Distinct(list, n) ==
  \A i, j \in 1..n : list[i].category = list[j].category => i = j

\* The allocations there are when the first n places have been created.
Written(list, n) ==
  [c \in Categories |->
     IF \E i \in 1..n : list[i].category = c
       THEN list[CHOOSE i \in 1..n : list[i].category = c].share
       ELSE 0]

LEMMA ListShape ==
  ASSUME BudgetAssumption, NEW list \in Lists
  PROVE  /\ Len(list) \in 1..Whole
         /\ \A i \in 1..Len(list) : list[i] \in Item
<1>1. PICK m \in 0..Whole : list \in [1..m -> Item]
  BY DEF Lists, SeqOf
<1>2. list \in Seq(Item) /\ Len(list) = m
  BY <1>1, LenProperties, SeqDef DEF BudgetAssumption
<1>3. m # 0
  BY <1>2 DEF Lists
<1>. QED
  BY <1>1, <1>2, <1>3 DEF BudgetAssumption

LEMMA WrittenNothing ==
  ASSUME NEW list PROVE Written(list, 0) = Nothing
BY DEF Written, Nothing

\* What has been created of a list is the share of each place, and nothing else.
LEMMA WrittenAt ==
  ASSUME NEW list, NEW n \in Nat, Distinct(list, n), NEW c \in Categories
  PROVE  /\ \A i \in 1..n : list[i].category = c => Written(list, n)[c] = list[i].share
         /\ (~\E i \in 1..n : list[i].category = c) => Written(list, n)[c] = 0
<1>1. ASSUME NEW i \in 1..n, list[i].category = c
      PROVE  Written(list, n)[c] = list[i].share
  <2>. DEFINE k == CHOOSE j \in 1..n : list[j].category = c
  <2>1. k \in 1..n /\ list[k].category = c
    BY <1>1
  <2>2. k = i
    BY <1>1, <2>1 DEF Distinct
  <2>3. Written(list, n)[c] = list[k].share
    BY <1>1 DEF Written
  <2>. QED
    BY <2>2, <2>3
<1>2. ASSUME ~\E i \in 1..n : list[i].category = c
      PROVE  Written(list, n)[c] = 0
  BY <1>2 DEF Written
<1>. QED
  BY <1>1, <1>2

\* One more place: its category is refused if, and only if, it has been named before.
LEMMA WrittenNext ==
  ASSUME BudgetAssumption, NEW list \in Lists, NEW n \in Nat, n < Len(list), Distinct(list, n)
  PROVE  LET item == list[n + 1]  soFar == Written(list, n) IN
         /\ soFar[item.category] # 0 <=> \E i \in 1..n : list[i].category = item.category
         /\ soFar[item.category] = 0 =>
              /\ Distinct(list, n + 1)
              /\ Written(list, n + 1) = [soFar EXCEPT ![item.category] = item.share]
<1>. DEFINE item == list[n + 1]
            soFar == Written(list, n)
<1>1. /\ \A i \in 1..(n + 1) : list[i] \in Item
      /\ item \in Item /\ item.category \in Categories
      /\ \A i \in 1..(n + 1) : list[i].category \in Categories /\ list[i].share \in 1..Whole
  BY ListShape DEF Item
<1>2. soFar[item.category] # 0 <=> \E i \in 1..n : list[i].category = item.category
  BY <1>1, WrittenAt DEF BudgetAssumption
<1>3. ASSUME soFar[item.category] = 0
      PROVE  /\ Distinct(list, n + 1)
             /\ Written(list, n + 1) = [soFar EXCEPT ![item.category] = item.share]
  <2>1. \A i \in 1..n : list[i].category # item.category
    BY <1>2, <1>3
  <2>2. Distinct(list, n + 1)
    BY <2>1 DEF Distinct
  <2>3. ASSUME NEW c \in Categories
        PROVE  Written(list, n + 1)[c] = [soFar EXCEPT ![item.category] = item.share][c]
    <3>0. soFar \in [Categories -> {Written(list, n)[d] : d \in Categories}] /\ DOMAIN soFar = Categories
      BY DEF Written
    <3>1. CASE c = item.category
      <4>1. Written(list, n + 1)[c] = item.share
        BY <2>2, <3>1, WrittenAt
      <4>. QED
        BY <3>0, <3>1, <4>1
    <3>2. CASE c # item.category /\ \E i \in 1..n : list[i].category = c
      <4>1. PICK i \in 1..n : list[i].category = c
        BY <3>2
      <4>2. Written(list, n + 1)[c] = list[i].share
        <5>1. i \in 1..(n + 1)
          OBVIOUS
        <5>2. n + 1 \in Nat
          OBVIOUS
        <5>. QED
          BY <2>2, <4>1, <5>1, <5>2, WrittenAt
      <4>3. soFar[c] = list[i].share
        BY <4>1, WrittenAt
      <4>. QED
        BY <3>0, <3>2, <4>2, <4>3
    <3>3. CASE c # item.category /\ ~\E i \in 1..n : list[i].category = c
      <4>1. ~\E i \in 1..(n + 1) : list[i].category = c
        BY <3>3
      <4>2. Written(list, n + 1)[c] = 0
        BY <2>2, <4>1, WrittenAt
      <4>3. soFar[c] = 0
        BY <3>3, WrittenAt
      <4>. QED
        BY <3>0, <3>3, <4>2, <4>3
    <3>. QED
      BY <3>1, <3>2, <3>3
  <2>. QED
    BY <2>2, <2>3 DEF Written
<1>. QED
  BY <1>2, <1>3

\* A list is applied when all of it has been created, or up to a category it repeats.
LEMMA AppliedUpTo ==
  ASSUME BudgetAssumption, NEW list \in Lists, NEW n \in Nat, n <= Len(list), Distinct(list, n),
         n = Len(list) \/ \E i \in 1..n : list[i].category = list[n + 1].category
  PROVE  Applied(list) = Written(list, n)
<1>. DEFINE first(i) == \A j \in 1..(i - 1) : list[j].category # list[i].category
            upTo == {i \in DOMAIN list : \A j \in 1..i : first(j)}
<1>1. PICK m \in Nat : m = Len(list) /\ \A i : i \in DOMAIN list <=> i \in 1..m
  <2>1. PICK m \in 0..Whole : list \in [1..m -> Item]
    BY DEF Lists, SeqOf
  <2>2. list \in Seq(Item) /\ Len(list) = m
    BY <2>1, LenProperties, SeqDef DEF BudgetAssumption
  <2>3. DOMAIN list = 1..m
    BY <2>1
  <2>. QED
    BY <2>1, <2>2, <2>3 DEF BudgetAssumption
<1>2. \A i \in 1..n : first(i)
  BY DEF Distinct
<1>3. upTo = 1..n
  <2>1. ASSUME NEW i \in 1..n PROVE i \in upTo
    <3>1. i \in DOMAIN list
      <4>1. i \in 1..m
        BY <1>1
      <4>. QED
        BY <1>1, <4>1
    <3>2. \A j \in 1..i : j \in 1..n
      OBVIOUS
    <3>. HIDE DEF first
    <3>. QED
      BY <1>2, <3>1, <3>2
  <2>2. ASSUME NEW i \in upTo, i \notin 1..n PROVE FALSE
    <3>0. i \in DOMAIN list
      BY <2>2
    <3>1. i \in Nat /\ i > n /\ i <= Len(list)
      <4>1. i \in 1..m
        BY <1>1, <3>0
      <4>. QED
        BY <1>1, <2>2, <4>1
    <3>2. n + 1 \in 1..i
      BY <3>1
    <3>3. first(n + 1)
      BY <3>2
    <3>4. PICK k \in 1..n : list[k].category = list[n + 1].category
      BY <3>1
    <3>. QED
      BY <3>3, <3>4
  <2>. QED
    BY <2>1, <2>2
<1>. QED
  BY <1>3 DEF Applied, Written

(***************************************************************************)
(* The invariant                                                           *)
(***************************************************************************)

Busy(r)     == budgetReq[r].at \in {"read", "recorded", "saved", "applying"}
Revises(r)  == budgetReq[r].at = "revising"

\* One request at a time changes the allocations, of a budget that exists: before
\* there is one nothing is allocated, answered or to be recorded.
ChangesInTurn ==
  /\ \A r, q \in BudgetThreads : Busy(r) /\ Busy(q) => r = q
  /\ \A r \in BudgetThreads : Busy(r) => budget
  /\ ~budget => allocated = Nothing /\ sent = NoList /\ inForce = {}

\* What a PATCH has read is still there when it records it, and what it takes out,
\* for a list it was sent, is recorded by then.
ReadStillThere ==
  \A r \in BudgetThreads :
    /\ budgetReq[r].at = "read" => budgetReq[r].copy = allocated
    /\ budgetReq[r].at \in {"recorded", "saved"} => allocated \in history
    /\ budgetReq[r].at = "saved" => budgetReq[r].list \in Lists

\* While a list is applied, the allocations are what has been created of it.
HalfApplied ==
  \A r \in BudgetThreads : budgetReq[r].at = "applying" =>
    LET list == budgetReq[r].list  done == budgetReq[r].done IN
    /\ done < Len(list)
    /\ Distinct(list, done)
    /\ allocated = Written(list, done)
    /\ inForce \subseteq history

\* One PATCH at a time of a goal that exists, whose copy holds what is stored in the
\* fields it was not sent.
RevisionsFresh ==
  /\ \A r, q \in BudgetThreads : Revises(r) /\ Revises(q) => r = q
  /\ \A r \in BudgetThreads : Revises(r) =>
       /\ goal # NoGoal
       /\ \A f \in {"target", "months"} \ budgetReq[r].fields : budgetReq[r].goal[f] = goal[f]

BudgetInv ==
  /\ BudgetTypeOK
  /\ ChangesInTurn /\ ReadStillThere /\ HalfApplied
  /\ PlanOfOneRequest /\ ReplacedIsRecorded
  /\ RevisionsFresh /\ GoalAsStated

Allocating == ChangesInTurn /\ ReadStillThere /\ HalfApplied /\ PlanOfOneRequest /\ ReplacedIsRecorded
Aiming     == RevisionsFresh /\ GoalAsStated

\* A step that is not about the allocations keeps what is true of them ...
LEMMA AllocationsAlone ==
  ASSUME Allocating, NEW r \in BudgetThreads, ~Busy(r), ~Busy(r)',
         \A q \in BudgetThreads \ {r} : budgetReq'[q] = budgetReq[q],
         UNCHANGED <<budget, allocated, history, sent, inForce>>
  PROVE  Allocating'
<1>1. \A q \in BudgetThreads : Busy(q)' => q # r /\ Busy(q) /\ budgetReq'[q] = budgetReq[q]
  BY DEF Busy
<1>2. \A q \in BudgetThreads : q # r => budgetReq'[q] = budgetReq[q]
  OBVIOUS
<1>3. \A q \in BudgetThreads : budgetReq'[q].at \in {"read", "recorded", "saved", "applying"} => Busy(q)'
  BY DEF Busy
<1>4. ChangesInTurn'
  BY <1>1 DEF Allocating, ChangesInTurn, Nothing
<1>5. ReadStillThere'
  BY <1>1, <1>3 DEF Allocating, ReadStillThere
<1>6. HalfApplied'
  <2>. SUFFICES ASSUME NEW q \in BudgetThreads, budgetReq'[q].at = "applying"
                PROVE  LET list == budgetReq'[q].list  done == budgetReq'[q].done IN
                       /\ done < Len(list)
                       /\ Distinct(list, done)
                       /\ allocated = Written(list, done)
                       /\ inForce \subseteq history
    BY DEF HalfApplied, Distinct, Written
  <2>1. budgetReq'[q] = budgetReq[q] /\ budgetReq[q].at = "applying"
    BY <1>1, <1>3
  <2>. QED
    BY <2>1 DEF Allocating, HalfApplied
<1>7. PlanOfOneRequest'
  <2>1. (\A q \in BudgetThreads : budgetReq'[q].at # "applying")
          => \A q \in BudgetThreads : budgetReq[q].at # "applying"
    BY <1>2 DEF Busy
  <2>. QED
    BY <2>1 DEF Allocating, PlanOfOneRequest, Applied
<1>8. ReplacedIsRecorded'
  BY DEF Allocating, ReplacedIsRecorded
<1>. QED
  BY <1>4, <1>5, <1>6, <1>7, <1>8 DEF Allocating

\* ... and one that is not about the goal what is true of it.
LEMMA GoalAlone ==
  ASSUME Aiming, NEW r \in BudgetThreads, ~Revises(r), ~Revises(r)',
         \A q \in BudgetThreads \ {r} : budgetReq'[q] = budgetReq[q],
         UNCHANGED <<goal, goalStated>>
  PROVE  Aiming'
<1>1. \A q \in BudgetThreads : Revises(q)' => q # r /\ Revises(q) /\ budgetReq'[q] = budgetReq[q]
  BY DEF Revises
<1>2. RevisionsFresh'
  BY <1>1 DEF Aiming, RevisionsFresh, NoGoal
<1>3. GoalAsStated'
  BY DEF Aiming, GoalAsStated
<1>. QED
  BY <1>2, <1>3 DEF Aiming

\* What a thread keeps of its request.
BudgetRequest == Waiting \cup Creating \cup Changing \cup Applying \cup Setting \cup Revising

LEMMA BudgetKinds ==
  ASSUME NEW req \in BudgetRequest
  PROVE  /\ req.at = "creating" => req.list \in Lists
         /\ req.at \in {"read", "recorded", "saved"} =>
              /\ req \in Changing
              /\ req.copy \in Allocations /\ req.list \in Lists \cup {NoList}
         /\ req.at = "applying" => req.list \in Lists /\ req.done \in 0..Whole /\ req \in Applying
         /\ req.at = "setting" => req.goal \in Goal
         /\ req.at = "revising" => req.goal \in Goal
BY DEF BudgetRequest, Waiting, Creating, Changing, Applying, Setting, Revising

\* Which of the variables a request of one thread changes, and what the thread keeps.
LEMMA BudgetStored ==
  ASSUME BudgetTypeOK, NEW r \in BudgetThreads, NEW req \in BudgetRequest
  PROVE  [budgetReq EXCEPT ![r] = req] \in [BudgetThreads -> BudgetRequest]
BY DEF BudgetTypeOK, BudgetRequest

LEMMA CreateCheckKeeps ==
  ASSUME BudgetAssumption, BudgetInv, NEW r \in BudgetThreads, NEW list \in Lists, CreateCheck(r, list)
  PROVE  BudgetInv'
<1>1. [at |-> "creating", list |-> list] \in BudgetRequest
  BY DEF BudgetRequest, Creating
<1>2. BudgetTypeOK'
  BY <1>1, BudgetStored DEF BudgetInv, BudgetTypeOK, CreateCheck, Asks, BudgetRequest
<1>3. /\ ~Busy(r) /\ ~Busy(r)' /\ ~Revises(r) /\ ~Revises(r)'
      /\ \A q \in BudgetThreads \ {r} : budgetReq'[q] = budgetReq[q]
  BY DEF BudgetInv, BudgetTypeOK, CreateCheck, Asks, Busy, Revises
<1>4. Allocating'
  BY <1>3, AllocationsAlone DEF BudgetInv, Allocating, CreateCheck
<1>5. Aiming'
  BY <1>3, GoalAlone DEF BudgetInv, Aiming, CreateCheck
<1>. QED
  BY <1>2, <1>4, <1>5 DEF BudgetInv, Allocating, Aiming

LEMMA CreateRowKeeps ==
  ASSUME BudgetAssumption, BudgetInv, NEW r \in BudgetThreads, CreateRow(r)
  PROVE  BudgetInv'
<1>. DEFINE list == budgetReq[r].list
<1>1. list \in Lists
  BY BudgetKinds DEF BudgetInv, BudgetTypeOK, CreateRow, BudgetRequest
<1>2. /\ [at |-> "idle"] \in BudgetRequest
      /\ [at |-> "applying", list |-> list, done |-> 0] \in BudgetRequest
  BY <1>1 DEF BudgetRequest, Waiting, Applying, BudgetAssumption
<1>3. BudgetTypeOK'
  <2>1. budgetReq' \in [BudgetThreads -> BudgetRequest]
    BY <1>2, BudgetStored DEF BudgetInv, CreateRow, Step, Replies
  <2>. QED
    BY <2>1 DEF BudgetInv, BudgetTypeOK, CreateRow, BudgetRequest
<1>4. /\ ~Busy(r) /\ ~Revises(r) /\ ~Revises(r)'
      /\ \A q \in BudgetThreads \ {r} : budgetReq'[q] = budgetReq[q]
  BY DEF BudgetInv, BudgetTypeOK, CreateRow, Step, Replies, Busy, Revises
<1>5. Aiming'
  BY <1>4, GoalAlone DEF BudgetInv, Aiming, CreateRow
<1>6. CASE budget
  <2>1. ~Busy(r)' /\ budget' = budget
    BY <1>6 DEF BudgetInv, BudgetTypeOK, CreateRow, Replies, Step, Busy
  <2>2. Allocating'
    BY <1>4, <2>1, AllocationsAlone DEF BudgetInv, Allocating, CreateRow
  <2>. QED
    BY <1>3, <1>5, <2>2 DEF BudgetInv, Allocating, Aiming
<1>7. CASE ~budget
  <2>1. budgetReq'[r] = [at |-> "applying", list |-> list, done |-> 0] /\ budget'
    BY <1>7 DEF BudgetInv, BudgetTypeOK, CreateRow, Step
  <2>2. \A q \in BudgetThreads \ {r} : ~Busy(q)'
    BY <1>4, <1>7 DEF BudgetInv, ChangesInTurn, Busy
  <2>3. \A q \in BudgetThreads : budgetReq'[q].at \in {"read", "recorded", "saved", "applying"} => q = r
    BY <2>2 DEF Busy
  <2>4. ChangesInTurn'
    BY <2>1, <2>2 DEF ChangesInTurn
  <2>5. ReadStillThere'
    BY <2>1, <2>3 DEF ReadStillThere
  <2>6. HalfApplied'
    <3>1. 0 < Len(list) /\ Distinct(list, 0)
      BY <1>1, ListShape DEF Distinct
    <3>2. allocated' = Written(list, 0) /\ inForce' \subseteq history'
      BY <1>7, WrittenNothing DEF BudgetInv, ChangesInTurn, CreateRow
    <3>3. \A q \in BudgetThreads : budgetReq'[q].at = "applying" =>
             budgetReq'[q].list = list /\ budgetReq'[q].done = 0
      BY <2>1, <2>3
    <3>. QED
      BY <3>1, <3>2, <3>3 DEF HalfApplied, Distinct, Written
  <2>7. PlanOfOneRequest'
    BY <2>1 DEF PlanOfOneRequest
  <2>8. ReplacedIsRecorded'
    BY DEF BudgetInv, ReplacedIsRecorded, CreateRow
  <2>. QED
    BY <1>3, <1>5, <2>4, <2>5, <2>6, <2>7, <2>8 DEF BudgetInv, Aiming
<1>. QED
  BY <1>6, <1>7

LEMMA PatchReadKeeps ==
  ASSUME CarefulBudgeter, BudgetInv, NEW r \in BudgetThreads,
         NEW list \in Lists \cup {NoList}, PatchRead(r, list)
  PROVE  BudgetInv'
<1>1. [at |-> "read", copy |-> allocated, list |-> list] \in BudgetRequest
  BY DEF BudgetInv, BudgetTypeOK, BudgetRequest, Changing
<1>2. BudgetTypeOK'
  BY <1>1, BudgetStored DEF BudgetInv, BudgetTypeOK, PatchRead, Asks, BudgetRequest
<1>3. /\ ~Revises(r) /\ ~Revises(r)'
      /\ \A q \in BudgetThreads \ {r} : budgetReq'[q] = budgetReq[q]
      /\ budgetReq'[r] = [at |-> "read", copy |-> allocated, list |-> list]
      /\ budgetReq[r].at = "idle"
  BY DEF BudgetInv, BudgetTypeOK, PatchRead, Asks, Revises
<1>4. Aiming'
  BY <1>3, GoalAlone DEF BudgetInv, Aiming, PatchRead
<1>5. \A q \in BudgetThreads : ~Busy(q)
  BY DEF PatchRead, BudgetAtRest, Busy
<1>6. \A q \in BudgetThreads : budgetReq'[q].at \in {"read", "recorded", "saved", "applying"} => q = r
  BY <1>3, <1>5 DEF Busy
<1>7. ChangesInTurn'
  BY <1>6 DEF BudgetInv, ChangesInTurn, PatchRead, Busy, Nothing
<1>8. ReadStillThere'
  BY <1>3, <1>6 DEF ReadStillThere, PatchRead
<1>9. HalfApplied'
  BY <1>3, <1>6 DEF HalfApplied
<1>10. PlanOfOneRequest' /\ ReplacedIsRecorded'
  BY <1>5 DEF BudgetInv, PlanOfOneRequest, ReplacedIsRecorded, PatchRead, Applied, Busy
<1>. QED
  BY <1>2, <1>4, <1>7, <1>8, <1>9, <1>10 DEF BudgetInv, Aiming

LEMMA PatchRecordKeeps ==
  ASSUME BudgetInv, NEW r \in BudgetThreads, PatchRecord(r)
  PROVE  BudgetInv'
<1>. DEFINE req == [budgetReq[r] EXCEPT !.at = "recorded"]
<1>1. /\ budgetReq[r] \in Changing
      /\ req \in BudgetRequest /\ req.at = "recorded"
      /\ budgetReq' = [budgetReq EXCEPT ![r] = req]
  <2>1. budgetReq[r] \in BudgetRequest /\ budgetReq[r].at = "read"
    BY DEF BudgetInv, BudgetTypeOK, PatchRecord, BudgetRequest
  <2>2. budgetReq[r] \in Changing
    BY <2>1, BudgetKinds
  <2>3. req \in Changing /\ req.at = "recorded"
    BY <2>2 DEF Changing
  <2>. QED
    BY <2>2, <2>3 DEF PatchRecord, BudgetRequest
<1>2. budgetReq[r].copy = allocated /\ history' = history \cup {allocated}
  BY DEF BudgetInv, ReadStillThere, PatchRecord
<1>3. BudgetTypeOK'
  BY <1>1, <1>2, BudgetStored DEF BudgetInv, BudgetTypeOK, PatchRecord, BudgetRequest
<1>4. /\ Busy(r) /\ ~Revises(r) /\ ~Revises(r)'
      /\ \A q \in BudgetThreads \ {r} : budgetReq'[q] = budgetReq[q]
      /\ budgetReq'[r] = req
  BY <1>1 DEF BudgetInv, BudgetTypeOK, PatchRecord, Busy, Revises
<1>5. Aiming'
  BY <1>4, GoalAlone DEF BudgetInv, Aiming, PatchRecord
<1>6. \A q \in BudgetThreads : budgetReq'[q].at \in {"read", "recorded", "saved", "applying"} => q = r
  BY <1>4 DEF BudgetInv, ChangesInTurn, Busy
<1>7. ChangesInTurn'
  BY <1>4, <1>6 DEF BudgetInv, ChangesInTurn, PatchRecord, Busy, Nothing
<1>8. ReadStillThere'
  BY <1>1, <1>2, <1>4, <1>6 DEF ReadStillThere, PatchRecord
<1>9. HalfApplied'
  BY <1>1, <1>4, <1>6 DEF HalfApplied
<1>10. PlanOfOneRequest'
  <2>1. \A q \in BudgetThreads : budgetReq[q].at # "applying"
    BY <1>4 DEF BudgetInv, ChangesInTurn, Busy, PatchRecord
  <2>. QED
    BY <2>1 DEF BudgetInv, PlanOfOneRequest, PatchRecord, Applied
<1>11. ReplacedIsRecorded'
  BY <1>2 DEF BudgetInv, ReplacedIsRecorded, PatchRecord
<1>. QED
  BY <1>3, <1>5, <1>7, <1>8, <1>9, <1>10, <1>11 DEF BudgetInv, Aiming

LEMMA PatchSaveKeeps ==
  ASSUME BudgetInv, NEW r \in BudgetThreads, PatchSave(r)
  PROVE  BudgetInv'
<1>1. PICK req \in BudgetRequest :
        /\ budgetReq' = [budgetReq EXCEPT ![r] = req]
        /\ req.at \in {"idle", "saved"}
        /\ req.at = "saved" => req.list \in Lists
  <2>1. budgetReq[r] \in BudgetRequest /\ budgetReq[r].at = "recorded"
    BY DEF BudgetInv, BudgetTypeOK, PatchSave, BudgetRequest
  <2>2. [at |-> "idle"] \in BudgetRequest
    BY DEF BudgetRequest, Waiting
  <2>3. budgetReq[r] \in Changing
    BY <2>1, BudgetKinds
  <2>4. /\ [budgetReq[r] EXCEPT !.at = "saved"] \in Changing
        /\ [budgetReq[r] EXCEPT !.at = "saved"].at = "saved"
        /\ [budgetReq[r] EXCEPT !.at = "saved"].list = budgetReq[r].list
        /\ budgetReq[r].list \in Lists \cup {NoList}
    BY <2>3 DEF Changing
  <2>. QED
    BY <2>2, <2>4 DEF PatchSave, Replies, Step, BudgetRequest
<1>2. BudgetTypeOK'
  BY <1>1, BudgetStored DEF BudgetInv, BudgetTypeOK, PatchSave, BudgetRequest
<1>3. /\ Busy(r) /\ ~Revises(r) /\ ~Revises(r)'
      /\ \A q \in BudgetThreads \ {r} : budgetReq'[q] = budgetReq[q]
      /\ budgetReq'[r] = req
  BY <1>1 DEF BudgetInv, BudgetTypeOK, PatchSave, Busy, Revises
<1>4. Aiming'
  BY <1>3, GoalAlone DEF BudgetInv, Aiming, PatchSave
<1>5. \A q \in BudgetThreads : budgetReq'[q].at \in {"read", "recorded", "saved", "applying"} => q = r
  BY <1>3 DEF BudgetInv, ChangesInTurn, Busy
<1>6. ChangesInTurn'
  BY <1>3, <1>5 DEF BudgetInv, ChangesInTurn, PatchSave, Busy, Nothing
<1>7. ReadStillThere'
  BY <1>1, <1>3, <1>5 DEF BudgetInv, ReadStillThere, PatchSave
<1>8. HalfApplied'
  BY <1>1, <1>3, <1>5 DEF HalfApplied
<1>9. PlanOfOneRequest'
  <2>1. \A q \in BudgetThreads : budgetReq[q].at # "applying"
    BY <1>3 DEF BudgetInv, ChangesInTurn, Busy, PatchSave
  <2>. QED
    BY <2>1 DEF BudgetInv, PlanOfOneRequest, PatchSave, Applied
<1>10. ReplacedIsRecorded'
  BY DEF BudgetInv, ReplacedIsRecorded, PatchSave
<1>. QED
  BY <1>2, <1>4, <1>6, <1>7, <1>8, <1>9, <1>10 DEF BudgetInv, Aiming

LEMMA PatchClearKeeps ==
  ASSUME BudgetAssumption, BudgetInv, NEW r \in BudgetThreads, PatchClear(r)
  PROVE  BudgetInv'
<1>. DEFINE list == budgetReq[r].list
            req  == [at |-> "applying", list |-> list, done |-> 0]
<1>1. /\ list \in Lists
      /\ req \in BudgetRequest /\ req.at = "applying" /\ req.list = list /\ req.done = 0
      /\ budgetReq' = [budgetReq EXCEPT ![r] = req]
  <2>1. list \in Lists
    BY DEF BudgetInv, ReadStillThere, PatchClear
  <2>. QED
    BY <2>1 DEF PatchClear, Step, BudgetRequest, Applying, BudgetAssumption
<1>2. BudgetTypeOK'
  <2>1. Nothing \in Allocations
    BY DEF Nothing, Allocations, BudgetAssumption
  <2>. QED
    BY <1>1, <2>1, BudgetStored DEF BudgetInv, BudgetTypeOK, PatchClear, BudgetRequest
<1>3. /\ Busy(r) /\ ~Revises(r) /\ ~Revises(r)'
      /\ \A q \in BudgetThreads \ {r} : budgetReq'[q] = budgetReq[q]
      /\ budgetReq'[r] = req
  BY <1>1 DEF BudgetInv, BudgetTypeOK, PatchClear, Busy, Revises
<1>. HIDE DEF req, list
<1>4. Aiming'
  BY <1>3, GoalAlone DEF BudgetInv, Aiming, PatchClear
<1>5. \A q \in BudgetThreads : budgetReq'[q].at \in {"read", "recorded", "saved", "applying"} => q = r
  BY <1>3 DEF BudgetInv, ChangesInTurn, Busy
<1>6. ChangesInTurn'
  <2>1. budget
    BY <1>3 DEF BudgetInv, ChangesInTurn
  <2>. QED
    BY <2>1, <1>5 DEF ChangesInTurn, PatchClear, Busy
<1>7. ReadStillThere'
  BY <1>1, <1>3, <1>5 DEF ReadStillThere
<1>8. inForce \subseteq history
  BY DEF BudgetInv, ReplacedIsRecorded, ReadStillThere, PatchClear
<1>9. HalfApplied'
  <2>1. 0 < Len(list) /\ Distinct(list, 0)
    BY <1>1, ListShape DEF Distinct
  <2>2. allocated' = Written(list, 0) /\ inForce' \subseteq history'
    BY <1>8, WrittenNothing DEF PatchClear
  <2>3. \A q \in BudgetThreads : budgetReq'[q].at = "applying" =>
           budgetReq'[q].list = list /\ budgetReq'[q].done = 0
    BY <1>1, <1>3, <1>5
  <2>. QED
    BY <2>1, <2>2, <2>3 DEF HalfApplied, Distinct, Written
<1>10. PlanOfOneRequest'
  BY <1>1, <1>3 DEF PlanOfOneRequest
<1>11. ReplacedIsRecorded'
  BY <1>8 DEF ReplacedIsRecorded, PatchClear
<1>. QED
  BY <1>2, <1>4, <1>6, <1>7, <1>9, <1>10, <1>11 DEF BudgetInv, Aiming

LEMMA AllocateKeeps ==
  ASSUME BudgetAssumption, BudgetInv, NEW r \in BudgetThreads, Allocate(r)
  PROVE  BudgetInv'
<1>. DEFINE list == budgetReq[r].list
            done == budgetReq[r].done
            item == list[done + 1]
            refused == allocated[item.category] # 0
            ends == refused \/ done + 1 = Len(list)
<1>1. /\ budgetReq[r] \in Applying /\ list \in Lists /\ done \in Nat
      /\ done < Len(list) /\ Len(list) \in 1..Whole
      /\ Distinct(list, done) /\ allocated = Written(list, done)
      /\ inForce \subseteq history
      /\ item \in Item
  <2>1. budgetReq[r] \in BudgetRequest /\ budgetReq[r].at = "applying"
    BY DEF BudgetInv, BudgetTypeOK, Allocate, BudgetRequest
  <2>2. budgetReq[r] \in Applying /\ list \in Lists /\ done \in 0..Whole
    BY <2>1, BudgetKinds
  <2>3. /\ done < Len(list) /\ Distinct(list, done)
        /\ allocated = Written(list, done) /\ inForce \subseteq history
    BY <2>1 DEF BudgetInv, HalfApplied
  <2>4. Len(list) \in 1..Whole /\ done \in Nat /\ item \in Item
    BY <2>2, <2>3, ListShape DEF BudgetAssumption
  <2>. QED
    BY <2>2, <2>3, <2>4
<1>2. refused <=> \E i \in 1..done : list[i].category = item.category
  BY <1>1, WrittenNext
<1>3. ~refused => /\ Distinct(list, done + 1)
                  /\ allocated' = Written(list, done + 1)
  BY <1>1, WrittenNext DEF Allocate
<1>4. refused => allocated' = allocated
  BY DEF Allocate
<1>5. allocated' \in Allocations
  <2>1. allocated' = IF refused THEN allocated ELSE [allocated EXCEPT ![item.category] = item.share]
    BY DEF Allocate
  <2>2. item.category \in Categories /\ item.share \in 0..Whole
    BY <1>1 DEF Item
  <2>3. allocated \in Allocations
    BY DEF BudgetInv, BudgetTypeOK
  <2>. HIDE DEF item, refused
  <2>. QED
    BY <2>1, <2>2, <2>3 DEF Allocations
<1>6. /\ budget /\ budget'
      /\ \A q \in BudgetThreads : Busy(q) => q = r
  BY DEF BudgetInv, ChangesInTurn, Busy, Allocate
<1>. HIDE DEF list, done, item, refused
<1>7. CASE ends
  <2>1. /\ budgetReq' = [budgetReq EXCEPT ![r] = [at |-> "idle"]]
        /\ sent' = list /\ inForce' = inForce \cup {allocated'}
        /\ UNCHANGED <<budget, history, goal, goalStated>>
    BY <1>7 DEF Allocate, Replies, Step, list, done, item, refused
  <2>2. [at |-> "idle"] \in BudgetRequest
    BY DEF BudgetRequest, Waiting
  <2>3. BudgetTypeOK'
    BY <1>1, <1>5, <2>1, <2>2, BudgetStored DEF BudgetInv, BudgetTypeOK, BudgetRequest
  <2>4. /\ ~Revises(r) /\ ~Revises(r)' /\ budgetReq'[r].at = "idle"
        /\ \A q \in BudgetThreads \ {r} : budgetReq'[q] = budgetReq[q]
    BY <2>1 DEF BudgetInv, BudgetTypeOK, Allocate, Revises
  <2>5. Aiming'
    BY <2>1, <2>4, GoalAlone DEF BudgetInv, Aiming
  <2>6. \A q \in BudgetThreads : budgetReq'[q].at \notin {"read", "recorded", "saved", "applying"}
    BY <1>6, <2>4 DEF Busy
  <2>7. ChangesInTurn' /\ ReadStillThere' /\ HalfApplied'
    BY <1>6, <2>6 DEF ChangesInTurn, ReadStillThere, HalfApplied, Busy
  <2>8. Applied(list) = allocated'
    <3>1. CASE refused
      <4>1. \E i \in 1..done : list[i].category = list[done + 1].category
        BY <1>2, <3>1 DEF item
      <4>. QED
        BY <1>1, <1>4, <3>1, <4>1, AppliedUpTo
    <3>2. CASE ~refused
      <4>1. done + 1 = Len(list) /\ done + 1 \in Nat /\ done + 1 <= Len(list)
        BY <1>1, <1>7, <3>2
      <4>. QED
        BY <1>1, <1>3, <3>2, <4>1, AppliedUpTo
    <3>. QED
      BY <3>1, <3>2
  <2>9. PlanOfOneRequest'
    BY <2>1, <2>8 DEF PlanOfOneRequest, Applied
  <2>10. ReplacedIsRecorded'
    BY <1>1, <2>1 DEF ReplacedIsRecorded
  <2>. QED
    BY <2>3, <2>5, <2>7, <2>9, <2>10 DEF BudgetInv, Aiming
<1>8. CASE ~ends
  <2>. DEFINE req == [budgetReq[r] EXCEPT !.done = done + 1]
  <2>1. /\ budgetReq' = [budgetReq EXCEPT ![r] = req]
        /\ UNCHANGED <<budget, history, goal, goalStated, sent, inForce>>
    BY <1>8 DEF Allocate, Step, list, done, item, refused
  <2>2. /\ req \in Applying /\ req.at = "applying" /\ req.done = done + 1 /\ req.list = list
        /\ done + 1 < Len(list)
    <3>1. done + 1 < Len(list) /\ done + 1 \in 0..Whole
      BY <1>1, <1>8 DEF BudgetAssumption
    <3>. QED
      BY <1>1, <3>1 DEF Applying, list
  <2>. HIDE DEF req
  <2>3. BudgetTypeOK'
    <3>1. req \in BudgetRequest
      BY <2>2 DEF BudgetRequest
    <3>. QED
      BY <1>5, <2>1, <3>1, BudgetStored DEF BudgetInv, BudgetTypeOK, BudgetRequest
  <2>4. /\ ~Revises(r) /\ ~Revises(r)' /\ budgetReq'[r] = req
        /\ \A q \in BudgetThreads \ {r} : budgetReq'[q] = budgetReq[q]
    BY <2>1, <2>2 DEF BudgetInv, BudgetTypeOK, Allocate, Revises
  <2>5. Aiming'
    BY <2>1, <2>4, GoalAlone DEF BudgetInv, Aiming
  <2>6. \A q \in BudgetThreads : budgetReq'[q].at \in {"read", "recorded", "saved", "applying"} => q = r
    BY <1>6, <2>4 DEF Busy
  <2>7. ChangesInTurn' /\ ReadStillThere'
    BY <1>6, <2>2, <2>4, <2>6 DEF ChangesInTurn, ReadStillThere, Busy
  <2>8. HalfApplied'
    <3>1. Distinct(list, done + 1) /\ allocated' = Written(list, done + 1) /\ inForce' \subseteq history'
      BY <1>1, <1>3, <1>8, <2>1
    <3>2. \A q \in BudgetThreads : budgetReq'[q].at = "applying" =>
             budgetReq'[q].list = list /\ budgetReq'[q].done = done + 1
      BY <2>2, <2>4, <2>6
    <3>. QED
      BY <2>2, <3>1, <3>2, SMTT(30) DEF HalfApplied, Distinct, Written
  <2>9. PlanOfOneRequest'
    BY <2>2, <2>4 DEF PlanOfOneRequest
  <2>10. ReplacedIsRecorded'
    BY <1>1, <2>1 DEF ReplacedIsRecorded
  <2>. QED
    BY <2>3, <2>5, <2>7, <2>8, <2>9, <2>10 DEF BudgetInv, Aiming
<1>. QED
  BY <1>7, <1>8


LEMMA GoalCheckKeeps ==
  ASSUME BudgetInv, NEW r \in BudgetThreads, NEW g \in Goal, GoalCheck(r, g)
  PROVE  BudgetInv'
<1>1. [at |-> "setting", goal |-> g] \in BudgetRequest
  BY DEF BudgetRequest, Setting
<1>2. BudgetTypeOK'
  BY <1>1, BudgetStored DEF BudgetInv, BudgetTypeOK, GoalCheck, Asks, BudgetRequest
<1>3. /\ ~Busy(r) /\ ~Busy(r)' /\ ~Revises(r) /\ ~Revises(r)'
      /\ \A q \in BudgetThreads \ {r} : budgetReq'[q] = budgetReq[q]
  BY DEF BudgetInv, BudgetTypeOK, GoalCheck, Asks, Busy, Revises
<1>4. Allocating'
  BY <1>3, AllocationsAlone DEF BudgetInv, Allocating, GoalCheck
<1>5. Aiming'
  BY <1>3, GoalAlone DEF BudgetInv, Aiming, GoalCheck
<1>. QED
  BY <1>2, <1>4, <1>5 DEF BudgetInv, Allocating, Aiming

LEMMA GoalCreateKeeps ==
  ASSUME BudgetInv, NEW r \in BudgetThreads, GoalCreate(r)
  PROVE  BudgetInv'
<1>1. budgetReq[r] \in BudgetRequest /\ budgetReq[r].at = "setting" /\ budgetReq[r].goal \in Goal
  BY BudgetKinds DEF BudgetInv, BudgetTypeOK, GoalCreate, BudgetRequest
<1>2. [at |-> "idle"] \in BudgetRequest /\ budgetReq' = [budgetReq EXCEPT ![r] = [at |-> "idle"]]
  BY DEF BudgetRequest, Waiting, GoalCreate, Replies, Step
<1>3. BudgetTypeOK'
  BY <1>1, <1>2, BudgetStored DEF BudgetInv, BudgetTypeOK, GoalCreate, BudgetRequest
<1>4. /\ ~Busy(r) /\ ~Busy(r)' /\ ~Revises(r) /\ ~Revises(r)'
      /\ \A q \in BudgetThreads \ {r} : budgetReq'[q] = budgetReq[q]
  BY <1>1, <1>2 DEF BudgetInv, BudgetTypeOK, Busy, Revises
<1>5. Allocating'
  BY <1>4, AllocationsAlone DEF BudgetInv, Allocating, GoalCreate
<1>6. CASE goal = NoGoal
  <2>1. \A q \in BudgetThreads : ~Revises(q)'
    BY <1>4, <1>6 DEF BudgetInv, RevisionsFresh, Revises
  <2>2. RevisionsFresh'
    BY <2>1 DEF RevisionsFresh
  <2>3. GoalAsStated'
    BY <1>6 DEF GoalAsStated, GoalCreate
  <2>. QED
    BY <1>3, <1>5, <2>2, <2>3 DEF BudgetInv, Allocating
<1>7. CASE goal # NoGoal
  <2>1. Aiming'
    BY <1>4, <1>7, GoalAlone DEF BudgetInv, Aiming, GoalCreate
  <2>. QED
    BY <1>3, <1>5, <2>1 DEF BudgetInv, Allocating, Aiming
<1>. QED
  BY <1>6, <1>7

LEMMA GoalReadKeeps ==
  ASSUME CarefulBudgeter, BudgetInv, NEW r \in BudgetThreads, GoalRead(r)
  PROVE  BudgetInv'
<1>0. PICK fields \in SUBSET {"target", "months"} : \E values \in [fields -> Figures] :
        Asks(r, [at |-> "revising", fields |-> fields,
                 goal |-> [f \in DOMAIN goal |-> IF f \in fields THEN values[f] ELSE goal[f]]])
  BY DEF GoalRead
<1>1. PICK values \in [fields -> Figures] :
        Asks(r, [at |-> "revising", fields |-> fields,
                 goal |-> [f \in DOMAIN goal |-> IF f \in fields THEN values[f] ELSE goal[f]]])
  BY <1>0
<1>. DEFINE copy == [f \in DOMAIN goal |-> IF f \in fields THEN values[f] ELSE goal[f]]
            req  == [at |-> "revising", fields |-> fields, goal |-> copy]
<1>2. goal # NoGoal /\ goal \in Goal
  BY DEF BudgetInv, BudgetTypeOK, GoalRead
<1>3. copy \in Goal /\ \A f \in {"target", "months"} \ fields : copy[f] = goal[f]
  <2>1. DOMAIN goal = {"target", "months"} /\ goal.target \in Figures /\ goal.months \in Figures
    BY <1>2 DEF Goal
  <2>2. copy = [target |-> IF "target" \in fields THEN values["target"] ELSE goal.target,
                months |-> IF "months" \in fields THEN values["months"] ELSE goal.months]
    BY <2>1
  <2>3. /\ (IF "target" \in fields THEN values["target"] ELSE goal.target) \in Figures
        /\ (IF "months" \in fields THEN values["months"] ELSE goal.months) \in Figures
    BY <2>1
  <2>4. copy \in Goal
    BY <2>2, <2>3 DEF Goal
  <2>. QED
    BY <2>1, <2>4
<1>4. req \in BudgetRequest /\ req.at = "revising" /\ req.fields = fields /\ req.goal = copy
  BY <1>3 DEF BudgetRequest, Revising
<1>. HIDE DEF copy
<1>5. BudgetTypeOK'
  BY <1>1, <1>4, BudgetStored DEF BudgetInv, BudgetTypeOK, GoalRead, Asks, BudgetRequest, copy
<1>6. /\ ~Busy(r) /\ ~Busy(r)' /\ budgetReq'[r] = req
      /\ \A q \in BudgetThreads \ {r} : budgetReq'[q] = budgetReq[q]
  BY <1>1 DEF BudgetInv, BudgetTypeOK, Asks, Busy, copy
<1>7. Allocating'
  BY <1>6, AllocationsAlone DEF BudgetInv, Allocating, GoalRead
<1>8. \A q \in BudgetThreads : Revises(q)' => q = r
  BY <1>6 DEF GoalRead, GoalAtRest, Revises
<1>9. RevisionsFresh'
  BY <1>2, <1>3, <1>4, <1>6, <1>8 DEF RevisionsFresh, GoalRead, NoGoal
<1>10. GoalAsStated'
  BY DEF BudgetInv, GoalAsStated, GoalRead
<1>. QED
  BY <1>5, <1>7, <1>9, <1>10 DEF BudgetInv, Allocating

LEMMA GoalSaveKeeps ==
  ASSUME BudgetInv, NEW r \in BudgetThreads, GoalSave(r)
  PROVE  BudgetInv'
<1>1. budgetReq[r] \in BudgetRequest /\ budgetReq[r].at = "revising" /\ budgetReq[r].goal \in Goal
  BY BudgetKinds DEF BudgetInv, BudgetTypeOK, GoalSave, BudgetRequest
<1>2. [at |-> "idle"] \in BudgetRequest /\ budgetReq' = [budgetReq EXCEPT ![r] = [at |-> "idle"]]
  BY DEF BudgetRequest, Waiting, GoalSave, Replies, Step
<1>3. /\ goal \in Goal /\ goalStated = goal /\ goal # NoGoal
      /\ \A f \in {"target", "months"} \ budgetReq[r].fields : budgetReq[r].goal[f] = goal[f]
  BY <1>1 DEF BudgetInv, BudgetTypeOK, RevisionsFresh, Revises, GoalAsStated
<1>4. goalStated' = budgetReq[r].goal /\ goal' = budgetReq[r].goal
  <2>1. DOMAIN goal = {"target", "months"} /\ DOMAIN budgetReq[r].goal = {"target", "months"}
        /\ budgetReq[r].goal = [f \in {"target", "months"} |-> budgetReq[r].goal[f]]
    BY <1>1, <1>3 DEF Goal
  <2>2. goalStated' = [f \in {"target", "months"} |->
                         IF f \in budgetReq[r].fields THEN budgetReq[r].goal[f] ELSE goal[f]]
    BY <1>3, <2>1 DEF GoalSave
  <2>3. \A f \in {"target", "months"} :
           (IF f \in budgetReq[r].fields THEN budgetReq[r].goal[f] ELSE goal[f]) = budgetReq[r].goal[f]
    BY <1>3
  <2>. QED
    BY <2>1, <2>2, <2>3 DEF GoalSave
<1>5. BudgetTypeOK'
  BY <1>1, <1>2, <1>4, BudgetStored DEF BudgetInv, BudgetTypeOK, GoalSave, BudgetRequest
<1>6. /\ ~Busy(r) /\ ~Busy(r)' /\ Revises(r) /\ ~Revises(r)'
      /\ \A q \in BudgetThreads \ {r} : budgetReq'[q] = budgetReq[q]
  BY <1>1, <1>2 DEF BudgetInv, BudgetTypeOK, Busy, Revises
<1>7. Allocating'
  BY <1>6, AllocationsAlone DEF BudgetInv, Allocating, GoalSave
<1>8. \A q \in BudgetThreads : ~Revises(q)'
  BY <1>6 DEF BudgetInv, RevisionsFresh, Revises
<1>9. RevisionsFresh' /\ GoalAsStated'
  BY <1>4, <1>8 DEF RevisionsFresh, GoalAsStated
<1>. QED
  BY <1>5, <1>7, <1>9 DEF BudgetInv, Allocating

LEMMA AllocationsUntouched ==
  ASSUME Allocating, UNCHANGED <<budget, allocated, history, budgetReq, sent, inForce>>
  PROVE  Allocating'
<1>1. ChangesInTurn'
  BY DEF Allocating, ChangesInTurn, Busy, Nothing
<1>2. ReadStillThere'
  BY DEF Allocating, ReadStillThere
<1>3. HalfApplied'
  <2>. SUFFICES ASSUME NEW q \in BudgetThreads, budgetReq'[q].at = "applying"
                PROVE  LET list == budgetReq'[q].list  done == budgetReq'[q].done IN
                       /\ done < Len(list)
                       /\ Distinct(list, done)
                       /\ allocated = Written(list, done)
                       /\ inForce \subseteq history
    BY DEF HalfApplied, Distinct, Written
  <2>. QED
    BY DEF Allocating, HalfApplied
<1>4. PlanOfOneRequest'
  BY DEF Allocating, PlanOfOneRequest, Applied
<1>5. ReplacedIsRecorded'
  BY DEF Allocating, ReplacedIsRecorded
<1>. QED
  BY <1>1, <1>2, <1>3, <1>4, <1>5 DEF Allocating

\* A goal that is deleted or replaced at a stroke, while no PATCH of it is under way.
LEMMA GoalStrokeKeeps ==
  ASSUME CarefulBudgeter, BudgetInv, NEW g \in Goal \cup {NoGoal}, GoalAtRest,
         goal' = g, goalStated' = g,
         UNCHANGED <<budget, allocated, history, budgetReq, sent, inForce>>
  PROVE  BudgetInv'
<1>1. BudgetTypeOK'
  BY DEF BudgetInv, BudgetTypeOK
<1>2. Allocating'
  BY AllocationsUntouched DEF BudgetInv, Allocating
<1>3. RevisionsFresh' /\ GoalAsStated'
  BY DEF GoalAtRest, RevisionsFresh, GoalAsStated, Revises
<1>. QED
  BY <1>1, <1>2, <1>3 DEF BudgetInv, Allocating

LEMMA BudgetInvStart ==
  ASSUME BudgetAssumption PROVE BudgetInit => BudgetInv
<1>. SUFFICES ASSUME BudgetInit PROVE BudgetInv
  OBVIOUS
<1>1. BudgetTypeOK
  <2>1. Nothing \in Allocations
    BY DEF Nothing, Allocations, BudgetAssumption
  <2>2. [at |-> "idle"] \in Waiting
    BY DEF Waiting
  <2>3. budgetReq \in [BudgetThreads -> Waiting]
    BY <2>2 DEF BudgetInit
  <2>. QED
    BY <2>1, <2>3 DEF BudgetInit, BudgetTypeOK
<1>2. \A r \in BudgetThreads : budgetReq[r].at = "idle"
  BY DEF BudgetInit
<1>. QED
  BY <1>1, <1>2 DEF BudgetInit, BudgetInv, ChangesInTurn, ReadStillThere, HalfApplied,
     PlanOfOneRequest, ReplacedIsRecorded, RevisionsFresh, GoalAsStated, Busy, Revises

LEMMA BudgetInvStep ==
  ASSUME BudgetAssumption, CarefulBudgeter
  PROVE  BudgetInv /\ [BudgetNext]_budgetVars => BudgetInv'
<1>. SUFFICES ASSUME BudgetInv, [BudgetNext]_budgetVars PROVE BudgetInv'
  OBVIOUS
<1>1. CASE AllocationsNext
  BY <1>1, CreateCheckKeeps, CreateRowKeeps, PatchReadKeeps, PatchRecordKeeps, PatchSaveKeeps,
     PatchClearKeeps, AllocateKeeps DEF AllocationsNext
<1>2. CASE GoalNext
  <2>1. ASSUME GoalDelete PROVE BudgetInv'
    BY <2>1, GoalStrokeKeeps DEF GoalDelete
  <2>2. ASSUME NEW g \in Goal, GoalUpsert(g) PROVE BudgetInv'
    BY <2>2, GoalStrokeKeeps DEF GoalUpsert
  <2>. QED
    BY <1>2, <2>1, <2>2, GoalCheckKeeps, GoalCreateKeeps, GoalReadKeeps, GoalSaveKeeps DEF GoalNext
<1>3. CASE UNCHANGED budgetVars
  <2>1. BudgetTypeOK'
    BY <1>3 DEF BudgetInv, BudgetTypeOK, budgetVars
  <2>2. Allocating'
    BY <1>3, AllocationsUntouched DEF BudgetInv, Allocating, budgetVars
  <2>3. RevisionsFresh' /\ GoalAsStated'
    BY <1>3 DEF BudgetInv, RevisionsFresh, GoalAsStated, Revises, NoGoal, budgetVars
  <2>. QED
    BY <2>1, <2>2, <2>3 DEF BudgetInv, Allocating
<1>. QED
  BY <1>1, <1>2, <1>3 DEF BudgetNext

\* Budget, allocations, history and goal have their types.
THEOREM BudgetTyping ==
  ASSUME BudgetAssumption, CarefulBudgeter PROVE BudgetSpec => []BudgetTypeOK
<1>1. BudgetInv => BudgetTypeOK
  BY DEF BudgetInv
<1>. QED
  BY <1>1, BudgetInvStart, BudgetInvStep, PTL DEF BudgetSpec

\* What a user is told of budget, history and goal stays so: whatever lists are sent, and
\* whichever of them the database refuses halfway, the allocations are those of one
\* request, those replaced are in the history, and the goal is what was answered.
THEOREM BudgetKept ==
  ASSUME BudgetAssumption, CarefulBudgeter PROVE BudgetSpec => []BudgetAsStated
<1>1. BudgetInv => BudgetAsStated
  BY DEF BudgetInv, BudgetAsStated
<1>. QED
  BY <1>1, BudgetInvStart, BudgetInvStep, PTL DEF BudgetSpec

(***************************************************************************)
(* Chat                                                                    *)
(***************************************************************************)

\* Everything is of its type in every reachable state.
LEMMA ChatInitTyped == ChatInit => ChatTypeOK
<1> SUFFICES ASSUME ChatInit PROVE ChatTypeOK
  OBVIOUS
<1>1. chatAt \in [Messages -> {"unsent"} \cup Posting \cup Replying \cup Over]
  BY DEF ChatInit
<1>2. chatIn \in [Messages -> Conversations \cup {Nowhere}]
  BY DEF ChatInit
<1>3. listening \in BOOLEAN
  BY DEF ChatInit
<1> QED BY <1>1, <1>2, <1>3 DEF ChatInit, ChatTypeOK

LEMMA ChatStepTyped == ChatTypeOK /\ [ChatNext]_chatVars => ChatTypeOK'
<1> SUFFICES ASSUME ChatTypeOK, [ChatNext]_chatVars PROVE ChatTypeOK'
  OBVIOUS
<1> USE DEF ChatTypeOK, Posting, Replying, Over
<1>1. ASSUME NEW t \in ConsentTypes, Grant(t) PROVE ChatTypeOK'
  BY <1>1 DEF Grant
<1>2. ASSUME NEW t \in ConsentTypes, Revoke(t) PROVE ChatTypeOK'
  BY <1>2 DEF Revoke
<1>3. CASE StreamOpens \/ StreamBreaks
  BY <1>3 DEF StreamOpens, StreamBreaks
<1>4. ASSUME NEW c \in Conversations, StartConversation(c) PROVE ChatTypeOK'
  BY <1>4 DEF StartConversation
<1>5. ASSUME NEW c \in Conversations, DeleteConversation(c) PROVE ChatTypeOK'
  BY <1>5 DEF DeleteConversation
<1>6. ASSUME NEW m \in Messages, NEW c \in Conversations, PostCheck(m, c) PROVE ChatTypeOK'
  BY <1>6 DEF PostCheck, ChatGo
<1>7. ASSUME NEW m \in Messages, PostStep(m) PROVE ChatTypeOK'
  <2>1. CASE PostCreate(m)
    BY <2>1 DEF PostCreate, ChatGo
  <2>2. CASE PostBump(m)
    BY <2>2 DEF PostBump, ChatGo
  <2>3. CASE PostEnqueue(m)
    BY <2>3 DEF PostEnqueue, ChatGo
  <2> QED BY <1>7, <2>1, <2>2, <2>3 DEF PostStep
<1>8. ASSUME NEW m \in Messages, ReplyStep(m) PROVE ChatTypeOK'
  <2>1. CASE ReplyFetch(m)
    BY <2>1 DEF ReplyFetch, ChatGo
  <2>2. CASE ReplyStore(m)
    BY <2>2 DEF ReplyStore, ChatGo
  <2>3. CASE ReplyFails(m)
    BY <2>3 DEF ReplyFails, ChatGo, Publish
  <2>4. CASE ReplyReference(m)
    BY <2>4 DEF ReplyReference, ChatGo
  <2>5. CASE ReplyBump(m)
    BY <2>5 DEF ReplyBump, ChatGo
  <2>6. CASE ReplyAnnounce(m)
    BY <2>6 DEF ReplyAnnounce, ChatGo, Publish
  <2> QED BY <1>8, <2>1, <2>2, <2>3, <2>4, <2>5, <2>6 DEF ReplyStep
<1>9. ASSUME NEW m \in Messages, WorkerKilled(m) PROVE ChatTypeOK'
  BY <1>9 DEF WorkerKilled, ChatGo
<1>10. CASE UNCHANGED chatVars
  BY <1>10 DEF chatVars
<1> QED
  BY <1>1, <1>2, <1>3, <1>4, <1>5, <1>6, <1>7, <1>8, <1>9, <1>10 DEF ChatNext

\* Conversations, messages, consent and events keep their types whatever requests,
\* tasks and deletions overlap.
THEOREM ChatTyping == ChatSpec => []ChatTypeOK
<1>1. ChatInit => ChatTypeOK
  BY ChatInitTyped
<1> QED BY <1>1, ChatStepTyped, PTL DEF ChatSpec

(***************************************************************************)
(* What the user is told                                                   *)
(***************************************************************************)

\* A message's reply has been stored, whether or not it has been deleted since.
HasReplied == {"replied", "referenced", "saved", "told"}

\* A reply that a task is at work on after storing it, or has announced, is stored
\* unless its conversation was deleted.
ReplyKept ==
  \A m \in Messages : chatAt[m] \in HasReplied => m \in answered \/ chatIn[m] \in erased

\* Nothing is stored of a message whose stream has not ended well.
NoneStored ==
  \A m \in Messages : m \in answered => chatAt[m] \in HasReplied \cup {"dropped", "lost"}

\* Each event is the last thing its task does.
EventsLast ==
  \A m \in Messages :
    /\ heard[m] = "reply" => chatAt[m] = "told"
    /\ heard[m] = "error" => chatAt[m] = "failed"

\* A message on its way to the AI service has the consent, or its revocation saw it.
OnTheWay ==
  \A m \in Messages :
    chatAt[m] \in Posting \cup {"queued"} => HasConsent \/ m \in carried

ChatInv == ReplyKept /\ NoneStored /\ EventsLast /\ OnTheWay /\ RevocationStopsNew

LEMMA ChatInvTells == ChatTypeOK /\ ChatInv => ChatAsTold
BY DEF ChatTypeOK, ChatInv, ReplyKept, NoneStored, EventsLast, ChatAsTold, EventsFitHistory,
       HasReplied

LEMMA ChatInitInv == ChatInit => ChatInv
BY DEF ChatInit, ChatInv, ReplyKept, NoneStored, EventsLast, OnTheWay, RevocationStopsNew,
       HasReplied, Posting

LEMMA ChatStepInv ==
  ASSUME ConsentAssumption
  PROVE  ChatTypeOK /\ ChatInv /\ [ChatNext]_chatVars => ChatInv'
<1> SUFFICES ASSUME ChatTypeOK, ChatInv, [ChatNext]_chatVars PROVE ChatInv'
  OBVIOUS
<1> USE DEF ChatInv, ReplyKept, NoneStored, EventsLast, OnTheWay, RevocationStopsNew,
            HasReplied, HasConsent, Posting, Replying, ChatTypeOK
<1>1. ASSUME NEW t \in ConsentTypes, Grant(t) PROVE ChatInv'
  BY <1>1, ConsentAssumption DEF Grant
<1>2. ASSUME NEW t \in ConsentTypes, Revoke(t) PROVE ChatInv'
  <2>1. CASE t = "data_processing"
    BY <1>2, <2>1, ConsentAssumption DEF Revoke
  <2>2. CASE t # "data_processing"
    BY <1>2, <2>2, ConsentAssumption DEF Revoke
  <2> QED BY <2>1, <2>2
<1>3. CASE StreamOpens \/ StreamBreaks
  BY <1>3 DEF StreamOpens, StreamBreaks
<1>4. ASSUME NEW c \in Conversations, StartConversation(c) PROVE ChatInv'
  BY <1>4 DEF StartConversation
<1>5. ASSUME NEW c \in Conversations, DeleteConversation(c) PROVE ChatInv'
  BY <1>5 DEF DeleteConversation
<1>6. ASSUME NEW m \in Messages, NEW c \in Conversations, PostCheck(m, c) PROVE ChatInv'
  BY <1>6 DEF PostCheck, ChatGo
<1>7. ASSUME NEW m \in Messages, PostStep(m) PROVE ChatInv'
  <2>1. CASE PostCreate(m)
    BY <2>1 DEF PostCreate, ChatGo
  <2>2. CASE PostBump(m)
    BY <2>2 DEF PostBump, ChatGo
  <2>3. CASE PostEnqueue(m)
    BY <2>3 DEF PostEnqueue, ChatGo
  <2> QED BY <1>7, <2>1, <2>2, <2>3 DEF PostStep
<1>8. ASSUME NEW m \in Messages, ReplyStep(m) PROVE ChatInv'
  <2>1. CASE ReplyFetch(m)
    BY <2>1 DEF ReplyFetch, ChatGo
  <2>2. CASE ReplyStore(m)
    BY <2>2 DEF ReplyStore, ChatGo
  <2>3. CASE ReplyFails(m)
    BY <2>3 DEF ReplyFails, ChatGo, Publish
  <2>4. CASE ReplyReference(m)
    BY <2>4 DEF ReplyReference, ChatGo
  <2>5. CASE ReplyBump(m)
    BY <2>5 DEF ReplyBump, ChatGo
  <2>6. CASE ReplyAnnounce(m)
    BY <2>6 DEF ReplyAnnounce, ChatGo, Publish
  <2> QED BY <1>8, <2>1, <2>2, <2>3, <2>4, <2>5, <2>6 DEF ReplyStep
<1>9. ASSUME NEW m \in Messages, WorkerKilled(m) PROVE ChatInv'
  BY <1>9 DEF WorkerKilled, ChatGo
<1>10. CASE UNCHANGED chatVars
  BY <1>10 DEF chatVars
<1> QED
  BY <1>1, <1>2, <1>3, <1>4, <1>5, <1>6, <1>7, <1>8, <1>9, <1>10 DEF ChatNext

\* An event never says of a message what a refetch would not show, and nothing goes to
\* the AI service without consent that was not on its way when consent was revoked,
\* for any number of conversations and messages.
THEOREM ToldTruly == ASSUME ConsentAssumption PROVE ChatSpec => []ChatAsTold
<1>1. ChatInit => ChatTypeOK /\ ChatInv
  BY ChatInitTyped, ChatInitInv
<1>2. ChatTypeOK /\ ChatInv /\ [ChatNext]_chatVars => (ChatTypeOK /\ ChatInv)'
  BY ChatStepTyped, ChatStepInv
<1> QED BY <1>1, <1>2, ChatInvTells, PTL DEF ChatSpec

(***************************************************************************)
(* Administrators                                                          *)
(***************************************************************************)

\* A token that is being exchanged is voided, by this request and no other, and has no
\* successor yet; one that has is voided.
ExchangesApart ==
  /\ \A r \in AdminThreads : adminReq[r].at = "issuing" =>
       /\ adminReq[r].token \in voided \ leftWith
       /\ \A p \in honoured : p[1] # adminReq[r].token
  /\ \A r, q \in AdminThreads :
       adminReq[r].at = "issuing" /\ adminReq[q].at = "issuing" /\ adminReq[r].token = adminReq[q].token
         => r = q
  /\ \A p \in honoured : p[1] \in voided

OnTemplate(r) == adminReq[r].at \in {"putting", "merging", "removing"}
OnProduct(r)  == adminReq[r].at \in {"embedding", "storing", "renaming"}

\* One request at a time changes the template, and one the product.
AdminsInTurn ==
  \A r, q \in AdminThreads :
    (OnTemplate(r) /\ OnTemplate(q)) \/ (OnProduct(r) /\ OnProduct(q)) => r = q

\* What a request has read of the template is what is stored: nothing, for one that
\* creates it, and for one that merges the fields it was not sent.
TemplateStillRead ==
  \A r \in AdminThreads :
    /\ adminReq[r].at = "putting" => template = NoTemplate
    /\ adminReq[r].at = "merging" =>
         /\ template # NoTemplate
         /\ \A f \in {"name", "allocations"} \ adminReq[r].fields :
              adminReq[r].object[f] = template[f]

\* The statements of a product that are stored, and those its creation still has to
\* store, are all there are.
StatementsCounted ==
  \A r \in AdminThreads :
    /\ adminReq[r].at = "embedding" => phrases = 0
    /\ adminReq[r].at = "storing"   => phrases = Phrases - adminReq[r].left
    /\ adminReq[r].at = "renaming"  => phrases # Absent

AdminInv ==
  /\ AdminTypeOK /\ ExchangesApart /\ AdminsInTurn /\ TemplateStillRead /\ StatementsCounted
  /\ AdminAsStated

LEMMA AbsentTyped ==
  ASSUME AdminAssumption
  PROVE  Absent \in Nat /\ Absent \in 0..Absent /\ 0 \in 0..Absent /\ Phrases # Absent /\ 0 # Absent
BY DEF AdminAssumption, Absent

LEMMA AdminLoginKeeps ==
  ASSUME AdminAssumption, CarefulAdmin, AdminInv,
         NEW t \in AdminTokens, AdminLogin(t)
  PROVE  AdminInv'
<1>1. AdminTypeOK'
  BY DEF AdminLogin, AdminInv, AdminTypeOK, templateVars, productVars
<1>2. ExchangesApart'
  BY DEF AdminLogin, AdminInv, ExchangesApart
<1>3. AdminsInTurn'
  BY DEF AdminLogin, AdminInv, AdminsInTurn, OnTemplate, OnProduct
<1>4. TemplateStillRead'
  BY DEF AdminLogin, AdminInv, TemplateStillRead, templateVars
<1>5. StatementsCounted'
  BY DEF AdminLogin, AdminInv, StatementsCounted, productVars
<1>6. AdminAsStated'
  BY DEF AdminLogin, AdminInv, AdminAsStated, HonouredOnce, TemplateAsStated,
    StatementsStored, templateVars, productVars
<1>. QED
  BY <1>1, <1>2, <1>3, <1>4, <1>5, <1>6 DEF AdminInv

LEMMA AdminLogoutKeeps ==
  ASSUME AdminAssumption, CarefulAdmin, AdminInv,
         NEW t \in AdminTokens, AdminLogout(t)
  PROVE  AdminInv'
<1>1. AdminTypeOK'
  BY DEF AdminLogout, AdminInv, AdminTypeOK, templateVars, productVars
<1>2. ExchangesApart'
  BY DEF AdminLogout, AdminInv, ExchangesApart
<1>3. AdminsInTurn'
  BY DEF AdminLogout, AdminInv, AdminsInTurn, OnTemplate, OnProduct
<1>4. TemplateStillRead'
  BY DEF AdminLogout, AdminInv, TemplateStillRead, templateVars
<1>5. StatementsCounted'
  BY DEF AdminLogout, AdminInv, StatementsCounted, productVars
<1>6. AdminAsStated'
  BY DEF AdminLogout, AdminInv, ExchangesApart, AdminAsStated, HonouredOnce, TemplateAsStated,
    StatementsStored, templateVars, productVars
<1>. QED
  BY <1>1, <1>2, <1>3, <1>4, <1>5, <1>6 DEF AdminInv

LEMMA DismissedKeeps ==
  ASSUME AdminAssumption, CarefulAdmin, AdminInv,
         Dismissed
  PROVE  AdminInv'
<1>1. AdminTypeOK'
  BY DEF Dismissed, AdminInv, AdminTypeOK, templateVars, productVars
<1>2. ExchangesApart'
  BY DEF Dismissed, AdminInv, ExchangesApart
<1>3. AdminsInTurn'
  BY DEF Dismissed, AdminInv, AdminsInTurn, OnTemplate, OnProduct
<1>4. TemplateStillRead'
  BY DEF Dismissed, AdminInv, TemplateStillRead, templateVars
<1>5. StatementsCounted'
  BY DEF Dismissed, AdminInv, StatementsCounted, productVars
<1>6. AdminAsStated'
  BY DEF Dismissed, AdminInv, AdminAsStated, HonouredOnce, TemplateAsStated, StatementsStored,
    templateVars, productVars
<1>. QED
  BY <1>1, <1>2, <1>3, <1>4, <1>5, <1>6 DEF AdminInv

LEMMA ProductDeleteKeeps ==
  ASSUME AdminAssumption, CarefulAdmin, AdminInv,
         ProductDelete
  PROVE  AdminInv'
<1>1. AdminTypeOK'
  BY AbsentTyped DEF AdminInv, AdminTypeOK, ProductDelete, tokenVars, templateVars
<1>2. ExchangesApart'
  BY DEF ProductDelete, AdminInv, ExchangesApart, tokenVars
<1>3. AdminsInTurn'
  BY DEF ProductDelete, AdminInv, AdminsInTurn, OnTemplate, OnProduct
<1>4. TemplateStillRead'
  BY DEF ProductDelete, AdminInv, TemplateStillRead, templateVars
<1>5. StatementsCounted'
  BY DEF ProductDelete, AdminInv, StatementsCounted, Settled, ProductSettled
<1>6. AdminAsStated'
  BY DEF ProductDelete, AdminInv, AdminAsStated, HonouredOnce, TemplateAsStated,
    StatementsStored, Settled, tokenVars, templateVars
<1>. QED
  BY <1>1, <1>2, <1>3, <1>4, <1>5, <1>6 DEF AdminInv

LEMMA AdminRedeemKeeps ==
  ASSUME AdminAssumption, CarefulAdmin, AdminInv,
         NEW r \in AdminThreads, NEW t \in AdminTokens, AdminRedeem(r, t)
  PROVE  AdminInv'
<1>1. AdminTypeOK'
  BY DEF AdminRedeem, AdminInv, AdminTypeOK, Summons, templateVars, productVars, AdminRequests
<1>2. ExchangesApart'
  BY DEF AdminRedeem, AdminInv, AdminTypeOK, ExchangesApart, Summons
<1>3. AdminsInTurn'
  BY DEF AdminRedeem, AdminInv, AdminsInTurn, OnTemplate, OnProduct, Summons
<1>4. TemplateStillRead'
  BY DEF AdminRedeem, AdminInv, TemplateStillRead, Summons, templateVars
<1>5. StatementsCounted'
  BY DEF AdminRedeem, AdminInv, StatementsCounted, Summons, productVars
<1>6. AdminAsStated'
  BY DEF AdminRedeem, AdminInv, AdminAsStated, HonouredOnce, TemplateAsStated,
    StatementsStored, templateVars, productVars
<1>. QED
  BY <1>1, <1>2, <1>3, <1>4, <1>5, <1>6 DEF AdminInv

LEMMA AdminIssueKeeps ==
  ASSUME AdminAssumption, CarefulAdmin, AdminInv,
         NEW r \in AdminThreads, NEW t \in AdminTokens, AdminIssue(r, t)
  PROVE  AdminInv'
<1>1. AdminTypeOK'
  BY DEF AdminIssue, AdminInv, AdminTypeOK, ExchangesApart, Proceeds, Free, templateVars,
    productVars, AdminRequests
<1>2. ExchangesApart'
  BY DEF AdminIssue, AdminInv, AdminTypeOK, ExchangesApart, Proceeds, Free
<1>3. AdminsInTurn'
  BY DEF AdminIssue, AdminInv, AdminsInTurn, OnTemplate, OnProduct, Proceeds, Free
<1>4. TemplateStillRead'
  BY DEF AdminIssue, AdminInv, TemplateStillRead, Proceeds, Free, templateVars
<1>5. StatementsCounted'
  BY DEF AdminIssue, AdminInv, StatementsCounted, Proceeds, Free, productVars
<1>6. AdminAsStated'
  BY DEF AdminIssue, AdminInv, ExchangesApart, AdminAsStated, HonouredOnce, TemplateAsStated,
    StatementsStored, Proceeds, templateVars, productVars
<1>. QED
  BY <1>1, <1>2, <1>3, <1>4, <1>5, <1>6 DEF AdminInv

LEMMA TemplateCheckKeeps ==
  ASSUME AdminAssumption, CarefulAdmin, AdminInv,
         NEW r \in AdminThreads, NEW object \in Template, TemplateCheck(r, object)
  PROVE  AdminInv'
<1>1. AdminTypeOK'
  BY DEF TemplateCheck, AdminInv, AdminTypeOK, Settled, TemplateSettled, Summons, tokenVars,
    templateVars, productVars, AdminRequests
<1>2. ExchangesApart'
  BY DEF TemplateCheck, AdminInv, ExchangesApart, Settled, Summons, tokenVars
<1>3. AdminsInTurn'
  BY DEF TemplateCheck, AdminInv, AdminsInTurn, OnTemplate, OnProduct, Settled,
    TemplateSettled, Summons
<1>4. TemplateStillRead'
  BY DEF TemplateCheck, AdminInv, TemplateStillRead, Settled, Summons, templateVars
<1>5. StatementsCounted'
  BY DEF TemplateCheck, AdminInv, StatementsCounted, Settled, TemplateSettled, Summons,
    productVars
<1>6. AdminAsStated'
  BY DEF TemplateCheck, AdminInv, AdminAsStated, HonouredOnce, TemplateAsStated,
    StatementsStored, tokenVars, templateVars, productVars
<1>. QED
  BY <1>1, <1>2, <1>3, <1>4, <1>5, <1>6 DEF AdminInv

LEMMA TemplateReadKeeps ==
  ASSUME AdminAssumption, CarefulAdmin, AdminInv,
         NEW r \in AdminThreads, NEW object \in Template, NEW fields \in SUBSET {"name", "allocations"},
         TemplateRead(r, object, fields)
  PROVE  AdminInv'
<1>1. AdminTypeOK'
  BY DEF TemplateRead, AdminInv, AdminTypeOK, Summons, tokenVars, templateVars, productVars,
    Template, AdminRequests
<1>2. ExchangesApart'
  BY DEF TemplateRead, AdminInv, ExchangesApart, Settled, Summons, tokenVars
<1>3. AdminsInTurn'
  BY DEF TemplateRead, AdminInv, AdminsInTurn, OnTemplate, OnProduct, Settled,
    TemplateSettled, Summons
<1>4. TemplateStillRead'
  BY DEF TemplateRead, AdminInv, AdminTypeOK, TemplateStillRead, Settled, TemplateSettled,
    Summons, tokenVars, templateVars, Template
<1>5. StatementsCounted'
  BY DEF TemplateRead, AdminInv, StatementsCounted, Settled, TemplateSettled, Summons,
    productVars
<1>6. AdminAsStated'
  BY DEF TemplateRead, AdminInv, AdminAsStated, HonouredOnce, TemplateAsStated,
    StatementsStored, tokenVars, templateVars, productVars
<1>. QED
  BY <1>1, <1>2, <1>3, <1>4, <1>5, <1>6 DEF AdminInv

LEMMA TemplatePutKeeps ==
  ASSUME AdminAssumption, CarefulAdmin, AdminInv,
         NEW r \in AdminThreads, TemplatePut(r)
  PROVE  AdminInv'
<1>1. AdminTypeOK'
  BY DEF TemplatePut, AdminInv, AdminTypeOK, Proceeds, Free, tokenVars, productVars,
    AdminRequests
<1>2. ExchangesApart'
  BY DEF TemplatePut, AdminInv, ExchangesApart, Proceeds, Free, tokenVars
<1>3. AdminsInTurn'
  BY DEF TemplatePut, AdminInv, AdminsInTurn, OnTemplate, OnProduct, Proceeds, Free
<1>4. TemplateStillRead'
  BY DEF TemplatePut, AdminInv, AdminTypeOK, AdminsInTurn, TemplateStillRead, OnTemplate,
    Proceeds, Free
<1>5. StatementsCounted'
  BY DEF TemplatePut, AdminInv, StatementsCounted, Proceeds, Free, productVars
<1>6. AdminAsStated'
  BY DEF TemplatePut, AdminInv, TemplateStillRead, AdminAsStated, HonouredOnce,
    TemplateAsStated, StatementsStored, Proceeds, tokenVars, productVars
<1>. QED
  BY <1>1, <1>2, <1>3, <1>4, <1>5, <1>6 DEF AdminInv

LEMMA TemplateReplaceKeeps ==
  ASSUME AdminAssumption, CarefulAdmin, AdminInv,
         NEW r \in AdminThreads, TemplateReplace(r)
  PROVE  AdminInv'
<1>1. AdminTypeOK'
  BY DEF TemplateReplace, AdminInv, AdminTypeOK, Proceeds, Free, tokenVars, productVars,
    Template, NoTemplate, AdminRequests
<1>2. ExchangesApart'
  BY DEF TemplateReplace, AdminInv, ExchangesApart, Proceeds, Free, tokenVars
<1>3. AdminsInTurn'
  BY DEF TemplateReplace, AdminInv, AdminsInTurn, OnTemplate, OnProduct, Proceeds, Free
<1>4. TemplateStillRead'
  BY DEF TemplateReplace, AdminInv, AdminTypeOK, AdminsInTurn, TemplateStillRead, OnTemplate,
    Proceeds, Free
<1>5. StatementsCounted'
  BY DEF TemplateReplace, AdminInv, StatementsCounted, Proceeds, Free, productVars
<1>6. AdminAsStated'
  BY DEF TemplateReplace, AdminInv, AdminTypeOK, TemplateStillRead, AdminAsStated,
    HonouredOnce, TemplateAsStated, StatementsStored, Proceeds, tokenVars, productVars,
    Template, AdminRequests
<1>. QED
  BY <1>1, <1>2, <1>3, <1>4, <1>5, <1>6 DEF AdminInv

LEMMA TemplateFoundKeeps ==
  ASSUME AdminAssumption, CarefulAdmin, AdminInv,
         NEW r \in AdminThreads, TemplateFound(r)
  PROVE  AdminInv'
<1>1. AdminTypeOK'
  BY DEF TemplateFound, AdminInv, AdminTypeOK, Settled, TemplateSettled, Summons, tokenVars,
    templateVars, productVars, AdminRequests
<1>2. ExchangesApart'
  BY DEF TemplateFound, AdminInv, ExchangesApart, Settled, Summons, tokenVars
<1>3. AdminsInTurn'
  BY DEF TemplateFound, AdminInv, AdminsInTurn, OnTemplate, OnProduct, Settled,
    TemplateSettled, Summons
<1>4. TemplateStillRead'
  BY DEF TemplateFound, AdminInv, TemplateStillRead, Settled, TemplateSettled, Summons
<1>5. StatementsCounted'
  BY DEF TemplateFound, AdminInv, StatementsCounted, Settled, TemplateSettled, Summons,
    tokenVars, productVars
<1>6. AdminAsStated'
  BY DEF TemplateFound, AdminInv, AdminAsStated, HonouredOnce, TemplateAsStated,
    StatementsStored, tokenVars, templateVars, productVars
<1>. QED
  BY <1>1, <1>2, <1>3, <1>4, <1>5, <1>6 DEF AdminInv

LEMMA TemplateRemoveKeeps ==
  ASSUME AdminAssumption, CarefulAdmin, AdminInv,
         NEW r \in AdminThreads, TemplateRemove(r)
  PROVE  AdminInv'
<1>1. AdminTypeOK'
  BY DEF TemplateRemove, AdminInv, AdminTypeOK, Proceeds, Free, tokenVars, productVars,
    AdminRequests
<1>2. ExchangesApart'
  BY DEF TemplateRemove, AdminInv, ExchangesApart, Proceeds, Free, tokenVars
<1>3. AdminsInTurn'
  BY DEF TemplateRemove, AdminInv, AdminsInTurn, OnTemplate, OnProduct, Proceeds, Free
<1>4. TemplateStillRead'
  BY DEF TemplateRemove, AdminInv, AdminsInTurn, TemplateStillRead, OnTemplate, Proceeds, Free
<1>5. StatementsCounted'
  BY DEF TemplateRemove, AdminInv, StatementsCounted, Proceeds, Free, productVars
<1>6. AdminAsStated'
  BY DEF TemplateRemove, AdminInv, AdminAsStated, HonouredOnce, TemplateAsStated,
    StatementsStored, Proceeds, tokenVars, productVars
<1>. QED
  BY <1>1, <1>2, <1>3, <1>4, <1>5, <1>6 DEF AdminInv

LEMMA ProductCreateKeeps ==
  ASSUME AdminAssumption, CarefulAdmin, AdminInv,
         NEW r \in AdminThreads, ProductCreate(r)
  PROVE  AdminInv'
<1>1. AdminTypeOK'
  BY AbsentTyped DEF AdminInv, AdminTypeOK, ProductCreate, Summons, AdminRequests, tokenVars,
    templateVars
<1>2. ExchangesApart'
  BY DEF ProductCreate, AdminInv, ExchangesApart, Summons, tokenVars
<1>3. AdminsInTurn'
  BY DEF ProductCreate, AdminInv, AdminsInTurn, OnTemplate, OnProduct, Summons
<1>4. TemplateStillRead'
  BY DEF ProductCreate, AdminInv, TemplateStillRead, Summons, templateVars
<1>5. StatementsCounted'
  BY DEF ProductCreate, StatementsCounted, Summons
<1>6. AdminAsStated'
  BY DEF ProductCreate, AdminInv, AdminAsStated, HonouredOnce, TemplateAsStated,
    StatementsStored, tokenVars, templateVars
<1>. QED
  BY <1>1, <1>2, <1>3, <1>4, <1>5, <1>6 DEF AdminInv

LEMMA ProductEmbedKeeps ==
  ASSUME AdminAssumption, CarefulAdmin, AdminInv,
         NEW r \in AdminThreads, ProductEmbed(r)
  PROVE  AdminInv'
<1>1. AdminTypeOK'
  BY DEF ProductEmbed, AdminInv, AdminTypeOK, Proceeds, Free, tokenVars, templateVars,
    productVars, AdminRequests
<1>2. ExchangesApart'
  BY DEF ProductEmbed, AdminInv, AdminTypeOK, ExchangesApart, Proceeds, Free, tokenVars
<1>3. AdminsInTurn'
  BY DEF ProductEmbed, AdminInv, AdminTypeOK, AdminsInTurn, OnTemplate, OnProduct, Proceeds,
    Free
<1>4. TemplateStillRead'
  BY DEF ProductEmbed, AdminInv, AdminTypeOK, TemplateStillRead, Proceeds, Free, templateVars
<1>5. StatementsCounted'
  BY DEF ProductEmbed, AdminInv, AdminTypeOK, StatementsCounted, Proceeds, Free, productVars
<1>6. AdminAsStated'
  BY DEF ProductEmbed, AdminInv, AdminAsStated, HonouredOnce, TemplateAsStated,
    StatementsStored, Proceeds, tokenVars, templateVars, productVars
<1>. QED
  BY <1>1, <1>2, <1>3, <1>4, <1>5, <1>6 DEF AdminInv

LEMMA ProductStoreKeeps ==
  ASSUME AdminAssumption, CarefulAdmin, AdminInv,
         NEW r \in AdminThreads, ProductStore(r)
  PROVE  AdminInv'
<1>1. AdminTypeOK'
  BY DEF ProductStore, AdminInv, AdminTypeOK, Proceeds, Free, tokenVars, templateVars, Absent,
    AdminRequests
<1>2. ExchangesApart'
  BY DEF ProductStore, AdminInv, ExchangesApart, Proceeds, Free, tokenVars
<1>3. AdminsInTurn'
  BY DEF ProductStore, AdminInv, AdminsInTurn, OnTemplate, OnProduct, Proceeds, Free
<1>4. TemplateStillRead'
  BY DEF ProductStore, AdminInv, TemplateStillRead, Proceeds, Free, templateVars
<1>5. StatementsCounted'
  BY DEF ProductStore, AdminInv, AdminTypeOK, AdminsInTurn, StatementsCounted, OnProduct,
    Proceeds, Free, AdminRequests
<1>6. AdminAsStated'
  BY DEF ProductStore, AdminInv, AdminTypeOK, StatementsCounted, AdminAsStated, HonouredOnce,
    TemplateAsStated, StatementsStored, Proceeds, tokenVars, templateVars, AdminRequests
<1>. QED
  BY <1>1, <1>2, <1>3, <1>4, <1>5, <1>6 DEF AdminInv

LEMMA ProductReadKeeps ==
  ASSUME AdminAssumption, CarefulAdmin, AdminInv,
         NEW r \in AdminThreads, ProductRead(r)
  PROVE  AdminInv'
<1>1. AdminTypeOK'
  BY DEF ProductRead, AdminInv, AdminTypeOK, Settled, ProductSettled, Summons, tokenVars,
    templateVars, productVars, AdminRequests
<1>2. ExchangesApart'
  BY DEF ProductRead, AdminInv, ExchangesApart, Settled, Summons, tokenVars
<1>3. AdminsInTurn'
  BY DEF ProductRead, AdminInv, AdminsInTurn, OnTemplate, OnProduct, Settled, ProductSettled,
    Summons
<1>4. TemplateStillRead'
  BY DEF ProductRead, AdminInv, TemplateStillRead, Settled, Summons, templateVars
<1>5. StatementsCounted'
  BY DEF ProductRead, AdminInv, StatementsCounted, Settled, ProductSettled, Summons,
    productVars
<1>6. AdminAsStated'
  BY DEF ProductRead, AdminInv, AdminAsStated, HonouredOnce, TemplateAsStated,
    StatementsStored, tokenVars, templateVars, productVars
<1>. QED
  BY <1>1, <1>2, <1>3, <1>4, <1>5, <1>6 DEF AdminInv

LEMMA ProductSaveKeeps ==
  ASSUME AdminAssumption, CarefulAdmin, AdminInv,
         NEW r \in AdminThreads, ProductSave(r)
  PROVE  AdminInv'
<1>1. AdminTypeOK'
  BY DEF ProductSave, AdminInv, AdminTypeOK, Proceeds, Free, tokenVars, templateVars,
    AdminRequests
<1>2. ExchangesApart'
  BY DEF ProductSave, AdminInv, ExchangesApart, Proceeds, Free, tokenVars
<1>3. AdminsInTurn'
  BY DEF ProductSave, AdminInv, AdminsInTurn, OnTemplate, OnProduct, Proceeds, Free
<1>4. TemplateStillRead'
  BY DEF ProductSave, AdminInv, TemplateStillRead, Proceeds, Free, templateVars
<1>5. StatementsCounted'
  BY DEF ProductSave, AdminInv, AdminTypeOK, StatementsCounted, Proceeds, Free
<1>6. AdminAsStated'
  BY DEF ProductSave, AdminInv, AdminAsStated, HonouredOnce, TemplateAsStated,
    StatementsStored, Proceeds, tokenVars, templateVars, Absent
<1>. QED
  BY <1>1, <1>2, <1>3, <1>4, <1>5, <1>6 DEF AdminInv

LEMMA AdminStart ==
  ASSUME AdminAssumption, AdminInit
  PROVE  AdminInv
<1>1. AdminTypeOK
  BY AbsentTyped DEF AdminInit, AdminTypeOK, AdminRequests
<1>2. AdminAsStated
  BY DEF AdminInit, AdminAsStated, HonouredOnce, TemplateAsStated, StatementsStored
<1>3. ExchangesApart /\ AdminsInTurn /\ TemplateStillRead /\ StatementsCounted
  BY DEF AdminInit, ExchangesApart, AdminsInTurn, TemplateStillRead, StatementsCounted,
    OnTemplate, OnProduct
<1>. QED
  BY <1>1, <1>2, <1>3 DEF AdminInv

LEMMA AdminStep ==
  ASSUME AdminAssumption, CarefulAdmin, AdminInv, [AdminNext]_adminVars
  PROVE  AdminInv'
<1>1. ASSUME NEW t \in AdminTokens, AdminLogin(t) PROVE AdminInv'
  BY <1>1, AdminLoginKeeps
<1>2. ASSUME NEW t \in AdminTokens, AdminLogout(t) PROVE AdminInv'
  BY <1>2, AdminLogoutKeeps
<1>3. CASE Dismissed
  BY <1>3, DismissedKeeps
<1>4. CASE ProductDelete
  BY <1>4, ProductDeleteKeeps
<1>5. ASSUME NEW r \in AdminThreads, NEW t \in AdminTokens, AdminRedeem(r, t) PROVE AdminInv'
  BY <1>5, AdminRedeemKeeps
<1>6. ASSUME NEW r \in AdminThreads, NEW t \in AdminTokens, AdminIssue(r, t) PROVE AdminInv'
  BY <1>6, AdminIssueKeeps
<1>7. ASSUME NEW r \in AdminThreads, NEW object \in Template, TemplateCheck(r, object) PROVE AdminInv'
  BY <1>7, TemplateCheckKeeps
<1>8. ASSUME NEW r \in AdminThreads, NEW object \in Template, NEW fields \in SUBSET {"name", "allocations"},
             TemplateRead(r, object, fields)
      PROVE  AdminInv'
  BY <1>8, TemplateReadKeeps
<1>9. ASSUME NEW r \in AdminThreads, TemplatePut(r) PROVE AdminInv'
  BY <1>9, TemplatePutKeeps
<1>10. ASSUME NEW r \in AdminThreads, TemplateReplace(r) PROVE AdminInv'
  BY <1>10, TemplateReplaceKeeps
<1>11. ASSUME NEW r \in AdminThreads, TemplateFound(r) PROVE AdminInv'
  BY <1>11, TemplateFoundKeeps
<1>12. ASSUME NEW r \in AdminThreads, TemplateRemove(r) PROVE AdminInv'
  BY <1>12, TemplateRemoveKeeps
<1>13. ASSUME NEW r \in AdminThreads, ProductCreate(r) PROVE AdminInv'
  BY <1>13, ProductCreateKeeps
<1>14. ASSUME NEW r \in AdminThreads, ProductEmbed(r) PROVE AdminInv'
  BY <1>14, ProductEmbedKeeps
<1>15. ASSUME NEW r \in AdminThreads, ProductStore(r) PROVE AdminInv'
  BY <1>15, ProductStoreKeeps
<1>16. ASSUME NEW r \in AdminThreads, ProductRead(r) PROVE AdminInv'
  BY <1>16, ProductReadKeeps
<1>17. ASSUME NEW r \in AdminThreads, ProductSave(r) PROVE AdminInv'
  BY <1>17, ProductSaveKeeps
<1>18. CASE UNCHANGED adminVars
  BY <1>18 DEF adminVars, AdminInv, AdminTypeOK, ExchangesApart, AdminsInTurn,
    TemplateStillRead, StatementsCounted, AdminAsStated, HonouredOnce, TemplateAsStated,
    StatementsStored, OnTemplate, OnProduct
<1>. QED
  BY <1>1, <1>2, <1>3, <1>4, <1>5, <1>6, <1>7, <1>8, <1>9, <1>10, <1>11, <1>12, <1>13, <1>14,
    <1>15, <1>16, <1>17, <1>18 DEF AdminNext

\* Tokens, template, product and the administrators' requests are of their types: no
\* product has more statements than it was created with.
THEOREM AdminTyping ==
  ASSUME AdminAssumption, CarefulAdmin
  PROVE  AdminSpec => []AdminTypeOK
<1>1. AdminInit => AdminInv
  BY AdminStart
<1>2. AdminInv /\ [AdminNext]_adminVars => AdminInv'
  BY AdminStep
<1>3. AdminInv => AdminTypeOK
  BY DEF AdminInv
<1>. QED
  BY <1>1, <1>2, <1>3, PTL DEF AdminSpec

\* "A replayed or concurrently-reused token hits IntegrityError, never honored twice"; the
\* template is what administrators were told it is, and a product whose creation succeeded
\* has all its statements: for any number of tokens, requests, wordings and statements.
THEOREM AdminKeepsWord ==
  ASSUME AdminAssumption, CarefulAdmin
  PROVE  AdminSpec => []AdminAsStated
<1>1. AdminInit => AdminInv
  BY AdminStart
<1>2. AdminInv /\ [AdminNext]_adminVars => AdminInv'
  BY AdminStep
<1>3. AdminInv => AdminAsStated
  BY DEF AdminInv
<1>. QED
  BY <1>1, <1>2, <1>3, PTL DEF AdminSpec

(***************************************************************************)
(* Tokens, whatever the administrators do at once                          *)
(***************************************************************************)


TokenInv ==
  /\ adminReq = [r \in AdminThreads |-> adminReq[r]]
  /\ leftWith \subseteq voided
  /\ ExchangesApart /\ HonouredOnce

\* A request about something else takes no token up, and leaves the others alone.
LEMMA TokensLeftAlone ==
  ASSUME TokenInv, NEW r \in AdminThreads, UNCHANGED tokenVars,
         NEW record, record.at # "issuing", adminReq' = [adminReq EXCEPT ![r] = record]
  PROVE  TokenInv'
<1>1. \A q \in AdminThreads : adminReq'[q].at = "issuing" => q # r /\ adminReq'[q] = adminReq[q]
  BY DEF TokenInv
<1>2. ExchangesApart'
  BY <1>1 DEF TokenInv, ExchangesApart, tokenVars
<1>. QED
  BY <1>2 DEF TokenInv, HonouredOnce, tokenVars

LEMMA RedeemKeepsTokens ==
  ASSUME TokenInv, NEW r \in AdminThreads, NEW t \in AdminTokens, AdminRedeem(r, t)
  PROVE  TokenInv'
<1>1. /\ adminReq'[r] = [at |-> "issuing", token |-> t]
      /\ \A q \in AdminThreads : q # r => adminReq'[q] = adminReq[q]
      /\ adminReq' = [q \in AdminThreads |-> adminReq'[q]]
  BY DEF AdminRedeem, Summons, TokenInv
<1>2. \A q \in AdminThreads : adminReq[q].at = "issuing" => adminReq[q].token # t
  BY DEF TokenInv, ExchangesApart, AdminRedeem
<1>3. ExchangesApart'
  BY <1>1, <1>2 DEF TokenInv, ExchangesApart, AdminRedeem
<1>. QED
  BY <1>1, <1>3 DEF AdminRedeem, TokenInv, HonouredOnce

LEMMA IssueKeepsTokens ==
  ASSUME TokenInv, NEW r \in AdminThreads, NEW fresh \in AdminTokens, AdminIssue(r, fresh)
  PROVE  TokenInv'
<1>1. /\ adminReq[r].at = "issuing" /\ adminReq'[r].at = "free"
      /\ \A q \in AdminThreads : q # r => adminReq'[q] = adminReq[q]
      /\ adminReq' = [q \in AdminThreads |-> adminReq'[q]]
  BY DEF AdminIssue, Proceeds, Free, TokenInv
<1>2. \A p \in honoured' : p \in honoured \/ p = <<adminReq[r].token, fresh>>
  BY DEF AdminIssue
<1>3. ExchangesApart'
  BY <1>1, <1>2 DEF TokenInv, ExchangesApart, AdminIssue
<1>4. HonouredOnce'
  BY <1>1, <1>2 DEF TokenInv, ExchangesApart, HonouredOnce, AdminIssue
<1>. QED
  BY <1>1, <1>3, <1>4 DEF TokenInv, AdminIssue

LEMMA TokensStep ==
  ASSUME TokenInv, [AdminNext]_adminVars
  PROVE  TokenInv'
<1>1. CASE UNCHANGED adminVars
  BY <1>1 DEF adminVars, TokenInv, ExchangesApart, HonouredOnce
<1>2. ASSUME NEW t \in AdminTokens, AdminLogin(t)
      PROVE  TokenInv'
  BY <1>2 DEF AdminLogin, TokenInv, ExchangesApart, HonouredOnce
\* Only a token that no request has voided is counted as logged out with.
<1>3. ASSUME NEW t \in AdminTokens, AdminLogout(t)
      PROVE  TokenInv'
  <2>1. /\ leftWith' \subseteq voided' /\ voided \subseteq voided'
        /\ \A k \in voided : k \in leftWith' => k \in leftWith
    BY <1>3 DEF AdminLogout, TokenInv
  <2>2. ExchangesApart'
    BY <1>3, <2>1 DEF AdminLogout, TokenInv, ExchangesApart
  <2>3. HonouredOnce'
    BY <1>3, <2>1 DEF AdminLogout, TokenInv, ExchangesApart, HonouredOnce
  <2>. QED
    BY <1>3, <2>1, <2>2, <2>3 DEF AdminLogout, TokenInv
<1>4. CASE Dismissed \/ ProductDelete
  BY <1>4 DEF Dismissed, ProductDelete, TokenInv, ExchangesApart, HonouredOnce, tokenVars
<1>5. ASSUME NEW r \in AdminThreads, NEW t \in AdminTokens, AdminRedeem(r, t) \/ AdminIssue(r, t)
      PROVE  TokenInv'
  BY <1>5, RedeemKeepsTokens, IssueKeepsTokens DEF AdminRedeem, AdminIssue
<1>6. ASSUME NEW r \in AdminThreads,
             \/ \E object \in Template : TemplateCheck(r, object)
             \/ \E object \in Template, fields \in SUBSET {"name", "allocations"} :
                  TemplateRead(r, object, fields)
             \/ TemplatePut(r) \/ TemplateReplace(r) \/ TemplateFound(r) \/ TemplateRemove(r)
             \/ ProductCreate(r) \/ ProductEmbed(r) \/ ProductStore(r)
             \/ ProductRead(r) \/ ProductSave(r)
      PROVE  TokenInv'
  <2>1. \E record : record.at # "issuing" /\ adminReq' = [adminReq EXCEPT ![r] = record]
    BY <1>6 DEF TemplateCheck, TemplateRead, TemplatePut, TemplateReplace, TemplateFound,
      TemplateRemove, ProductCreate, ProductEmbed, ProductStore, ProductRead, ProductSave,
      Summons, Proceeds, Free
  <2>2. UNCHANGED tokenVars
    BY <1>6 DEF TemplateCheck, TemplateRead, TemplatePut, TemplateReplace, TemplateFound,
      TemplateRemove, ProductCreate, ProductEmbed, ProductStore, ProductRead, ProductSave
  <2>. QED
    BY <2>1, <2>2, TokensLeftAlone DEF tokenVars
<1>. QED
  BY <1>1, <1>2, <1>3, <1>4, <1>5, <1>6 DEF AdminNext

\* "Never honored twice": a refresh token of an administrator has one successor at most,
\* and none after a logout, whatever else is done at once and with no discipline assumed.
THEOREM TokensHonouredOnce == AdminSpec => []HonouredOnce
<1>1. AdminInit => TokenInv
  BY DEF AdminInit, TokenInv, ExchangesApart, HonouredOnce
<1>2. TokenInv /\ [AdminNext]_adminVars => TokenInv'
  BY TokensStep
<1>3. TokenInv => HonouredOnce
  BY DEF TokenInv
<1>. QED
  BY <1>1, <1>2, <1>3, PTL DEF AdminSpec

==============================================================================
