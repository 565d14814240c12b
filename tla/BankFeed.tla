------------------------------ MODULE BankFeed ------------------------------
(***************************************************************************)
(* How what happens at the bank reaches the application: the ledger of     *)
(* mock-bank-sync (app/routes_simulate.py, routes_accounts.py), its pushes *)
(* to the webhook (core/views/webhooks.py), and the backfill when a bank   *)
(* is linked or an account discovered (services/bank_connectors/sync.py).  *)
(*                                                                         *)
(* The bank commits a transaction before it pushes it, and pushes it once. *)
(* The application persists an account before it lists the account's       *)
(* transactions, when it is linked and at each login with the bank.        *)
(* Everybody reads committed rows, and each of these is a step.            *)
(*                                                                         *)
(* A customer of the bank has one account.  Who may link whom is BankLink, *)
(* and how an ingestion writes its rows SyncedLedger: here an event is     *)
(* what Transaction.is_duplicate tells apart, and a batch lands whole.     *)
(***************************************************************************)
EXTENDS Naturals, FiniteSets

CONSTANTS
  Holders,       \* customers of the bank, each with an account
  Events,        \* transactions of the bank
  FeedThreads    \* requests that are served at the same time

VARIABLES
  holder,       \* rows of mock_customers and mock_accounts
  event,        \* rows of mock_transactions
  connected,    \* bank_connections that are linked
  known,        \* bank_accounts of the application
  backfilled,   \* accounts whose transactions have been listed and handed on
  batches,      \* ingestions that are enqueued
  landed,       \* rows of transactions
  told,         \* what POST /simulate/transaction answered of the delivery
  feedReq,      \* what each request is in the middle of
  lost          \* history: events of a push that did not arrive, or of a killed process

feedVars == <<holder, event, connected, known, backfilled, batches, landed, told, feedReq, lost>>

Unassigned == "unassigned"
Event   == [state : {"none", "recorded", "erased"}, of : Holders \cup {Unassigned}]
NoEvent == [state |-> "none", of |-> Unassigned]

\* A request of the bank's that has an event to push, or of a user who links.
NoPush == "no push"

ASSUME FeedAssumption == NoPush \notin Events   \* it can be told from an event

FeedStages == {"committed", "discovering", "persisting", "listing", "enqueueing"}
FeedRequest == [at : FeedStages, holder : Holders, event : Events \cup {NoPush}]

FeedTypeOK ==
  /\ holder \in [Holders -> {"none", "open", "removed"}]
  /\ event \in [Events -> Event]
  /\ connected \subseteq Holders /\ known \subseteq connected /\ backfilled \subseteq known
  /\ batches \subseteq SUBSET Events
  /\ landed \subseteq Events /\ lost \subseteq Events
  /\ told \in [Events -> {"nothing", "delivered", "failed"}]
  /\ feedReq \in [FeedThreads -> FeedRequest \cup [at : {"free"}]]

FeedInit ==
  /\ holder = [a \in Holders |-> "none"]
  /\ event = [e \in Events |-> NoEvent]
  /\ connected = {} /\ known = {} /\ backfilled = {} /\ batches = {} /\ landed = {} /\ lost = {}
  /\ told = [e \in Events |-> "nothing"]
  /\ feedReq = [r \in FeedThreads |-> [at |-> "free"]]

Receives(r, record) == feedReq[r].at = "free" /\ feedReq' = [feedReq EXCEPT ![r] = record]
Passes(r, from, to) == feedReq[r].at = from /\ feedReq' = [feedReq EXCEPT ![r].at = to]
Closes(r)           == feedReq' = [feedReq EXCEPT ![r] = [at |-> "free"]]
Tells(e, answer)    == told' = IF e = NoPush THEN told ELSE [told EXCEPT ![e] = answer]
RecordedOf(a)       == {e \in Events : event[e].state = "recorded" /\ event[e].of = a}
Queued              == UNION batches

bankVars == <<holder, event>>
appVars  == <<connected, known, backfilled, batches, landed>>

(***************************************************************************)
(* The bank                                                                *)
(***************************************************************************)

SimulateCustomer(a) ==
  /\ holder[a] = "none"
  /\ holder' = [holder EXCEPT ![a] = "open"]
  /\ UNCHANGED <<event, appVars, told, feedReq, lost>>

\* Accounts and transactions go with their customer.
DeleteCustomer(a) ==
  /\ holder[a] = "open"
  /\ holder' = [holder EXCEPT ![a] = "removed"]
  /\ event' = [e \in Events |-> IF e \in RecordedOf(a) THEN [event[e] EXCEPT !.state = "erased"]
                                                       ELSE event[e]]
  /\ UNCHANGED <<appVars, told, feedReq, lost>>

\* POST /simulate/transaction: the row is committed ...
SimulateTransaction(r, e, a) ==
  /\ holder[a] = "open" /\ event[e] = NoEvent
  /\ event' = [event EXCEPT ![e] = [state |-> "recorded", of |-> a]]
  /\ Receives(r, [at |-> "committed", holder |-> a, event |-> e])
  /\ UNCHANGED <<holder, appVars, told, lost>>

\* ... and pushed, once.  The backend cannot be reached: "a failed push does NOT
\* fail this request".
PushFails(r) ==
  /\ feedReq[r].at = "committed"
  /\ lost' = lost \cup {feedReq[r].event}
  /\ Tells(feedReq[r].event, "failed") /\ Closes(r)
  /\ UNCHANGED <<bankVars, appVars>>

(***************************************************************************)
(* The webhook                                                             *)
(***************************************************************************)

\* The account is looked up.  An unknown one is refused, unless its customer's
\* connection is linked.
PushArrives(r) ==
  /\ feedReq[r].at = "committed"
  /\ LET a == feedReq[r].holder
     IN  CASE a \in known     -> Passes(r, "committed", "enqueueing") /\ UNCHANGED told
           [] a \in connected \ known -> Passes(r, "committed", "discovering") /\ UNCHANGED told
           [] OTHER -> Closes(r) /\ Tells(feedReq[r].event, "failed")
  /\ UNCHANGED <<bankVars, appVars, lost>>

\* fetch_accounts() of the linked connection: 404 if the bank fails or the
\* customer has gone.
Discover(r) ==
  /\ feedReq[r].at = "discovering"
  /\ \/ /\ holder[feedReq[r].holder] = "open"
        /\ Passes(r, "discovering", "persisting") /\ UNCHANGED told
     \/ Closes(r) /\ Tells(feedReq[r].event, "failed")
  /\ UNCHANGED <<bankVars, appVars, lost>>

\* 202: the ingestion is enqueued.  The bank, which waits for five seconds, may
\* not hear of it.
PushEnqueues(r) ==
  /\ feedReq[r].at = "enqueueing"
  /\ batches' = batches \cup {{feedReq[r].event}}
  /\ \E answer \in {"delivered", "failed"} : Tells(feedReq[r].event, answer)
  /\ Closes(r)
  /\ UNCHANGED <<bankVars, connected, known, backfilled, landed, lost>>

(***************************************************************************)
(* apply_synced_accounts()                                                 *)
(***************************************************************************)

\* The callback of a linking saves the connection as linked, with the accounts
\* it has fetched in hand ...
LinkConnection(r, a) ==
  /\ holder[a] = "open" /\ a \notin connected
  /\ connected' = connected \cup {a}
  /\ Receives(r, [at |-> "persisting", holder |-> a, event |-> NoPush])
  /\ UNCHANGED <<bankVars, known, backfilled, batches, landed, told, lost>>

\* A repeat login with the bank applies the accounts once more, if the bank lists them;
\* a customer who has gone cannot log in.
LoginAgain(r, a) ==
  /\ holder[a] = "open" /\ a \in connected
  /\ Receives(r, [at |-> "persisting", holder |-> a, event |-> NoPush])
  /\ UNCHANGED <<bankVars, appVars, told, lost>>

\* ... the accounts are persisted ...
Persist(r) ==
  /\ Passes(r, "persisting", "listing")
  /\ known' = known \cup {feedReq[r].holder}
  /\ UNCHANGED <<bankVars, connected, backfilled, batches, landed, told, lost>>

HandsOn(r) == IF feedReq[r].event = NoPush THEN Closes(r) ELSE Passes(r, "listing", "enqueueing")

\* Mutant: the backfill asks for what happens from now on.
BackfillSinceNow(r) ==
  /\ feedReq[r].at = "listing" /\ holder[feedReq[r].holder] = "open"
  /\ backfilled' = backfilled \cup {feedReq[r].holder}
  /\ HandsOn(r)
  /\ UNCHANGED <<bankVars, connected, known, batches, landed, told, lost>>

\* ... and their transactions are listed, all of them, and handed to a worker ...
Backfill(r) ==
  /\ feedReq[r].at = "listing" /\ holder[feedReq[r].holder] = "open"
  /\ LET listed == RecordedOf(feedReq[r].holder)
     IN  batches' = IF listed = {} THEN batches ELSE batches \cup {listed}
  /\ backfilled' = backfilled \cup {feedReq[r].holder}
  /\ HandsOn(r)
  /\ UNCHANGED <<bankVars, connected, known, landed, told, lost>>

\* ... unless the bank fails, which is passed over.
BackfillFails(r) ==
  /\ feedReq[r].at = "listing"
  /\ HandsOn(r)
  /\ UNCHANGED <<bankVars, appVars, told, lost>>

\* ingest_synced_transactions()
Ingest(batch) ==
  /\ batches' = batches \ {batch}
  /\ landed' = landed \cup batch
  /\ UNCHANGED <<bankVars, connected, known, backfilled, told, feedReq, lost>>

\* A worker dies with a batch it has acknowledged; a process with its request.
WorkerDies(batch) ==
  /\ batches' = batches \ {batch}
  /\ lost' = lost \cup batch
  /\ UNCHANGED <<bankVars, connected, known, backfilled, landed, told, feedReq>>

RequestDies(r) ==
  /\ feedReq[r].at \in FeedStages
  /\ lost' = lost \cup ({feedReq[r].event} \ {NoPush})
  /\ Tells(feedReq[r].event, "failed") /\ Closes(r)
  /\ UNCHANGED <<bankVars, appVars>>

FeedNext ==
  \/ \E a \in Holders : SimulateCustomer(a) \/ DeleteCustomer(a)
  \/ \E batch \in batches : Ingest(batch) \/ WorkerDies(batch)
  \/ \E r \in FeedThreads :
       \/ \E e \in Events, a \in Holders : SimulateTransaction(r, e, a)
       \/ \E a \in Holders : LinkConnection(r, a) \/ LoginAgain(r, a)
       \/ PushFails(r) \/ PushArrives(r) \/ Discover(r) \/ PushEnqueues(r)
       \/ Persist(r) \/ Backfill(r) \/ BackfillFails(r) \/ RequestDies(r)

FeedSpec == FeedInit /\ [][FeedNext]_feedVars

(***************************************************************************)
(* Properties                                                              *)
(***************************************************************************)

UnderWay(e) == \E r \in FeedThreads : feedReq[r].at # "free" /\ feedReq[r].event = e

\* "Ongoing sync pushes populate it either way": once an account's backfill is
\* done, every transaction the bank has of it is in the application or on its
\* way there, whether it was pushed before the account was linked, during the
\* linking or later.  No transaction falls between backfill and pushes: only a
\* push that never arrived, and a killed process, lose one.
FeedComplete ==
  \A a \in backfilled : \A e \in RecordedOf(a) :
    e \in landed \cup Queued \cup lost \/ UnderWay(e)

\* "Delivered. Transaction ... should now appear in the app": what the operator
\* is told was delivered is there, on its way, or lost with its worker.
DeliveredArrives ==
  \A e \in Events : told[e] = "delivered" => e \in landed \cup Queued \cup lost

\* What reaches the application is what a linked customer's bank has recorded.
LandedIsRecorded ==
  \A e \in landed \cup Queued : event[e].state # "none" /\ event[e].of \in known

FeedAsRecorded == FeedComplete /\ DeliveredArrives /\ LandedIsRecorded
=============================================================================
