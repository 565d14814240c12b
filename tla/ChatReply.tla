------------------------------ MODULE ChatReply ------------------------------
(***************************************************************************)
(* One user's chat: core/views/conversations.py, the task                  *)
(* generate_chat_reply() of core/tasks/conversations.py, the consent that  *)
(* core/permissions.py asks for, and the events of services/event_bus.py.  *)
(*                                                                         *)
(* A message is followed from its POST through the task that streams the   *)
(* reply.  Every ORM call is a step.  conversation.save(), which both call *)
(* to bump last_message_at, saves all columns of a row that was read       *)
(* earlier, and so inserts a conversation that was deleted in between.     *)
(* Tokens, tool calls and the chosen agent are relayed without any effect  *)
(* on what is stored.  A reply's references are one step.                  *)
(***************************************************************************)
EXTENDS Naturals, FiniteSets

CONSTANTS
  Conversations,  \* ids of conversations
  Messages,       \* the messages the user posts, each with one reply task
  ConsentTypes    \* the types of consent the user's log has rows of

ASSUME ConsentAssumption == "data_processing" \in ConsentTypes

VARIABLES
  conversation,  \* rows of conversations
  asked,         \* user messages that are stored
  answered,      \* user messages whose assistant message is stored
  consent,       \* the latest row of each type in the append-only log
  newest,        \* the latest row of the log
  chatAt,        \* how far each message has come
  chatIn,        \* the conversation each message was posted to
  listening,     \* the event stream is open
  heard,         \* what the user was told of each message by an event
  carried,       \* history: messages that were on their way when consent was revoked
  sentWithout,   \* history: messages that went to the AI service without active consent
  erased         \* history: conversations that were deleted

chatVars ==
  <<conversation, asked, answered, consent, newest, chatAt, chatIn, listening, heard, carried,
    sentWithout, erased>>

Nowhere == "nowhere"

\* Where a message is: in the POST ...
Posting == {"checked", "stored", "bumped"}
\* ... in the broker and the task ...
Replying == {"queued", "streaming", "replied", "referenced", "saved"}
\* ... or over: answered with 4xx or 5xx, told of, dropped by a task that raised, or
\* lost with a killed worker, which had acknowledged the task when it took it.
Over == {"refused", "told", "failed", "dropped", "lost"}

ChatTypeOK ==
  /\ conversation \in [Conversations -> {"unused", "open", "gone"}]
  /\ asked \subseteq Messages /\ answered \subseteq Messages
  /\ consent \in [ConsentTypes -> {"none", "granted", "revoked"}]
  /\ newest \in {"none", "granted", "revoked"}
  /\ chatAt \in [Messages -> {"unsent"} \cup Posting \cup Replying \cup Over]
  /\ chatIn \in [Messages -> Conversations \cup {Nowhere}]
  /\ listening \in BOOLEAN
  /\ heard \in [Messages -> {"nothing", "reply", "error"}]
  /\ carried \subseteq Messages /\ sentWithout \subseteq Messages
  /\ erased \subseteq Conversations

ChatInit ==
  /\ conversation = [c \in Conversations |-> "unused"]
  /\ asked = {} /\ answered = {}
  /\ consent = [t \in ConsentTypes |-> "none"] /\ newest = "none"
  /\ chatAt = [m \in Messages |-> "unsent"]
  /\ chatIn = [m \in Messages |-> Nowhere]
  /\ listening = FALSE
  /\ heard = [m \in Messages |-> "nothing"]
  /\ carried = {} /\ sentWithout = {} /\ erased = {}

Open(m)       == conversation[chatIn[m]] = "open"
ChatGo(m, at) == chatAt' = [chatAt EXCEPT ![m] = at]

\* A published event reaches whoever listens at that moment, and nobody later.
Publish(m, event) == heard' = IF listening THEN [heard EXCEPT ![m] = event] ELSE heard

(***************************************************************************)
(* The user                                                                *)
(***************************************************************************)

\* Mutant: has_active_consent() takes the latest row of any type.
HasConsentOfAnyType == newest = "granted"

\* has_active_consent(): the latest row of the type decides.
HasConsent == consent["data_processing"] = "granted"

Grant(t) ==
  /\ consent' = [consent EXCEPT ![t] = "granted"] /\ newest' = "granted"
  /\ UNCHANGED <<conversation, asked, answered, chatAt, chatIn, listening, heard,
                 carried, sentWithout, erased>>

\* Any recorded row of the type can be named; a new one is appended.
Revoke(t) ==
  /\ consent[t] # "none"
  /\ consent' = [consent EXCEPT ![t] = "revoked"] /\ newest' = "revoked"
  /\ carried' = IF t = "data_processing"
                  THEN carried \cup {m \in Messages : chatAt[m] \in Posting \cup {"queued"}}
                  ELSE carried
  /\ UNCHANGED <<conversation, asked, answered, chatAt, chatIn, listening,
                 heard, sentWithout, erased>>

StreamOpens ==
  /\ ~listening /\ listening' = TRUE
  /\ UNCHANGED <<conversation, asked, answered, consent, newest, chatAt, chatIn, heard,
                 carried, sentWithout, erased>>

StreamBreaks ==
  /\ listening /\ listening' = FALSE
  /\ UNCHANGED <<conversation, asked, answered, consent, newest, chatAt, chatIn, heard,
                 carried, sentWithout, erased>>

StartConversation(c) ==
  /\ conversation[c] = "unused"
  /\ conversation' = [conversation EXCEPT ![c] = "open"]
  /\ UNCHANGED <<asked, answered, consent, newest, chatAt, chatIn, listening, heard,
                 carried, sentWithout, erased>>

\* "Delete a chat session and every message in it."
DeleteConversation(c) ==
  /\ conversation[c] = "open"
  /\ conversation' = [conversation EXCEPT ![c] = "gone"]
  /\ asked' = {m \in asked : chatIn[m] # c}
  /\ answered' = {m \in answered : chatIn[m] # c}
  /\ erased' = erased \cup {c}
  /\ UNCHANGED <<consent, newest, chatAt, chatIn, listening, heard, carried, sentWithout>>

(***************************************************************************)
(* POST .../messages                                                       *)
(***************************************************************************)

\* Consent is checked, the conversation read, the content validated.
PostCheck(m, c) ==
  /\ chatAt[m] = "unsent"
  /\ HasConsent /\ conversation[c] = "open"
  /\ ChatGo(m, "checked")
  /\ chatIn' = [chatIn EXCEPT ![m] = c]
  /\ UNCHANGED <<conversation, asked, answered, consent, newest, listening, heard,
                 carried, sentWithout, erased>>

\* Message.objects.create(); the foreign key refuses a conversation that has gone.
PostCreate(m) ==
  /\ chatAt[m] = "checked"
  /\ IF Open(m)
       THEN asked' = asked \cup {m} /\ ChatGo(m, "stored")
       ELSE ChatGo(m, "refused") /\ UNCHANGED asked
  /\ UNCHANGED <<conversation, answered, consent, newest, chatIn, listening, heard,
                 carried, sentWithout, erased>>

\* conversation.save()
PostBump(m) ==
  /\ chatAt[m] = "stored"
  /\ conversation' = [conversation EXCEPT ![chatIn[m]] = "open"]
  /\ ChatGo(m, "bumped")
  /\ UNCHANGED <<asked, answered, consent, newest, chatIn, listening, heard,
                 carried, sentWithout, erased>>

\* generate_chat_reply.delay(), or a broker that refuses (500, the message stays).
PostEnqueue(m) ==
  /\ chatAt[m] = "bumped"
  /\ ChatGo(m, "queued") \/ ChatGo(m, "refused")
  /\ UNCHANGED <<conversation, asked, answered, consent, newest, chatIn, listening, heard,
                 carried, sentWithout, erased>>

(***************************************************************************)
(* generate_chat_reply()                                                   *)
(***************************************************************************)

\* Both rows are read by id; a missing one raises, and nothing is published.
ReplyFetch(m) ==
  /\ chatAt[m] = "queued"
  /\ IF Open(m) /\ m \in asked
       THEN /\ ChatGo(m, "streaming")
            /\ sentWithout' = IF HasConsent THEN sentWithout ELSE sentWithout \cup {m}
       ELSE ChatGo(m, "dropped") /\ UNCHANGED sentWithout
  /\ UNCHANGED <<conversation, asked, answered, consent, newest, chatIn, listening,
                 heard, carried, erased>>

\* The stream ends in "done": the assistant message is stored, or refused by the
\* foreign key, which nothing handles.
ReplyStore(m) ==
  /\ chatAt[m] = "streaming"
  /\ IF Open(m)
       THEN answered' = answered \cup {m} /\ ChatGo(m, "replied")
       ELSE ChatGo(m, "dropped") /\ UNCHANGED answered
  /\ UNCHANGED <<conversation, asked, consent, newest, chatIn, listening, heard,
                 carried, sentWithout, erased>>

\* Mutant: an error of the stream is logged and not published.
ReplyFailsSilently(m) ==
  /\ chatAt[m] = "streaming"
  /\ ChatGo(m, "dropped")
  /\ UNCHANGED <<conversation, asked, answered, consent, newest, chatIn, listening, heard,
                 carried, sentWithout, erased>>

\* It ends in "error", without a result, or could not be had: chat_error.
ReplyFails(m) ==
  /\ chatAt[m] = "streaming"
  /\ Publish(m, "error")
  /\ ChatGo(m, "failed")
  /\ UNCHANGED <<conversation, asked, answered, consent, newest, chatIn, listening,
                 carried, sentWithout, erased>>

\* add_reference() for each reference: the reply may have gone with its conversation.
ReplyReference(m) ==
  /\ chatAt[m] = "replied"
  /\ ChatGo(m, "referenced") \/ (m \notin answered /\ ChatGo(m, "dropped"))
  /\ UNCHANGED <<conversation, asked, answered, consent, newest, chatIn, listening, heard,
                 carried, sentWithout, erased>>

ReplyBump(m) ==
  /\ chatAt[m] = "referenced"
  /\ conversation' = [conversation EXCEPT ![chatIn[m]] = "open"]
  /\ ChatGo(m, "saved")
  /\ UNCHANGED <<asked, answered, consent, newest, chatIn, listening, heard,
                 carried, sentWithout, erased>>

ReplyAnnounce(m) ==
  /\ chatAt[m] = "saved"
  /\ Publish(m, "reply")
  /\ ChatGo(m, "told")
  /\ UNCHANGED <<conversation, asked, answered, consent, newest, chatIn, listening,
                 carried, sentWithout, erased>>

WorkerKilled(m) ==
  /\ chatAt[m] \in Replying \ {"queued"}
  /\ ChatGo(m, "lost")
  /\ UNCHANGED <<conversation, asked, answered, consent, newest, chatIn, listening, heard,
                 carried, sentWithout, erased>>

PostStep(m)  == PostCreate(m) \/ PostBump(m) \/ PostEnqueue(m)
ReplyStep(m) == \/ ReplyFetch(m) \/ ReplyStore(m) \/ ReplyFails(m)
                \/ ReplyReference(m) \/ ReplyBump(m) \/ ReplyAnnounce(m)

ChatNext ==
  \/ \E t \in ConsentTypes : Grant(t) \/ Revoke(t)
  \/ StreamOpens \/ StreamBreaks
  \/ \E c \in Conversations : StartConversation(c) \/ DeleteConversation(c)
  \/ \E m \in Messages, c \in Conversations : PostCheck(m, c)
  \/ \E m \in Messages : PostStep(m) \/ ReplyStep(m) \/ WorkerKilled(m)

ChatSpec == ChatInit /\ [][ChatNext]_chatVars

\* A thread that has begun a request goes on; a worker takes the task, and its
\* stream ends, since every read of it has a timeout.
ChatFairness == \A m \in Messages : WF_chatVars(PostStep(m)) /\ WF_chatVars(ReplyStep(m))

ChatFairSpec == ChatSpec /\ ChatFairness

(***************************************************************************)
(* Properties                                                              *)
(***************************************************************************)

\* What an event said is what a refetch shows: a chat_message is about a reply that
\* is stored, unless its conversation was deleted; after a chat_error "no assistant
\* message is persisted".
EventsFitHistory ==
  \A m \in Messages :
    /\ heard[m] = "reply" => m \in answered \/ chatIn[m] \in erased
    /\ heard[m] = "error" => m \notin answered

\* "Both stop once that consent is revoked": whatever goes to the AI service
\* without active consent was on its way when consent was revoked.
RevocationStopsNew == sentWithout \subseteq carried

\* What the user is told of a chat, by events and of consent, is so.
ChatAsTold == EventsFitHistory /\ RevocationStopsNew

\* A message whose reply was enqueued (202) ends in a published chat_message or
\* chat_error, whatever consent, streams and other messages do meanwhile.  Only
\* a killed worker or the deletion of its conversation may end it silently.
EachMessageAnswered ==
  \A m \in Messages :
    chatAt[m] = "queued" ~> (chatAt[m] \in {"told", "failed", "lost"} \/ chatIn[m] \in erased)
=============================================================================
