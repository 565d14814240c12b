----------------------------- MODULE AdminDesk -----------------------------
(***************************************************************************)
(* What administrators do (core/views/administration.py): the rotation of  *)
(* their refresh tokens, the starter templates that onboarding offers, and *)
(* the products with the problem statements they are matched by.           *)
(*                                                                         *)
(* A template is one object in a bucket: no request locks it, and a PATCH  *)
(* reads the whole object and puts it back.  A product is created before   *)
(* its statements have been embedded, and each statement by itself.        *)
(*                                                                         *)
(* One template key and one product stand for all: requests about          *)
(* different ones do not touch each other.                                 *)
(***************************************************************************)
EXTENDS Naturals

CONSTANTS
  AdminTokens,    \* admin refresh tokens, by jti
  Wordings,       \* values of a template's name, and of its allocations
  Phrases,        \* number of problem statements of the product
  AdminThreads,   \* web threads at work for administrators
  CarefulAdmin    \* a change of the template or the product starts only when
                  \* no other change of it is under way

ASSUME AdminAssumption == Phrases \in Nat \ {0} /\ CarefulAdmin \in BOOLEAN

VARIABLES
  employed,     \* whether the administrator's row of admin_users exists
  minted,       \* refresh tokens that have been issued
  voided,       \* admin_blacklisted_tokens
  leftWith,     \* history: tokens that a logout, and no refresh, has voided
  honoured,     \* history: <<token, its successor>> of every refresh answered
  template,     \* the stored object, if any
  templateSaid, \* history: what the answered requests say of it
  phrases,      \* whether the product exists (#-1), and with how many statements
  completed,    \* history: the product's creation was answered with 201
  adminReq      \* what each thread is in the middle of

adminVars == <<employed, minted, voided, leftWith, honoured, template, templateSaid,
               phrases, completed, adminReq>>
tokenVars    == <<employed, minted, voided, leftWith, honoured>>
templateVars == <<template, templateSaid>>
productVars  == <<phrases, completed>>

Template   == [name : Wordings, allocations : Wordings]
NoTemplate == [name |-> "none", allocations |-> "none"]
Absent     == Phrases + 1   \* of phrases: no row

AdminRequests ==
  [at : {"free"}] \cup [at : {"issuing"}, token : AdminTokens]
  \cup [at : {"putting"}, object : Template]
  \cup [at : {"merging"}, object : Template, fields : SUBSET {"name", "allocations"}]
  \cup [at : {"removing"}] \cup [at : {"embedding", "renaming"}]
  \cup [at : {"storing"}, left : 1..Phrases]

AdminTypeOK ==
  /\ employed \in BOOLEAN
  /\ minted \subseteq AdminTokens /\ voided \subseteq minted /\ leftWith \subseteq voided
  /\ honoured \subseteq minted \X minted
  /\ template \in Template \cup {NoTemplate} /\ templateSaid \in Template \cup {NoTemplate}
  /\ phrases \in 0..Absent /\ completed \in BOOLEAN
  /\ adminReq \in [AdminThreads -> AdminRequests]

AdminInit ==
  /\ employed = TRUE
  /\ minted = {} /\ voided = {} /\ leftWith = {} /\ honoured = {}
  /\ template = NoTemplate /\ templateSaid = NoTemplate
  /\ phrases = Absent /\ completed = FALSE
  /\ adminReq = [r \in AdminThreads |-> [at |-> "free"]]

Summons(r, record) == adminReq[r].at = "free" /\ adminReq' = [adminReq EXCEPT ![r] = record]
Proceeds(r, from, record) == adminReq[r].at = from /\ adminReq' = [adminReq EXCEPT ![r] = record]
Free == [at |-> "free"]
Settled(kinds) == CarefulAdmin => \A r \in AdminThreads : adminReq[r].at \notin kinds
TemplateSettled == Settled({"putting", "merging", "removing"})
ProductSettled  == Settled({"embedding", "storing", "renaming"})

(***************************************************************************)
(* Refresh tokens                                                          *)
(***************************************************************************)

AdminLogin(t) ==
  /\ employed /\ t \notin minted
  /\ minted' = minted \cup {t}
  /\ UNCHANGED <<employed, voided, leftWith, honoured, templateVars, productVars, adminReq>>

\* Mutant: a token that is there already is taken for one just created.
AdminRedeemAgain(r, t) ==
  /\ t \in minted
  /\ voided' = voided \cup {t}
  /\ Summons(r, [at |-> "issuing", token |-> t])
  /\ UNCHANGED <<employed, minted, leftWith, honoured, templateVars, productVars>>

\* The unique jti refuses a token that has been redeemed or logged out with.
AdminRedeem(r, t) ==
  /\ t \in minted \ voided
  /\ voided' = voided \cup {t}
  /\ Summons(r, [at |-> "issuing", token |-> t])
  /\ UNCHANGED <<employed, minted, leftWith, honoured, templateVars, productVars>>

AdminIssue(r, fresh) ==
  /\ fresh \notin minted
  /\ Proceeds(r, "issuing", Free)
  /\ IF employed
       THEN /\ minted' = minted \cup {fresh}
            /\ honoured' = honoured \cup {<<adminReq[r].token, fresh>>}
       ELSE UNCHANGED <<minted, honoured>>
  /\ UNCHANGED <<employed, voided, leftWith, templateVars, productVars>>

AdminLogout(t) ==
  /\ t \in minted
  /\ leftWith' = IF t \in voided THEN leftWith ELSE leftWith \cup {t}
  /\ voided' = voided \cup {t}
  /\ UNCHANGED <<employed, minted, honoured, templateVars, productVars, adminReq>>

Dismissed ==
  /\ employed /\ employed' = FALSE
  /\ UNCHANGED <<minted, voided, leftWith, honoured, templateVars, productVars, adminReq>>

(***************************************************************************)
(* Starter templates                                                       *)
(***************************************************************************)

TemplateCheck(r, object) ==
  /\ template = NoTemplate /\ TemplateSettled
  /\ Summons(r, [at |-> "putting", object |-> object])
  /\ UNCHANGED <<tokenVars, templateVars, productVars>>

TemplatePut(r) ==
  /\ Proceeds(r, "putting", Free)
  /\ template' = adminReq[r].object
  /\ templateSaid' = IF templateSaid = NoTemplate THEN adminReq[r].object ELSE templateSaid
  /\ UNCHANGED <<tokenVars, productVars>>

TemplateRead(r, object, fields) ==
  /\ template # NoTemplate /\ TemplateSettled
  /\ Summons(r, [at |-> "merging", fields |-> fields,
                 object |-> [f \in DOMAIN template |-> IF f \in fields THEN object[f]
                                                                      ELSE template[f]]])
  /\ UNCHANGED <<tokenVars, templateVars, productVars>>

TemplateReplace(r) ==
  /\ Proceeds(r, "merging", Free)
  /\ template' = adminReq[r].object
  /\ templateSaid' = IF templateSaid = NoTemplate THEN NoTemplate
                     ELSE [f \in DOMAIN template |-> IF f \in adminReq[r].fields
                                                      THEN template'[f] ELSE templateSaid[f]]
  /\ UNCHANGED <<tokenVars, productVars>>

TemplateFound(r) ==
  /\ template # NoTemplate /\ TemplateSettled
  /\ Summons(r, [at |-> "removing"])
  /\ UNCHANGED <<tokenVars, templateVars, productVars>>

TemplateRemove(r) ==
  /\ Proceeds(r, "removing", Free)
  /\ template' = NoTemplate /\ templateSaid' = NoTemplate
  /\ UNCHANGED <<tokenVars, productVars>>

(***************************************************************************)
(* Products                                                                *)
(***************************************************************************)

\* The row, committed before the AI service is asked to embed its statements
\* (a product that is created again is another, which no old request knows) ...
ProductCreate(r) ==
  /\ phrases = Absent
  /\ \A q \in AdminThreads : adminReq[q].at \notin {"embedding", "storing", "renaming"}
  /\ Summons(r, [at |-> "embedding"])
  /\ phrases' = 0 /\ completed' = FALSE
  /\ UNCHANGED <<tokenVars, templateVars>>

\* ... which answers with all embeddings, or the request ends with an error.
ProductEmbed(r) ==
  /\ \/ Proceeds(r, "embedding", [at |-> "storing", left |-> Phrases])
     \/ Proceeds(r, "embedding", Free)
  /\ UNCHANGED <<tokenVars, templateVars, productVars>>

\* One statement; the foreign key refuses it when the product has gone.
ProductStore(r) ==
  /\ LET left == adminReq[r].left
     IN  Proceeds(r, "storing", IF phrases = Absent \/ left = 1
                                  THEN Free ELSE [at |-> "storing", left |-> left - 1])
  /\ phrases' = IF phrases = Absent THEN Absent ELSE phrases + 1
  /\ completed' = (phrases # Absent /\ adminReq[r].left = 1)
  /\ UNCHANGED <<tokenVars, templateVars>>

\* PATCH reads the row, and saves all its columns, statements apart.
ProductRead(r) ==
  /\ phrases # Absent /\ ProductSettled
  /\ Summons(r, [at |-> "renaming"])
  /\ UNCHANGED <<tokenVars, templateVars, productVars>>

ProductSave(r) ==
  /\ Proceeds(r, "renaming", Free)
  /\ phrases' = IF phrases = Absent THEN 0 ELSE phrases
  /\ UNCHANGED <<tokenVars, templateVars, completed>>

\* DELETE cascades to the statements.
ProductDelete ==
  /\ phrases # Absent /\ ProductSettled
  /\ phrases' = Absent /\ completed' = FALSE
  /\ UNCHANGED <<tokenVars, templateVars, adminReq>>

AdminNext ==
  \/ \E t \in AdminTokens : AdminLogin(t) \/ AdminLogout(t)
  \/ Dismissed \/ ProductDelete
  \/ \E r \in AdminThreads :
       \/ \E t \in AdminTokens : AdminRedeem(r, t) \/ AdminIssue(r, t)
       \/ \E object \in Template : TemplateCheck(r, object)
       \/ \E object \in Template, fields \in SUBSET {"name", "allocations"} :
            TemplateRead(r, object, fields)
       \/ TemplatePut(r) \/ TemplateReplace(r) \/ TemplateFound(r) \/ TemplateRemove(r)
       \/ ProductCreate(r) \/ ProductEmbed(r) \/ ProductStore(r)
       \/ ProductRead(r) \/ ProductSave(r)

AdminSpec == AdminInit /\ [][AdminNext]_adminVars

(***************************************************************************)
(* Properties                                                              *)
(***************************************************************************)

\* "A replayed or concurrently-reused token hits IntegrityError, never honored
\* twice", and one that has been logged out with is not honoured at all.
HonouredOnce ==
  \A p, q \in honoured : (p[1] = q[1] => p = q) /\ p[1] \notin leftWith

\* The template is what the answered requests say: a creation never takes the
\* place of another ("A template with key ... already exists"), no PATCH takes
\* back a field it did not send, and a deleted template stays deleted.
TemplateAsStated == template = templateSaid

\* "Rather than silently leaving problem_statements unembedded": a product whose
\* creation was answered with 201 has every statement, embedded.
StatementsStored == completed => phrases = Phrases

\* What an administrator is told stays so, whatever other administrators do.
AdminAsStated == HonouredOnce /\ TemplateAsStated /\ StatementsStored
=============================================================================
