--------------------------- MODULE AccountRegistry ---------------------------
(***************************************************************************)
(* The bank accounts of one user and everybody who creates, changes or     *)
(* removes one: POST, PATCH and DELETE /accounts (core/views/profile.py),  *)
(* the landing of a connected bank's accounts (bank_connectors/sync.py),   *)
(* the resolution of a statement's account when it has been normalized     *)
(* (core/tasks/statements.py), and the override of it at approval          *)
(* (core/views/statements.py).                                             *)
(*                                                                         *)
(* A bank that has been connected is the source of truth for its accounts: *)
(* manual accounts of it go when it is linked, and are refused afterwards. *)
(* The comparison ignores case there; a statement looks for its account by *)
(* the exact name and number, and nobody refuses what it creates.          *)
(*                                                                         *)
(* Every statement is its own transaction, but for the landing of synced   *)
(* accounts.  What the ledger does with an account is SyncedLedger's.      *)
(***************************************************************************)
EXTENDS Naturals, FiniteSets

CONSTANTS
  AccountIds,       \* rows of bank_accounts
  Banks,            \* bank names, but for case
  Spellings,        \* ways to write one
  Numbers,          \* account numbers
  Statements,       \* statements without an account
  RegistryThreads,  \* web threads and worker slots at work for this user
  CarefulLinker     \* no account is entered or changed while a bank is being linked

ASSUME RegistryAssumption == CarefulLinker \in BOOLEAN

VARIABLES
  registry,     \* rows of bank_accounts
  resolution,   \* each statement's account_id, and whether it has been resolved
  registryReq   \* what each thread is in the middle of

registryVars == <<registry, resolution, registryReq>>

Name == [bank : Banks, spelling : Spellings, number : Numbers]

\* "from" tells who created a row.
AccountRow == [kind : {"manual", "synced"}, name : Name, from : {"user", "statement", "bank"}]
NoAccount == [kind |-> "none"]
GoneAccount == [kind |-> "gone"]

Resting   == [at : {"idle"}]
Entering  == [at : {"entering"}, name : Name]
Amending  == [at : {"checked"}, id : AccountIds, name : Name, renames : BOOLEAN]
             \cup [at : {"copied"}, id : AccountIds, name : Name, renames : BOOLEAN, copy : AccountRow]
Resolving == [at : {"missing"}, statement : Statements, name : Name]
             \cup [at : {"found"}, statement : Statements, id : AccountIds]

Unresolved == {"unresolved", "failed", "unset"}

RegistryTypeOK ==
  /\ registry \in [AccountIds -> AccountRow \cup {NoAccount, GoneAccount}]
  /\ resolution \in [Statements -> AccountIds \cup Unresolved]
  /\ registryReq \in [RegistryThreads -> Resting \cup Entering \cup Amending \cup Resolving]

RegistryInit ==
  /\ registry = [i \in AccountIds |-> NoAccount]
  /\ resolution = [s \in Statements |-> "unresolved"]
  /\ registryReq = [r \in RegistryThreads |-> [at |-> "idle"]]

Present(i) == registry[i].kind \in {"manual", "synced"}
IsManual(i) == registry[i].kind = "manual"

\* assert_bank_not_already_synced(): the comparison ignores case.
BankFree(bank) ==
  ~\E i \in AccountIds : registry[i].kind = "synced" /\ registry[i].name.bank = bank

NobodyEnters ==
  CarefulLinker => ~\E r \in RegistryThreads : registryReq[r].at \in {"entering", "checked", "copied"}

Takes(r, record)  == registryReq[r].at = "idle" /\ registryReq' = [registryReq EXCEPT ![r] = record]
Moves(r, record)  == registryReq' = [registryReq EXCEPT ![r] = record]
Leaves(r)         == Moves(r, [at |-> "idle"])

\* Deleting accounts sets the account of their statements to NULL.
Without(ids) ==
  /\ registry' = [i \in AccountIds |-> IF i \in ids THEN GoneAccount ELSE registry[i]]
  /\ resolution' = [s \in Statements |-> IF resolution[s] \in ids THEN "unset" ELSE resolution[s]]

(***************************************************************************)
(* The user's accounts                                                     *)
(***************************************************************************)

EnterCheck(r, name) ==
  /\ BankFree(name.bank)
  /\ Takes(r, [at |-> "entering", name |-> name])
  /\ UNCHANGED <<registry, resolution>>

EnterSave(r, i) ==
  /\ registryReq[r].at = "entering" /\ registry[i] = NoAccount
  /\ registry' = [registry EXCEPT ![i] =
                    [kind |-> "manual", name |-> registryReq[r].name, from |-> "user"]]
  /\ Leaves(r)
  /\ UNCHANGED resolution

\* PATCH: the account is checked, and the bank if one is sent ...
ChangeCheck(r, i, name, renames) ==
  /\ IsManual(i)
  /\ renames => BankFree(name.bank)
  /\ Takes(r, [at |-> "checked", id |-> i, name |-> name, renames |-> renames])
  /\ UNCHANGED <<registry, resolution>>

\* ... the row is read a second time ...
ChangeRead(r) ==
  /\ registryReq[r].at = "checked"
  /\ LET req == registryReq[r]
     IN  IF Present(req.id)
           THEN Moves(r, [at |-> "copied", id |-> req.id, name |-> req.name,
                          renames |-> req.renames, copy |-> registry[req.id]])
           ELSE Leaves(r)
  /\ UNCHANGED <<registry, resolution>>

\* ... and all its columns are saved, inserted if the row has gone.
ChangeSave(r) ==
  /\ registryReq[r].at = "copied"
  /\ LET req == registryReq[r]
     IN  registry' = [registry EXCEPT ![req.id] =
           IF req.renames
             THEN [req.copy EXCEPT !.name = req.name, !.from = "user"]
             ELSE [req.copy EXCEPT !.name.number = req.name.number]]
  /\ Leaves(r)
  /\ UNCHANGED resolution

RemoveAccount(i) ==
  /\ IsManual(i)
  /\ Without({i})
  /\ UNCHANGED registryReq

(***************************************************************************)
(* A bank is linked                                                        *)
(***************************************************************************)

\* Mutant: the accounts are landed beside the manual ones of the bank.
LinkBeside(name, i) ==
  /\ NobodyEnters
  /\ registry[i] = NoAccount
  /\ registry' = [registry EXCEPT ![i] = [kind |-> "synced", name |-> name, from |-> "bank"]]
  /\ UNCHANGED <<resolution, registryReq>>

\* apply_synced_accounts(), one transaction: the bank's manual accounts go, and
\* an account of this number is there already or is created.
Link(name, i) ==
  LET superseded == {m \in AccountIds : IsManual(m) /\ registry[m].name.bank = name.bank}
      known      == \E s \in AccountIds : /\ registry[s].kind = "synced"
                                          /\ registry[s].name.bank = name.bank
                                          /\ registry[s].name.number = name.number
  IN  /\ NobodyEnters
      /\ registry[i] = NoAccount
      /\ registry' = [a \in AccountIds |->
                        IF a \in superseded THEN GoneAccount
                        ELSE IF a = i /\ ~known
                          THEN [kind |-> "synced", name |-> name, from |-> "bank"]
                          ELSE registry[a]]
      /\ resolution' = [s \in Statements |->
                          IF resolution[s] \in superseded THEN "unset" ELSE resolution[s]]
      /\ UNCHANGED registryReq

(***************************************************************************)
(* Statements                                                              *)
(***************************************************************************)

\* get_or_create() of what the statement says: one row is taken, none is
\* created next, and more than one is an error that fails the normalization.
Resolve(r, s, name) ==
  LET matches == {i \in AccountIds : Present(i) /\ registry[i].name = name}
  IN  /\ resolution[s] \in {"unresolved", "failed"}
      /\ registryReq[r].at = "idle"
      /\ \/ /\ matches = {}
            /\ Moves(r, [at |-> "missing", statement |-> s, name |-> name])
            /\ UNCHANGED resolution
         \/ /\ Cardinality(matches) = 1
            /\ \E i \in matches : Moves(r, [at |-> "found", statement |-> s, id |-> i])
            /\ UNCHANGED resolution
         \/ /\ Cardinality(matches) > 1
            /\ resolution' = [resolution EXCEPT ![s] = "failed"]
            /\ UNCHANGED registryReq
      /\ UNCHANGED registry

ResolveCreate(r, i) ==
  /\ registryReq[r].at = "missing" /\ registry[i] = NoAccount
  /\ registry' = [registry EXCEPT ![i] =
                    [kind |-> "manual", name |-> registryReq[r].name, from |-> "statement"]]
  /\ Moves(r, [at |-> "found", statement |-> registryReq[r].statement, id |-> i])
  /\ UNCHANGED resolution

\* The statement is saved with its account, if that is still there.
ResolveSave(r) ==
  /\ registryReq[r].at = "found"
  /\ resolution' = [resolution EXCEPT ![registryReq[r].statement] =
                      IF Present(registryReq[r].id) THEN registryReq[r].id ELSE "failed"]
  /\ Leaves(r)
  /\ UNCHANGED registry

\* The approval's override is saved before it is asked whether the account can
\* be written to: a request that is refused has changed the statement.
Override(s, i) ==
  /\ resolution[s] \in AccountIds \cup {"unset"} /\ Present(i)
  /\ resolution' = [resolution EXCEPT ![s] = i]
  /\ UNCHANGED <<registry, registryReq>>

RegistryNext ==
  \/ \E i \in AccountIds : RemoveAccount(i)
  \/ \E i \in AccountIds, name \in Name : Link(name, i)
  \/ \E s \in Statements, i \in AccountIds : Override(s, i)
  \/ \E r \in RegistryThreads :
       \/ \E name \in Name : EnterCheck(r, name)
       \/ \E i \in AccountIds : EnterSave(r, i) \/ ResolveCreate(r, i)
       \/ \E i \in AccountIds, name \in Name, renames \in BOOLEAN : ChangeCheck(r, i, name, renames)
       \/ ChangeRead(r)
       \/ ChangeSave(r)
       \/ \E s \in Statements, name \in Name : Resolve(r, s, name)
       \/ ResolveSave(r)

RegistrySpec == RegistryInit /\ [][RegistryNext]_registryVars

(***************************************************************************)
(* Properties                                                              *)
(***************************************************************************)

\* "A manual account can't shadow or duplicate one under the same name": beside
\* the synced accounts of a bank there is no manual one that the user has
\* entered or renamed.  Only accounts that statements were resolved onto are
\* not covered: their creation asks nobody whether the bank is connected.
OnlyStatementsShadow ==
  \A m, s \in AccountIds :
    IsManual(m) /\ registry[s].kind = "synced" /\ registry[m].name.bank = registry[s].name.bank
      => registry[m].from = "statement"
=============================================================================
