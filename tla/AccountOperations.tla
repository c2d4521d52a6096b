-------------------------- MODULE AccountOperations --------------------------
(***************************************************************************)
(* Registration, password reset and email change with emailed tokens:      *)
(* accounts/operations.py, the routes of accounts/api.py that call it, and *)
(* cleanup_expired_tokens.                                                 *)
(*                                                                         *)
(* A pending row belongs to a slot: one per address (PendingRegistration)  *)
(* or per user (PendingPasswordReset, PendingEmailChange).  Addresses are  *)
(* compared without case, so a case-folded address is one value.  A token  *)
(* stands for its hash.                                                    *)
(*                                                                         *)
(* An action is one committed statement or transaction.  Two transactions  *)
(* race for an address with others that lock other rows, and so take two   *)
(* actions, the check and the write: creating an account ("create", which  *)
(* locks the pending row) and changing an email ("apply", which locks the  *)
(* user and the pending row).  What waits for those locks has a guard.     *)
(***************************************************************************)
EXTENDS Naturals, FiniteSets

CONSTANTS
    Requests,          \* concurrent HTTP requests
    Users, Addresses, Tokens,
    NotYet, Gone,      \* instead of the address of a user that is no row
    NoSlot, NoToken, NoRow,
    MaxChanges         \* bound: credential changes of a user

Registration(a) == <<"registration", a>>
Reset(u) == <<"reset", u>>
Change(u) == <<"change", u>>

UserSlots == {Reset(u) : u \in Users} \cup {Change(u) : u \in Users}
Slots == UserSlots \cup {Registration(a) : a \in Addresses}

Kind(s) == s[1]
Of(s) == s[2]

Versions == 1..(MaxChanges + 1)

(* new_email and auth_version only matter to an email change. *)
Row == [token : Tokens, expired : BOOLEAN, to : Addresses, version : Versions]

ASSUME ConstantsAssumption ==
    /\ {NotYet, Gone} \cap Addresses = {} /\ NotYet # Gone
    /\ NoSlot \notin Slots /\ NoToken \notin Tokens /\ NoRow \notin Row
    /\ MaxChanges \in Nat

VARIABLES
    email, version,    \* user rows: address, auth_version
    pending,           \* pending rows by slot
    pc, slot, token,   \* requests: what they are about
    issued, used,      \* history: tokens generated, tokens honoured
    delivered,         \* history: tokens whose email was queued
    behind             \* history: email-change tokens whose user changed
                       \* credentials after asking for them

userVars == <<email, version>>
requestVars == <<pc, slot, token>>
tokenVars == <<issued, used, delivered>>
vars == <<userVars, pending, requestVars, tokenVars, behind>>

Exists(u) == email[u] \in Addresses
Taken(a) == \E u \in Users : email[u] = a
Holds(s, t) == pending[s] # NoRow /\ pending[s].token = t

TypeOK ==
    /\ email \in [Users -> Addresses \cup {NotYet, Gone}]
    /\ version \in [Users -> Versions]
    /\ pending \in [Slots -> Row \cup {NoRow}]
    /\ pc \in [Requests -> {"idle", "issue", "deliver", "confirm", "create",
                            "apply"}]
    /\ slot \in [Requests -> Slots \cup {NoSlot}]
    /\ token \in [Requests -> Tokens \cup {NoToken}]
    /\ issued \in SUBSET Tokens
    /\ {used, delivered, behind} \subseteq SUBSET issued
    /\ \A s \in Slots : pending[s] # NoRow => pending[s].token \in issued \ used

Init ==
    /\ email \in [Users -> Addresses \cup {NotYet}]
    /\ \A u, v \in Users : Exists(u) /\ email[u] = email[v] => u = v
    /\ version = [u \in Users |-> 1]
    /\ pending = [s \in Slots |-> NoRow]
    /\ pc = [p \in Requests |-> "idle"]
    /\ slot = [p \in Requests |-> NoSlot]
    /\ token = [p \in Requests |-> NoToken]
    /\ issued = {} /\ used = {} /\ delivered = {} /\ behind = {}

-----------------------------------------------------------------------------
(* Helpers. *)

At(p, l, s, t) ==
    /\ pc' = [pc EXCEPT ![p] = l]
    /\ slot' = [slot EXCEPT ![p] = s]
    /\ token' = [token EXCEPT ![p] = t]

Finish(p) == At(p, "idle", NoSlot, NoToken)

(* Row locks held from one action to the next. *)
UserLocked(u) == \E p \in Requests : pc[p] = "apply" /\ Of(slot[p]) = u
RowLocked(s) == \E p \in Requests : pc[p] \in {"create", "apply"} /\ slot[p] = s

(* update_or_create of the row of a slot, with a token not seen before. *)
WriteRow(s, t, to, v) ==
    /\ t \notin issued
    /\ pending' = [pending EXCEPT ![s] =
          [token |-> t, expired |-> FALSE, to |-> to, version |-> v]]
    /\ issued' = issued \cup {t}
    /\ UNCHANGED <<used, delivered>>

DropRow(s) ==
    /\ pending' = [pending EXCEPT ![s] = NoRow]
    /\ UNCHANGED tokenVars

UseRow(s) ==
    /\ pending' = [pending EXCEPT ![s] = NoRow]
    /\ used' = used \cup {pending[s].token}
    /\ UNCHANGED <<issued, delivered>>

(* revoke_all_sessions, which any change of the credentials ends with; s   *)
(* is the slot whose token causes it.                                      *)
ChangeVersion(u, s) ==
    /\ version[u] <= MaxChanges
    /\ version' = [version EXCEPT ![u] = @ + 1]
    /\ behind' = behind \cup
          {t \in Tokens : Change(u) # s /\ Holds(Change(u), t)}

-----------------------------------------------------------------------------
(* Requests for a token. *)

(* rotate_pending_registration, up to the look at the users. *)
AskRegistration(p, a) ==
    /\ pc[p] = "idle" /\ ~Taken(a)
    /\ At(p, "issue", Registration(a), NoToken)
    /\ UNCHANGED <<userVars, pending, tokenVars, behind>>

IssueRegistration(p, t) ==
    LET s == slot[p] IN
    /\ pc[p] = "issue" /\ Kind(s) = "registration" /\ ~RowLocked(s)
    /\ WriteRow(s, t, Of(s), 1)
    /\ At(p, "deliver", s, t)
    /\ UNCHANGED <<userVars, behind>>

(* rotate_password_reset, up to the look for the user of an address. *)
AskReset(p, u) ==
    /\ pc[p] = "idle" /\ Exists(u)
    /\ At(p, "issue", Reset(u), NoToken)
    /\ UNCHANGED <<userVars, pending, tokenVars, behind>>

(* The email goes to the address that the locked user has now. *)
IssueReset(p, t) ==
    LET s == slot[p]
        u == Of(s)
    IN
    /\ pc[p] = "issue" /\ Kind(s) = "reset"
    /\ Exists(u) /\ ~UserLocked(u)
    /\ WriteRow(s, t, email[u], 1)
    /\ At(p, "deliver", s, t)
    /\ UNCHANGED <<userVars, behind>>

(* request_email_change, with the right password. *)
IssueChange(p, u, a, t) ==
    /\ pc[p] = "idle"
    /\ Exists(u) /\ ~UserLocked(u) /\ ~Taken(a)
    /\ WriteRow(Change(u), t, a, version[u])
    /\ At(p, "deliver", Change(u), t)
    /\ UNCHANGED <<userVars, behind>>

(* send_templated_email queues the email; a failed reset email changes      *)
(* nothing, which is Abandon.                                              *)
Deliver(p) ==
    /\ pc[p] = "deliver"
    /\ delivered' = delivered \cup {token[p]}
    /\ Finish(p)
    /\ UNCHANGED <<userVars, pending, issued, used, behind>>

(* Mutant: the row is cancelled, whoever wrote it last. *)
CancelWhateverIsPending(p) ==
    LET s == slot[p] IN
    /\ pc[p] = "deliver" /\ Kind(s) # "reset" /\ ~RowLocked(s)
    /\ DropRow(s)
    /\ Finish(p)
    /\ UNCHANGED <<userVars, behind>>

(* cancel_pending_registration and its like for an email change. *)
CancelUndelivered(p) ==
    LET s == slot[p] IN
    /\ pc[p] = "deliver" /\ Kind(s) # "reset" /\ ~RowLocked(s)
    /\ IF Holds(s, token[p]) THEN DropRow(s) ELSE UNCHANGED <<pending, tokenVars>>
    /\ Finish(p)
    /\ UNCHANGED <<userVars, behind>>

-----------------------------------------------------------------------------
(* confirm_registration. *)

(* The pending row is found and locked by its token. *)
RefuseRegistration(p, a) ==
    LET s == Registration(a) IN
    /\ pc[p] = "idle" /\ pending[s] # NoRow /\ ~RowLocked(s)
    /\ pending[s].expired \/ Taken(a)
    /\ DropRow(s)
    /\ UNCHANGED <<userVars, requestVars, behind>>

TakeRegistration(p, a) ==
    LET s == Registration(a) IN
    /\ pc[p] = "idle" /\ pending[s] # NoRow /\ ~RowLocked(s)
    /\ ~pending[s].expired /\ ~Taken(a)
    /\ At(p, "create", s, pending[s].token)
    /\ UNCHANGED <<userVars, pending, tokenVars, behind>>

(* Mutant: no unique index on the address. *)
CreateAnyway(p, u) ==
    LET s == slot[p] IN
    /\ pc[p] = "create"
    /\ email[u] = NotYet
    /\ email' = [email EXCEPT ![u] = Of(s)]
    /\ UseRow(s)
    /\ Finish(p)
    /\ UNCHANGED <<version, behind>>

(* Mutant: the pending row is left for the cleanup. *)
CreateAndKeepRow(p, u) ==
    LET s == slot[p] IN
    /\ pc[p] = "create"
    /\ email[u] = NotYet /\ ~Taken(Of(s))
    /\ email' = [email EXCEPT ![u] = Of(s)]
    /\ used' = used \cup {token[p]}
    /\ Finish(p)
    /\ UNCHANGED <<version, pending, issued, delivered, behind>>

(* create_user under the unique index on the address. *)
CreateAccount(p, u) ==
    LET s == slot[p] IN
    /\ pc[p] = "create"
    /\ email[u] = NotYet /\ ~Taken(Of(s))
    /\ email' = [email EXCEPT ![u] = Of(s)]
    /\ UseRow(s)
    /\ Finish(p)
    /\ UNCHANGED <<version, behind>>

-----------------------------------------------------------------------------
(* confirm_password_reset and confirm_email_change. *)

(* The user of the token is looked up without a lock. *)
LookUp(p, s) ==
    /\ pc[p] = "idle" /\ pending[s] # NoRow
    /\ At(p, "confirm", s, pending[s].token)
    /\ UNCHANGED <<userVars, pending, tokenVars, behind>>

(* The user is locked and the row is still the one of the token. *)
Revalidated(p) ==
    /\ pc[p] = "confirm"
    /\ Exists(Of(slot[p])) /\ ~UserLocked(Of(slot[p]))
    /\ Holds(slot[p], token[p])

(* Somebody used, replaced or dropped the token, or deleted the user. *)
RefuseGone(p) ==
    /\ pc[p] = "confirm" /\ ~UserLocked(Of(slot[p]))
    /\ ~Holds(slot[p], token[p])
    /\ Finish(p)
    /\ UNCHANGED <<userVars, pending, tokenVars, behind>>

(* Its address is taken by another user. *)
TakenFrom(u, a) == \E v \in Users \ {u} : email[v] = a

(* The row of an email change was overtaken. *)
Overtaken(s) ==
    /\ Kind(s) = "change"
    /\ \/ pending[s].version # version[Of(s)]
       \/ TakenFrom(Of(s), pending[s].to)

(* The row is deleted, and the transaction commits although the request    *)
(* fails.                                                                  *)
RefuseRow(p) ==
    /\ Revalidated(p)
    /\ pending[slot[p]].expired \/ Overtaken(slot[p])
    /\ DropRow(slot[p])
    /\ Finish(p)
    /\ UNCHANGED <<userVars, behind>>

(* Mutant: the user found without a lock is enough. *)
ResetUnchecked(p) ==
    LET s == slot[p] IN
    /\ pc[p] = "confirm" /\ Kind(s) = "reset"
    /\ Exists(Of(s)) /\ ~UserLocked(Of(s))
    /\ ChangeVersion(Of(s), s)
    /\ pending' = [pending EXCEPT ![s] = NoRow]
    /\ used' = used \cup {token[p]}
    /\ Finish(p)
    /\ UNCHANGED <<email, issued, delivered>>

ConfirmReset(p) ==
    LET s == slot[p] IN
    /\ Revalidated(p) /\ Kind(s) = "reset" /\ ~pending[s].expired
    /\ ChangeVersion(Of(s), s)
    /\ UseRow(s)
    /\ Finish(p)
    /\ UNCHANGED email

(* Mutant: the credentials of the time of the request are not compared. *)
TakeAnyChange(p) ==
    LET s == slot[p] IN
    /\ Revalidated(p) /\ Kind(s) = "change"
    /\ ~pending[s].expired /\ ~TakenFrom(Of(s), pending[s].to)
    /\ At(p, "apply", s, token[p])
    /\ UNCHANGED <<userVars, pending, tokenVars, behind>>

TakeChange(p) ==
    LET s == slot[p] IN
    /\ Revalidated(p) /\ Kind(s) = "change"
    /\ ~pending[s].expired /\ ~Overtaken(s)
    /\ At(p, "apply", s, token[p])
    /\ UNCHANGED <<userVars, pending, tokenVars, behind>>

(* The UPDATE under the unique index on the address. *)
ApplyChange(p) ==
    LET s == slot[p]
        u == Of(s)
    IN
    /\ pc[p] = "apply" /\ ~TakenFrom(u, pending[s].to)
    /\ email' = [email EXCEPT ![u] = pending[s].to]
    /\ ChangeVersion(u, s)
    /\ UseRow(s)
    /\ Finish(p)

(* The transaction is rolled back and the pending row stays. *)
Conflict(p) ==
    LET s == slot[p] IN
    /\ \/ pc[p] = "create" /\ Taken(Of(s))
       \/ pc[p] = "apply" /\ TakenFrom(Of(s), pending[s].to)
    /\ Finish(p)
    /\ UNCHANGED <<userVars, pending, tokenVars, behind>>

-----------------------------------------------------------------------------
(* The rest of the system. *)

(* change_password, activation, deactivation: see AuthSessions. *)
ChangeCredentials(u) ==
    /\ Exists(u) /\ ~UserLocked(u)
    /\ ChangeVersion(u, NoSlot)
    /\ UNCHANGED <<email, pending, requestVars, tokenVars>>

(* delete_user_account; the pending rows of the user go with it. *)
DeleteAccount(u) ==
    /\ Exists(u) /\ ~UserLocked(u)
    /\ email' = [email EXCEPT ![u] = Gone]
    /\ pending' = [pending EXCEPT ![Reset(u)] = NoRow, ![Change(u)] = NoRow]
    /\ UNCHANGED <<version, requestVars, tokenVars, behind>>

Expire(s) ==
    /\ pending[s] # NoRow /\ ~pending[s].expired
    /\ pending' = [pending EXCEPT ![s].expired = TRUE]
    /\ UNCHANGED <<userVars, requestVars, tokenVars, behind>>

(* cleanup_expired_tokens, one row of its DELETE statements. *)
CleanUp(s) ==
    /\ pending[s] # NoRow /\ pending[s].expired /\ ~RowLocked(s)
    /\ DropRow(s)
    /\ UNCHANGED <<userVars, requestVars, behind>>

(* An error, a refused password, a dead process: nothing is committed. *)
Abandon(p) ==
    /\ pc[p] # "idle"
    /\ Finish(p)
    /\ UNCHANGED <<userVars, pending, tokenVars, behind>>

-----------------------------------------------------------------------------

Next ==
    \/ \E p \in Requests, a \in Addresses :
         \/ AskRegistration(p, a) \/ RefuseRegistration(p, a)
         \/ TakeRegistration(p, a)
    \/ \E p \in Requests, u \in Users : AskReset(p, u) \/ CreateAccount(p, u)
    \/ \E p \in Requests, t \in Tokens :
         IssueRegistration(p, t) \/ IssueReset(p, t)
    \/ \E p \in Requests, u \in Users, a \in Addresses, t \in Tokens :
         IssueChange(p, u, a, t)
    \/ \E p \in Requests, s \in UserSlots : LookUp(p, s)
    \/ \E p \in Requests :
         \/ Deliver(p) \/ CancelUndelivered(p)
         \/ RefuseGone(p) \/ RefuseRow(p) \/ ConfirmReset(p)
         \/ TakeChange(p) \/ ApplyChange(p) \/ Conflict(p) \/ Abandon(p)
    \/ \E u \in Users : ChangeCredentials(u) \/ DeleteAccount(u)
    \/ \E s \in Slots : Expire(s) \/ CleanUp(s)

Spec == Init /\ [][Next]_vars

-----------------------------------------------------------------------------
(* Correctness. *)

(* Two requests that claim an address at the same time, by registration or *)
(* by an email change, do not both get it.                                 *)
OneAccountPerAddress ==
    \A u, v \in Users : Exists(u) /\ email[u] = email[v] => u = v

(* An email change asked for with the old credentials dies with them.      *)
NoChangeFromBehind == behind \cap used = {}

(* A token that was emailed stays good until it is used or replaced, it    *)
(* expires, its address is taken, or its user is gone or has changed       *)
(* credentials; a failed delivery, a refused or a concurrent request does  *)
(* not take it away.                                                       *)
DeliveredTokensStay ==
    [][\A s \in Slots : \A t \in delivered :
          Holds(s, t) /\ ~Holds(s, t)' =>
             \/ t \in used'
             \/ pending'[s] # NoRow
             \/ pending[s].expired
             \/ Kind(s) = "registration" /\ Taken(Of(s))
             \/ Kind(s) = "change" /\ Overtaken(s)
             \/ s \in UserSlots /\ ~Exists(Of(s))']_vars

liveBar == [s \in Slots |-> IF pending[s] = NoRow THEN NoToken
                                                  ELSE pending[s].token]

SUT == INSTANCE SingleUseTokens WITH live <- liveBar

(* Requests, rows and locks implement tokens of which the newest works,    *)
(* once.                                                                   *)
ImplementsSingleUse == SUT!Spec
=============================================================================
