----------------------------- MODULE AuthSessions -----------------------------
(***************************************************************************)
(* Device sessions and tokens of one account: accounts/services.py, the    *)
(* JWTAuth of core/authentication.py, and the requests that change the     *)
(* account under them.  Accounts share no rows here, so one is enough.     *)
(*                                                                         *)
(* A pair is one access and one refresh token with the same session_id and *)
(* auth_version claims.  An access token is accepted if its version is the *)
(* account's and its session row is open; a refresh token is rotated: the  *)
(* old one is blacklisted and a new pair of the same session is minted.    *)
(*                                                                         *)
(* One action is one committed statement or transaction.  The transactions *)
(* (rotation, password change and reset, confirmed email change,           *)
(* activation, deletion) lock the row of the account first, and inserting  *)
(* a session or an outstanding token waits for that lock through its       *)
(* foreign key, so each of them is one action.  The reads of a request     *)
(* outside of its transaction are actions of their own.                    *)
(*                                                                         *)
(* Time is an action: a session row may expire at any moment, and so is no *)
(* longer accepted.  The expiry of the tokens themselves only removes      *)
(* requests.                                                               *)
(***************************************************************************)
EXTENDS Naturals, FiniteSets

CONSTANTS
    Requests,     \* concurrent HTTP requests
    Sessions,     \* AuthSession rows that may be created
    Pairs,        \* token pairs that may be minted
    Passwords,    \* passwords the account may have
    FirstPassword,
    NoSession, NoPair,
    MaxChanges,  \* bound: changes of the account that end all sessions
    OverlappingSaves \* whether a full-row save may overlap such a change

ASSUME ConstantsAssumption ==
    /\ FirstPassword \in Passwords
    /\ NoSession \notin Sessions
    /\ NoPair \notin Pairs
    /\ MaxChanges \in Nat
    /\ OverlappingSaves \in BOOLEAN

VARIABLES
    user,               \* row of the account
    sess, sver,         \* session rows: state, auth_version
    minted, black,      \* pairs handed out, refresh tokens blacklisted
    tsess, tver,        \* claims of a pair: session_id, auth_version
    pc, held, opened,   \* requests: token presented, session just inserted
    copy,               \* requests: the account row as they read it
    epoch,              \* history: changes that must end all sessions
    loginEpoch, epochOf \* history: epoch in which a login verified the
                        \* password, and that of a session's login

rowVars == <<user, sess, sver>>
pairVars == <<minted, black, tsess, tver>>
requestVars == <<pc, held, opened, copy, loginEpoch>>
vars == <<rowVars, pairVars, requestVars, epoch, epochOf>>

Versions == 1..(MaxChanges + 1)

UserRow == [exists : BOOLEAN, active : BOOLEAN, password : Passwords,
            version : Versions]

NewUser == [exists |-> TRUE, active |-> TRUE, password |-> FirstPassword,
            version |-> 1]

PC == {"idle", "session", "mint", "replay", "rotate", "logout", "blacklist",
       "check", "change", "save", "delete", "form"}

SessionStates == {"none", "open", "revoked", "expired", "deleted"}

TypeOK ==
    /\ user \in UserRow
    /\ sess \in [Sessions -> SessionStates]
    /\ sver \in [Sessions -> Versions]
    /\ minted \in SUBSET Pairs
    /\ black \in SUBSET minted
    /\ tsess \in [Pairs -> Sessions \cup {NoSession}]
    /\ tver \in [Pairs -> Versions]
    /\ \A t \in minted : tsess[t] \in Sessions
    /\ pc \in [Requests -> PC]
    /\ held \in [Requests -> Pairs \cup {NoPair}]
    /\ opened \in [Requests -> Sessions \cup {NoSession}]
    /\ copy \in [Requests -> UserRow]
    /\ epoch \in 0..MaxChanges
    /\ loginEpoch \in [Requests -> 0..MaxChanges]
    /\ epochOf \in [Sessions -> 0..MaxChanges]

Init ==
    /\ user = NewUser
    /\ sess = [s \in Sessions |-> "none"]
    /\ sver = [s \in Sessions |-> 1]
    /\ minted = {}
    /\ black = {}
    /\ tsess = [t \in Pairs |-> NoSession]
    /\ tver = [t \in Pairs |-> 1]
    /\ pc = [p \in Requests |-> "idle"]
    /\ held = [p \in Requests |-> NoPair]
    /\ opened = [p \in Requests |-> NoSession]
    /\ copy = [p \in Requests |-> NewUser]
    /\ epoch = 0
    /\ loginEpoch = [p \in Requests |-> 0]
    /\ epochOf = [s \in Sessions |-> 0]

-----------------------------------------------------------------------------
(* Helpers. *)

Goes(p, l) == pc' = [pc EXCEPT ![p] = l]

(* The response is sent and the request forgets what it read. *)
Finish(p) ==
    /\ Goes(p, "idle")
    /\ held' = [held EXCEPT ![p] = NoPair]
    /\ opened' = [opened EXCEPT ![p] = NoSession]
    /\ copy' = [copy EXCEPT ![p] = NewUser]
    /\ loginEpoch' = [loginEpoch EXCEPT ![p] = 0]

(* UPDATE ... SET revoked_at WHERE revoked_at IS NULL *)
RevokeSession(s) ==
    sess' = IF sess[s] \in {"open", "expired"}
              THEN [sess EXCEPT ![s] = "revoked"] ELSE sess

(* revoke_all_sessions, in the transaction that writes row. *)
RevokeAll(row) ==
    /\ sess' = [s \in Sessions |->
          IF sess[s] \in {"open", "expired"} THEN "revoked" ELSE sess[s]]
    /\ user' = [row EXCEPT !.version = @ + 1]

(* History: a change of the account after which everyone has to log in. *)
NewEpoch == epoch < MaxChanges /\ epoch' = epoch + 1

(* Mutant: the pair is minted without _populate_refresh_claims. *)
MintUnbound(t, s, v) ==
    /\ t \notin minted
    /\ minted' = minted \cup {t}
    /\ tver' = [tver EXCEPT ![t] = v]
    /\ UNCHANGED tsess

(* RefreshToken.for_user and _populate_refresh_claims *)
Mint(t, s, v) ==
    /\ t \notin minted
    /\ minted' = minted \cup {t}
    /\ tsess' = [tsess EXCEPT ![t] = s]
    /\ tver' = [tver EXCEPT ![t] = v]

-----------------------------------------------------------------------------
(* Login: obtain_token_pair and browser_login. *)

(* authenticate_for_token, with the right password. *)
Login(p) ==
    /\ pc[p] = "idle"
    /\ user.exists /\ user.active
    /\ copy' = [copy EXCEPT ![p] = user]
    /\ loginEpoch' = [loginEpoch EXCEPT ![p] = epoch]
    /\ Goes(p, "session")
    /\ UNCHANGED <<rowVars, pairVars, held, opened, epoch, epochOf>>

(* create_auth_session; its foreign key needs the account. *)
StartSession(p, s) ==
    /\ pc[p] = "session" /\ sess[s] = "none" /\ user.exists
    /\ sess' = [sess EXCEPT ![s] = "open"]
    /\ sver' = [sver EXCEPT ![s] = copy[p].version]
    /\ epochOf' = [epochOf EXCEPT ![s] = loginEpoch[p]]
    /\ opened' = [opened EXCEPT ![p] = s]
    /\ Goes(p, "mint")
    /\ UNCHANGED <<user, pairVars, held, copy, loginEpoch, epoch>>

IssuePair(p, t) ==
    /\ pc[p] = "mint" /\ user.exists
    /\ Mint(t, opened[p], copy[p].version)
    /\ Finish(p)
    /\ UNCHANGED <<rowVars, black, epoch, epochOf>>

-----------------------------------------------------------------------------
(* Refresh: rotate_token_pair. *)

(* RefreshToken(raw) looks the blacklist up before the transaction. *)
PresentRefresh(p, t) ==
    /\ pc[p] = "idle" /\ t \in minted
    /\ Goes(p, IF t \in black THEN "replay" ELSE "rotate")
    /\ held' = [held EXCEPT ![p] = t]
    /\ UNCHANGED <<rowVars, pairVars, opened, copy, loginEpoch, epoch,
                   epochOf>>

RevokeReplayed(p) ==
    /\ pc[p] = "replay"
    /\ RevokeSession(tsess[held[p]])
    /\ Finish(p)
    /\ UNCHANGED <<user, sver, pairVars, epoch, epochOf>>

(* The session of a refresh token still stands, read under both row locks. *)
Rotatable(t) ==
    /\ user.exists /\ user.active
    /\ tver[t] = user.version
    /\ sver[tsess[t]] = user.version
    /\ sess[tsess[t]] = "open"

(* blacklist() does not look whether another request was faster. *)
Rotate(p, t) ==
    LET old == held[p] IN
    /\ pc[p] = "rotate" /\ Rotatable(old)
    /\ black' = black \cup {old}
    /\ Mint(t, tsess[old], user.version)
    /\ Finish(p)
    /\ UNCHANGED <<rowVars, epoch, epochOf>>

(* Without the account there is nothing to revoke. *)
RefuseRotation(p) ==
    /\ pc[p] = "rotate" /\ ~Rotatable(held[p])
    /\ IF user.exists THEN RevokeSession(tsess[held[p]]) ELSE UNCHANGED sess
    /\ Finish(p)
    /\ UNCHANGED <<user, sver, pairVars, epoch, epochOf>>

-----------------------------------------------------------------------------
(* Logout: revoke_session_from_refresh; a blacklisted token is refused. *)

PresentLogout(p, t) ==
    /\ pc[p] = "idle" /\ t \in minted \ black
    /\ Goes(p, "logout")
    /\ held' = [held EXCEPT ![p] = t]
    /\ UNCHANGED <<rowVars, pairVars, opened, copy, loginEpoch, epoch,
                   epochOf>>

(* Mutant: logging out only blacklists the token. *)
SkipRevocation(p) ==
    /\ pc[p] = "logout"
    /\ Goes(p, "blacklist")
    /\ UNCHANGED <<rowVars, pairVars, held, opened, copy, loginEpoch, epoch,
                   epochOf>>

RevokeLoggedOut(p) ==
    /\ pc[p] = "logout"
    /\ RevokeSession(tsess[held[p]])
    /\ Goes(p, "blacklist")
    /\ UNCHANGED <<user, sver, pairVars, held, opened, copy, loginEpoch,
                   epoch, epochOf>>

BlacklistLoggedOut(p) ==
    /\ pc[p] = "blacklist"
    /\ black' = black \cup {held[p]}
    /\ Finish(p)
    /\ UNCHANGED <<rowVars, minted, tsess, tver, epoch, epochOf>>

-----------------------------------------------------------------------------
(* Requests with an access token.  JWTAuth.get_user reads the account row, *)
(* then the session row.                                                   *)

ReadUser(p, t) ==
    /\ pc[p] = "idle" /\ t \in minted
    /\ user.exists /\ user.active /\ tver[t] = user.version
    /\ copy' = [copy EXCEPT ![p] = user]
    /\ held' = [held EXCEPT ![p] = t]
    /\ Goes(p, "check")
    /\ UNCHANGED <<rowVars, pairVars, opened, loginEpoch, epoch, epochOf>>

CheckSession(p, endpoint) ==
    LET s == tsess[held[p]] IN
    /\ pc[p] = "check"
    /\ sess[s] = "open" /\ sver[s] = copy[p].version
    /\ Goes(p, endpoint)
    /\ UNCHANGED <<rowVars, pairVars, held, opened, copy, loginEpoch, epoch,
                   epochOf>>

(* Mutant: the sessions survive a change of the password. *)
ChangeOnlyPassword(p, new) ==
    /\ pc[p] = "change"
    /\ user.exists /\ user.password = copy[p].password
    /\ NewEpoch
    /\ user' = [user EXCEPT !.password = new]
    /\ Finish(p)
    /\ UNCHANGED <<sess, sver, pairVars, epochOf>>

(* change_password; the old password typed is the one of the time of the   *)
(* request, and is checked again under the row lock.                       *)
ChangePassword(p, new) ==
    /\ pc[p] = "change"
    /\ user.exists /\ user.password = copy[p].password
    /\ NewEpoch /\ RevokeAll([user EXCEPT !.password = new])
    /\ Finish(p)
    /\ UNCHANGED <<sver, pairVars, epochOf>>

(* A full-row save writes every column back as it was read. *)
UpToDate(p) == OverlappingSaves \/ copy[p] = user

(* update_me: user.save(), an INSERT where the UPDATE matches no row. *)
SaveProfile(p) ==
    /\ pc[p] = "save" /\ UpToDate(p)
    /\ user' = copy[p]
    /\ Finish(p)
    /\ UNCHANGED <<sess, sver, pairVars, epoch, epochOf>>

(* delete_user_account; the rows of the account go with it. *)
DeleteAccount(p) ==
    /\ pc[p] = "delete" /\ user.exists
    /\ user' = [user EXCEPT !.exists = FALSE]
    /\ sess' = [s \in Sessions |->
          IF sess[s] = "none" THEN "none" ELSE "deleted"]
    /\ Finish(p)
    /\ UNCHANGED <<sver, pairVars, epoch, epochOf>>

(* Any request may end early: an error, a refused check, a dead process. *)
Abandon(p) ==
    /\ pc[p] # "idle"
    /\ Finish(p)
    /\ UNCHANGED <<rowVars, pairVars, epoch, epochOf>>

-----------------------------------------------------------------------------
(* Administration and the other ways the account changes. *)

(* The admin site loads the account, binds the form and saves all of it. *)
OpenForm(p) ==
    /\ pc[p] = "idle" /\ user.exists
    /\ copy' = [copy EXCEPT ![p] = user]
    /\ Goes(p, "form")
    /\ UNCHANGED <<rowVars, pairVars, held, opened, loginEpoch, epoch,
                   epochOf>>

(* Mutant: save_model is the inherited one. *)
SaveFormOnly(p, active) ==
    /\ pc[p] = "form" /\ UpToDate(p)
    /\ user' = [copy[p] EXCEPT !.active = active]
    /\ Finish(p)
    /\ UNCHANGED <<sess, sver, pairVars, epoch, epochOf>>

(* save_model: previous_is_active is read from the row as it is now. *)
SaveForm(p, active) ==
    LET row == [copy[p] EXCEPT !.active = active] IN
    /\ pc[p] = "form" /\ UpToDate(p)
    /\ IF user.exists /\ user.active # active
         THEN NewEpoch /\ RevokeAll(row)
         ELSE user' = row /\ UNCHANGED <<sess, epoch>>
    /\ Finish(p)
    /\ UNCHANGED <<sver, pairVars, epochOf>>

(* user_change_password, which UserAdmin inherits, ends no session. *)
SavePasswordForm(p, new) ==
    /\ pc[p] = "form" /\ UpToDate(p)
    /\ user' = [copy[p] EXCEPT !.password = new]
    /\ Finish(p)
    /\ UNCHANGED <<sess, sver, pairVars, epoch, epochOf>>

(* Mutant: activation and deactivation only set the flag. *)
SetFlagOnly(active) ==
    /\ user.exists /\ NewEpoch
    /\ user' = [user EXCEPT !.active = active]
    /\ UNCHANGED <<sess, sver, pairVars, requestVars, epochOf>>

(* set_user_active_status, when the owner check lets it. *)
SetActive(active) ==
    /\ user.exists
    /\ NewEpoch /\ RevokeAll([user EXCEPT !.active = active])
    /\ UNCHANGED <<sver, pairVars, requestVars, epochOf>>

(* confirm_password_reset with a valid token. *)
ResetPassword(new) ==
    /\ user.exists
    /\ NewEpoch /\ RevokeAll([user EXCEPT !.password = new])
    /\ UNCHANGED <<sver, pairVars, requestVars, epochOf>>

(* confirm_email_change with a valid token. *)
ChangeEmail ==
    /\ user.exists
    /\ NewEpoch /\ RevokeAll(user)
    /\ UNCHANGED <<sver, pairVars, requestVars, epochOf>>

-----------------------------------------------------------------------------
(* Time and cleanup_expired_tokens. *)

ExpireSession(s) ==
    /\ sess[s] = "open"
    /\ sess' = [sess EXCEPT ![s] = "expired"]
    /\ UNCHANGED <<user, sver, pairVars, requestVars, epoch, epochOf>>

CleanUpSession(s) ==
    /\ sess[s] \in {"revoked", "expired"}
    /\ sess' = [sess EXCEPT ![s] = "deleted"]
    /\ UNCHANGED <<user, sver, pairVars, requestVars, epoch, epochOf>>

-----------------------------------------------------------------------------

Next ==
    \/ \E p \in Requests, s \in Sessions : StartSession(p, s)
    \/ \E p \in Requests, t \in Pairs :
         \/ IssuePair(p, t) \/ PresentRefresh(p, t) \/ Rotate(p, t)
         \/ PresentLogout(p, t) \/ ReadUser(p, t)
    \/ \E p \in Requests :
         \/ Login(p) \/ RevokeReplayed(p) \/ RefuseRotation(p)
         \/ RevokeLoggedOut(p) \/ BlacklistLoggedOut(p)
         \/ SaveProfile(p) \/ DeleteAccount(p) \/ OpenForm(p) \/ Abandon(p)
    \/ \E p \in Requests, endpoint \in {"change", "save", "delete"} :
         CheckSession(p, endpoint)
    \/ \E p \in Requests, new \in Passwords :
         ChangePassword(p, new) \/ SavePasswordForm(p, new)
    \/ \E p \in Requests, active \in BOOLEAN : SaveForm(p, active)
    \/ \E active \in BOOLEAN : SetActive(active)
    \/ \E new \in Passwords : ResetPassword(new)
    \/ ChangeEmail
    \/ \E s \in Sessions : ExpireSession(s) \/ CleanUpSession(s)

Spec == Init /\ [][Next]_vars

-----------------------------------------------------------------------------
(* Correctness. *)

(* JWTAuth accepts the access token of the pair. *)
Accepted(t) ==
    /\ t \in minted
    /\ user.exists /\ user.active
    /\ tver[t] = user.version
    /\ sess[tsess[t]] = "open" /\ sver[tsess[t]] = user.version

(* Password change, reset, confirmed email change, activation and          *)
(* deactivation invalidate what was logged in before: an accepted token    *)
(* belongs to a login that verified the password after the last of them,   *)
(* however the login, rotations and that change interleave.                *)
NoStaleAccess ==
    \A t \in Pairs : Accepted(t) => epochOf[tsess[t]] = epoch

(* Changes of the account stick: no writer takes the account back to an    *)
(* earlier version, (de)activates it without ending its sessions, or       *)
(* brings a deleted account back.                                          *)
AccountChangesStick ==
    [][/\ user'.version >= user.version
       /\ user'.active # user.active => user'.version > user.version
       /\ user'.exists => user.exists]_user

(* A session that is open can be refreshed by its owner: no failure,       *)
(* replay or concurrent request leaves it with accepted access tokens but  *)
(* only blacklisted refresh tokens, that could neither be rotated nor      *)
(* logged out.                                                             *)
OpenSessionRefreshable ==
    \A t \in black :
        sess[tsess[t]] = "open" =>
            \E u \in minted \ black : tsess[u] = tsess[t]

(* Rotation leaves at most one refresh token of a session that works. *)
OneLiveRefreshToken ==
    \A t, u \in minted \ black :
        Rotatable(t) /\ Rotatable(u) /\ tsess[t] = tsess[u] => t = u

Access(s) ==
    IF ~\E t \in minted : tsess[t] = s THEN "none"
    ELSE IF \E t \in minted : tsess[t] = s /\ Accepted(t) THEN "granted"
    ELSE "withdrawn"

accessBar == [s \in Sessions |-> Access(s)]

SA == INSTANCE SessionAccess WITH access <- accessBar

(* Rows, tokens and requests implement the promise of SessionAccess: once  *)
(* a session is logged out, replayed, expired or overtaken by a change of  *)
(* the account, none of its tokens is ever accepted again.                 *)
ImplementsSessionAccess == SA!Spec
=============================================================================
