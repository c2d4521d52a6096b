-------------------------- MODULE AuthSessionsProofs --------------------------
(***************************************************************************)
(* Safety of AuthSessions for any number of requests, sessions and token   *)
(* pairs and any number of changes of the account.  The theorems about     *)
(* access assume that no full-row save overlaps such a change.             *)
(***************************************************************************)
EXTENDS AuthSessions, TLAPS

(* A request in the middle of something knows what it is about. *)
Known ==
    \A p \in Requests :
        /\ pc[p] = "mint" => opened[p] \in Sessions
        /\ pc[p] \in {"replay", "rotate", "logout", "blacklist", "check"}
              => held[p] \in minted
        /\ pc[p] \in {"check", "change", "save", "delete", "form"}
              => copy[p].exists

(* No version was ever read or written that is ahead of the changes made. *)
Bounded ==
    /\ user.version <= epoch + 1
    /\ \A p \in Requests : copy[p].version <= epoch + 1

TypeInv == TypeOK /\ Known /\ Bounded

(* auth_version counts the changes of the account, and whoever read it      *)
(* with the password knows how many there had been.                         *)
VersionsCount ==
    /\ user.version = epoch + 1
    /\ \A p \in Requests :
         pc[p] \in {"session", "mint"} =>
            /\ copy[p].version = loginEpoch[p] + 1
            /\ loginEpoch[p] <= epoch
    /\ \A s \in Sessions :
         sess[s] # "none" =>
            /\ sver[s] = epochOf[s] + 1
            /\ epochOf[s] <= epoch

(* The claims of a pair are those of its session row. *)
ClaimsMatch ==
    /\ \A t \in minted :
         sess[tsess[t]] # "none" /\ tver[t] = sver[tsess[t]]
    /\ \A p \in Requests :
         pc[p] = "mint" =>
            sess[opened[p]] # "none" /\ sver[opened[p]] = copy[p].version

(* A session that was logged out is over by the time its token is listed.  *)
LoggedOutClosed ==
    \A p \in Requests :
        pc[p] = "blacklist" => sess[tsess[held[p]]] # "open"

IInv ==
    /\ TypeInv /\ VersionsCount /\ ClaimsMatch
    /\ LoggedOutClosed /\ OpenSessionRefreshable

(* What Accepted says of a pair, said of its session. *)
Standing(s) ==
    /\ user.exists /\ user.active
    /\ sess[s] = "open" /\ sver[s] = user.version

HasPair(s) == \E t \in minted : tsess[t] = s

Issues == \E p \in Requests, t \in Pairs : IssuePair(p, t)

SamePairs == \A s \in Sessions : HasPair(s)' <=> HasPair(s)

(* The step of AccountChangesStick. *)
Sticks ==
    /\ user'.version >= user.version
    /\ user'.active # user.active => user'.version > user.version
    /\ user'.exists => user.exists

-----------------------------------------------------------------------------

(* What ending sessions leaves in the session rows. *)
LEMMA RevokedRows ==
  ASSUME sess \in [Sessions -> SessionStates]
  PROVE  [s \in Sessions |->
             IF sess[s] \in {"open", "expired"} THEN "revoked" ELSE sess[s]]
           \in [Sessions -> SessionStates]
  BY DEF SessionStates

(* What the cascade of a deleted account leaves in the session rows. *)
LEMMA DeletedRows ==
  ASSUME sess \in [Sessions -> SessionStates]
  PROVE  [s \in Sessions |->
             IF sess[s] = "none" THEN "none" ELSE "deleted"]
           \in [Sessions -> SessionStates]
  BY DEF SessionStates

(* Types, with what a request knows and how far versions can have got. *)
LEMMA TypeStep ==
  ASSUME TypeInv, [Next]_vars
  PROVE  TypeInv'
<1> USE ConstantsAssumption
    DEF Goes, Finish, RevokeSession, RevokeAll, NewEpoch, Mint, UpToDate,
        Rotatable, NewUser, UserRow, Versions, SessionStates, rowVars,
        pairVars, requestVars
<1> USE DEF TypeInv, TypeOK, Known, Bounded, PC
<1>1. ASSUME NEW p \in Requests, NEW s \in Sessions, StartSession(p, s)
      PROVE  TypeInv'
  BY <1>1 DEF StartSession
<1>2. ASSUME NEW p \in Requests, NEW t \in Pairs, IssuePair(p, t)
      PROVE  TypeInv'
  BY <1>2 DEF IssuePair
<1>3. ASSUME NEW p \in Requests, NEW t \in Pairs, PresentRefresh(p, t)
      PROVE  TypeInv'
  BY <1>3 DEF PresentRefresh
<1>4. ASSUME NEW p \in Requests, NEW t \in Pairs, Rotate(p, t) PROVE TypeInv'
  BY <1>4 DEF Rotate
<1>5. ASSUME NEW p \in Requests, NEW t \in Pairs, PresentLogout(p, t)
      PROVE  TypeInv'
  BY <1>5 DEF PresentLogout
<1>6. ASSUME NEW p \in Requests, NEW t \in Pairs, ReadUser(p, t)
      PROVE  TypeInv'
  BY <1>6 DEF ReadUser
<1>7. ASSUME NEW p \in Requests, Login(p) PROVE TypeInv'
  BY <1>7 DEF Login
<1>8. ASSUME NEW p \in Requests, RevokeReplayed(p) PROVE TypeInv'
  BY <1>8 DEF RevokeReplayed
<1>9. ASSUME NEW p \in Requests, RefuseRotation(p) PROVE TypeInv'
  BY <1>9 DEF RefuseRotation
<1>10. ASSUME NEW p \in Requests, RevokeLoggedOut(p) PROVE TypeInv'
  BY <1>10 DEF RevokeLoggedOut
<1>11. ASSUME NEW p \in Requests, BlacklistLoggedOut(p) PROVE TypeInv'
  BY <1>11 DEF BlacklistLoggedOut
<1>12. ASSUME NEW p \in Requests, SaveProfile(p) PROVE TypeInv'
  BY <1>12 DEF SaveProfile
<1>13. ASSUME NEW p \in Requests, DeleteAccount(p) PROVE TypeInv'
  <2>1. user' \in UserRow /\ user'.version = user.version
    BY <1>13 DEF DeleteAccount
  <2>2. sess' \in [Sessions -> SessionStates]
    <3>1. sess' = [s \in Sessions |->
              IF sess[s] = "none" THEN "none" ELSE "deleted"]
      BY <1>13 DEF DeleteAccount
    <3> QED
      BY <3>1, DeletedRows DEF TypeOK
  <2> QED
    BY <1>13, <2>1, <2>2 DEF DeleteAccount
<1>14. ASSUME NEW p \in Requests, OpenForm(p) PROVE TypeInv'
  BY <1>14 DEF OpenForm
<1>15. ASSUME NEW p \in Requests, Abandon(p) PROVE TypeInv'
  BY <1>15 DEF Abandon
<1>16. ASSUME NEW p \in Requests, NEW endpoint \in {"change", "save", "delete"},
              CheckSession(p, endpoint)
       PROVE  TypeInv'
  BY <1>16 DEF CheckSession
<1>17. ASSUME NEW p \in Requests, NEW new \in Passwords,
              ChangePassword(p, new)
       PROVE  TypeInv'
  <2>1. user' \in UserRow /\ user'.version = user.version + 1
    <3>1. user.version + 1 \in Versions
      BY <1>17 DEF ChangePassword
    <3>2. user' = [exists |-> user.exists, active |-> user.active,
                   password |-> new, version |-> user.version + 1]
      BY <1>17 DEF ChangePassword
    <3> QED
      BY <3>1, <3>2
  <2>2. sess' \in [Sessions -> SessionStates]
    <3>1. sess' = [s \in Sessions |->
              IF sess[s] \in {"open", "expired"} THEN "revoked" ELSE sess[s]]
      BY <1>17 DEF ChangePassword
    <3> QED
      BY <3>1, RevokedRows DEF TypeOK
  <2> QED
    BY <1>17, <2>1, <2>2 DEF ChangePassword
<1>18. ASSUME NEW p \in Requests, NEW new \in Passwords,
              SavePasswordForm(p, new)
       PROVE  TypeInv'
  BY <1>18 DEF SavePasswordForm
<1>19. ASSUME NEW p \in Requests, NEW active \in BOOLEAN, SaveForm(p, active)
       PROVE  TypeInv'
  <2>1. [copy[p] EXCEPT !.active = active] \in UserRow
    OBVIOUS
  <2>2. CASE user.exists /\ user.active # active
    <3>1. user' \in UserRow /\ user'.version = copy[p].version + 1
      <4>1. copy[p].version + 1 \in Versions
        BY <1>19, <2>2 DEF SaveForm
      <4>2. user' = [exists |-> copy[p].exists, active |-> active,
                     password |-> copy[p].password,
                     version |-> copy[p].version + 1]
        <5>1. user' = [[copy[p] EXCEPT !.active = active]
                        EXCEPT !.version = @ + 1]
          BY <1>19, <2>2 DEF SaveForm
        <5>2. copy[p] \in UserRow
          OBVIOUS
        <5> QED
          BY <5>1, <5>2
      <4> QED
        BY <4>1, <4>2
    <3>2. sess' \in [Sessions -> SessionStates]
      <4>1. sess' = [s \in Sessions |->
                IF sess[s] \in {"open", "expired"} THEN "revoked" ELSE sess[s]]
        BY <1>19, <2>2 DEF SaveForm
      <4> QED
        BY <4>1, RevokedRows DEF TypeOK
    <3> QED
      BY <1>19, <2>2, <3>1, <3>2 DEF SaveForm
  <2>3. CASE ~(user.exists /\ user.active # active)
    <3>1. user' \in UserRow /\ user'.version = copy[p].version
      BY <1>19, <2>1, <2>3 DEF SaveForm
    <3> QED
      BY <1>19, <2>3, <3>1 DEF SaveForm
  <2> QED
    BY <2>2, <2>3
<1>20. ASSUME NEW active \in BOOLEAN, SetActive(active) PROVE TypeInv'
  <2>1. user' \in UserRow /\ user'.version = user.version + 1
    <3>1. user.version + 1 \in Versions
      BY <1>20 DEF SetActive
    <3>2. user' = [exists |-> user.exists, active |-> active,
                   password |-> user.password, version |-> user.version + 1]
      BY <1>20 DEF SetActive
    <3> QED
      BY <3>1, <3>2
  <2>2. sess' \in [Sessions -> SessionStates]
    <3>1. sess' = [s \in Sessions |->
              IF sess[s] \in {"open", "expired"} THEN "revoked" ELSE sess[s]]
      BY <1>20 DEF SetActive
    <3> QED
      BY <3>1, RevokedRows DEF TypeOK
  <2> QED
    BY <1>20, <2>1, <2>2 DEF SetActive
<1>21. ASSUME NEW new \in Passwords, ResetPassword(new) PROVE TypeInv'
  <2>1. user' \in UserRow /\ user'.version = user.version + 1
    <3>1. user.version + 1 \in Versions
      BY <1>21 DEF ResetPassword
    <3>2. user' = [exists |-> user.exists, active |-> user.active,
                   password |-> new, version |-> user.version + 1]
      BY <1>21 DEF ResetPassword
    <3> QED
      BY <3>1, <3>2
  <2>2. sess' \in [Sessions -> SessionStates]
    <3>1. sess' = [s \in Sessions |->
              IF sess[s] \in {"open", "expired"} THEN "revoked" ELSE sess[s]]
      BY <1>21 DEF ResetPassword
    <3> QED
      BY <3>1, RevokedRows DEF TypeOK
  <2> QED
    BY <1>21, <2>1, <2>2 DEF ResetPassword
<1>22. CASE ChangeEmail
  BY <1>22 DEF ChangeEmail
<1>23. ASSUME NEW s \in Sessions, ExpireSession(s) PROVE TypeInv'
  BY <1>23 DEF ExpireSession
<1>24. ASSUME NEW s \in Sessions, CleanUpSession(s) PROVE TypeInv'
  BY <1>24 DEF CleanUpSession
<1>25. CASE UNCHANGED vars
  BY <1>25 DEF vars
<1> QED
  BY <1>1, <1>2, <1>3, <1>4, <1>5, <1>6, <1>7, <1>8, <1>9, <1>10, <1>11,
     <1>12, <1>13, <1>14, <1>15, <1>16, <1>17, <1>18, <1>19, <1>20, <1>21,
     <1>22, <1>23, <1>24, <1>25 DEF Next

(* Without overlapping saves nobody writes an old version back. *)
LEMMA VersionsStep ==
  ASSUME TypeInv, VersionsCount, ~OverlappingSaves, [Next]_vars
  PROVE  VersionsCount'
<1> USE ConstantsAssumption
    DEF Goes, Finish, RevokeSession, RevokeAll, NewEpoch, Mint, UpToDate,
        Rotatable, NewUser, UserRow, Versions, SessionStates, rowVars,
        pairVars, requestVars
<1> USE DEF TypeInv, TypeOK, Known, VersionsCount, PC
<1>1. ASSUME NEW p \in Requests, NEW s \in Sessions, StartSession(p, s)
      PROVE  VersionsCount'
  BY <1>1 DEF StartSession
<1>2. ASSUME NEW p \in Requests, NEW t \in Pairs, IssuePair(p, t)
      PROVE  VersionsCount'
  BY <1>2 DEF IssuePair
<1>3. ASSUME NEW p \in Requests, NEW t \in Pairs, PresentRefresh(p, t)
      PROVE  VersionsCount'
  BY <1>3 DEF PresentRefresh
<1>4. ASSUME NEW p \in Requests, NEW t \in Pairs, Rotate(p, t)
      PROVE  VersionsCount'
  BY <1>4 DEF Rotate
<1>5. ASSUME NEW p \in Requests, NEW t \in Pairs, PresentLogout(p, t)
      PROVE  VersionsCount'
  BY <1>5 DEF PresentLogout
<1>6. ASSUME NEW p \in Requests, NEW t \in Pairs, ReadUser(p, t)
      PROVE  VersionsCount'
  BY <1>6 DEF ReadUser
<1>7. ASSUME NEW p \in Requests, Login(p) PROVE VersionsCount'
  BY <1>7 DEF Login
<1>8. ASSUME NEW p \in Requests, RevokeReplayed(p) PROVE VersionsCount'
  BY <1>8 DEF RevokeReplayed
<1>9. ASSUME NEW p \in Requests, RefuseRotation(p) PROVE VersionsCount'
  BY <1>9 DEF RefuseRotation
<1>10. ASSUME NEW p \in Requests, RevokeLoggedOut(p) PROVE VersionsCount'
  BY <1>10 DEF RevokeLoggedOut
<1>11. ASSUME NEW p \in Requests, BlacklistLoggedOut(p) PROVE VersionsCount'
  BY <1>11 DEF BlacklistLoggedOut
<1>12. ASSUME NEW p \in Requests, SaveProfile(p) PROVE VersionsCount'
  BY <1>12 DEF SaveProfile
<1>13. ASSUME NEW p \in Requests, DeleteAccount(p) PROVE VersionsCount'
  BY <1>13 DEF DeleteAccount
<1>14. ASSUME NEW p \in Requests, OpenForm(p) PROVE VersionsCount'
  BY <1>14 DEF OpenForm
<1>15. ASSUME NEW p \in Requests, Abandon(p) PROVE VersionsCount'
  BY <1>15 DEF Abandon
<1>16. ASSUME NEW p \in Requests, NEW endpoint \in {"change", "save", "delete"},
              CheckSession(p, endpoint)
       PROVE  VersionsCount'
  BY <1>16 DEF CheckSession
<1>17. ASSUME NEW p \in Requests, NEW new \in Passwords,
              ChangePassword(p, new)
       PROVE  VersionsCount'
  BY <1>17 DEF ChangePassword
<1>18. ASSUME NEW p \in Requests, NEW new \in Passwords,
              SavePasswordForm(p, new)
       PROVE  VersionsCount'
  BY <1>18 DEF SavePasswordForm
<1>19. ASSUME NEW p \in Requests, NEW active \in BOOLEAN, SaveForm(p, active)
       PROVE  VersionsCount'
  <2>1. copy[p] = user /\ user.exists
    BY <1>19 DEF SaveForm
  <2>2. CASE user.active # active
    <3>1. user'.version = user.version + 1 /\ user'.active = active
      BY <1>19, <2>1, <2>2 DEF SaveForm
    <3>2. \A s \in Sessions : sess'[s] # "none" => sess[s] # "none"
      BY <1>19, <2>1, <2>2 DEF SaveForm
    <3> QED
      BY <1>19, <2>1, <2>2, <3>1, <3>2 DEF SaveForm
  <2>3. CASE user.active = active
    <3>1. user'.version = user.version /\ user'.active = user.active
      BY <1>19, <2>1, <2>3 DEF SaveForm
    <3> QED
      BY <1>19, <2>1, <2>3, <3>1 DEF SaveForm
  <2> QED
    BY <2>2, <2>3
<1>20. ASSUME NEW active \in BOOLEAN, SetActive(active) PROVE VersionsCount'
  BY <1>20 DEF SetActive
<1>21. ASSUME NEW new \in Passwords, ResetPassword(new) PROVE VersionsCount'
  BY <1>21 DEF ResetPassword
<1>22. CASE ChangeEmail
  BY <1>22 DEF ChangeEmail
<1>23. ASSUME NEW s \in Sessions, ExpireSession(s) PROVE VersionsCount'
  BY <1>23 DEF ExpireSession
<1>24. ASSUME NEW s \in Sessions, CleanUpSession(s) PROVE VersionsCount'
  BY <1>24 DEF CleanUpSession
<1>25. CASE UNCHANGED vars
  BY <1>25 DEF vars
<1> QED
  BY <1>1, <1>2, <1>3, <1>4, <1>5, <1>6, <1>7, <1>8, <1>9, <1>10, <1>11,
     <1>12, <1>13, <1>14, <1>15, <1>16, <1>17, <1>18, <1>19, <1>20, <1>21,
     <1>22, <1>23, <1>24, <1>25 DEF Next

(* A pair takes its claims from the row that login or rotation read.       *)
LEMMA ClaimsStep ==
  ASSUME TypeInv, ClaimsMatch, [Next]_vars
  PROVE  ClaimsMatch'
<1> USE ConstantsAssumption
    DEF Goes, Finish, RevokeSession, RevokeAll, NewEpoch, Mint, UpToDate,
        Rotatable, NewUser, UserRow, Versions, SessionStates, rowVars,
        pairVars, requestVars
<1> USE DEF TypeInv, TypeOK, Known, ClaimsMatch, PC
<1>1. ASSUME NEW p \in Requests, NEW s \in Sessions, StartSession(p, s)
      PROVE  ClaimsMatch'
  BY <1>1 DEF StartSession
<1>2. ASSUME NEW p \in Requests, NEW t \in Pairs, IssuePair(p, t)
      PROVE  ClaimsMatch'
  BY <1>2 DEF IssuePair
<1>3. ASSUME NEW p \in Requests, NEW t \in Pairs, PresentRefresh(p, t)
      PROVE  ClaimsMatch'
  BY <1>3 DEF PresentRefresh
<1>4. ASSUME NEW p \in Requests, NEW t \in Pairs, Rotate(p, t)
      PROVE  ClaimsMatch'
  BY <1>4 DEF Rotate
<1>5. ASSUME NEW p \in Requests, NEW t \in Pairs, PresentLogout(p, t)
      PROVE  ClaimsMatch'
  BY <1>5 DEF PresentLogout
<1>6. ASSUME NEW p \in Requests, NEW t \in Pairs, ReadUser(p, t)
      PROVE  ClaimsMatch'
  BY <1>6 DEF ReadUser
<1>7. ASSUME NEW p \in Requests, Login(p) PROVE ClaimsMatch'
  BY <1>7 DEF Login
<1>8. ASSUME NEW p \in Requests, RevokeReplayed(p) PROVE ClaimsMatch'
  BY <1>8 DEF RevokeReplayed
<1>9. ASSUME NEW p \in Requests, RefuseRotation(p) PROVE ClaimsMatch'
  BY <1>9 DEF RefuseRotation
<1>10. ASSUME NEW p \in Requests, RevokeLoggedOut(p) PROVE ClaimsMatch'
  BY <1>10 DEF RevokeLoggedOut
<1>11. ASSUME NEW p \in Requests, BlacklistLoggedOut(p) PROVE ClaimsMatch'
  BY <1>11 DEF BlacklistLoggedOut
<1>12. ASSUME NEW p \in Requests, SaveProfile(p) PROVE ClaimsMatch'
  BY <1>12 DEF SaveProfile
<1>13. ASSUME NEW p \in Requests, DeleteAccount(p) PROVE ClaimsMatch'
  BY <1>13 DEF DeleteAccount
<1>14. ASSUME NEW p \in Requests, OpenForm(p) PROVE ClaimsMatch'
  BY <1>14 DEF OpenForm
<1>15. ASSUME NEW p \in Requests, Abandon(p) PROVE ClaimsMatch'
  BY <1>15 DEF Abandon
<1>16. ASSUME NEW p \in Requests, NEW endpoint \in {"change", "save", "delete"},
              CheckSession(p, endpoint)
       PROVE  ClaimsMatch'
  BY <1>16 DEF CheckSession
<1>17. ASSUME NEW p \in Requests, NEW new \in Passwords,
              ChangePassword(p, new)
       PROVE  ClaimsMatch'
  BY <1>17 DEF ChangePassword
<1>18. ASSUME NEW p \in Requests, NEW new \in Passwords,
              SavePasswordForm(p, new)
       PROVE  ClaimsMatch'
  BY <1>18 DEF SavePasswordForm
<1>19. ASSUME NEW p \in Requests, NEW active \in BOOLEAN, SaveForm(p, active)
       PROVE  ClaimsMatch'
  BY <1>19 DEF SaveForm
<1>20. ASSUME NEW active \in BOOLEAN, SetActive(active) PROVE ClaimsMatch'
  BY <1>20 DEF SetActive
<1>21. ASSUME NEW new \in Passwords, ResetPassword(new) PROVE ClaimsMatch'
  BY <1>21 DEF ResetPassword
<1>22. CASE ChangeEmail
  BY <1>22 DEF ChangeEmail
<1>23. ASSUME NEW s \in Sessions, ExpireSession(s) PROVE ClaimsMatch'
  BY <1>23 DEF ExpireSession
<1>24. ASSUME NEW s \in Sessions, CleanUpSession(s) PROVE ClaimsMatch'
  BY <1>24 DEF CleanUpSession
<1>25. CASE UNCHANGED vars
  BY <1>25 DEF vars
<1> QED
  BY <1>1, <1>2, <1>3, <1>4, <1>5, <1>6, <1>7, <1>8, <1>9, <1>10, <1>11,
     <1>12, <1>13, <1>14, <1>15, <1>16, <1>17, <1>18, <1>19, <1>20, <1>21,
     <1>22, <1>23, <1>24, <1>25 DEF Next

(* A session loses its last working refresh token only by being over. *)
LEMMA RefreshStep ==
  ASSUME TypeInv, ClaimsMatch, LoggedOutClosed, OpenSessionRefreshable,
         [Next]_vars
  PROVE  (LoggedOutClosed /\ OpenSessionRefreshable)'
<1> USE ConstantsAssumption
    DEF Goes, Finish, RevokeSession, RevokeAll, NewEpoch, Mint, UpToDate,
        Rotatable, NewUser, UserRow, Versions, SessionStates, rowVars,
        pairVars, requestVars
<1> USE DEF TypeInv, TypeOK, Known, ClaimsMatch, LoggedOutClosed,
          OpenSessionRefreshable, PC
<1>1. ASSUME NEW p \in Requests, NEW s \in Sessions, StartSession(p, s)
      PROVE  (LoggedOutClosed /\ OpenSessionRefreshable)'
  BY <1>1 DEF StartSession
<1>2. ASSUME NEW p \in Requests, NEW t \in Pairs, IssuePair(p, t)
      PROVE  (LoggedOutClosed /\ OpenSessionRefreshable)'
  BY <1>2 DEF IssuePair
<1>3. ASSUME NEW p \in Requests, NEW t \in Pairs, PresentRefresh(p, t)
      PROVE  (LoggedOutClosed /\ OpenSessionRefreshable)'
  BY <1>3 DEF PresentRefresh
<1>4. ASSUME NEW p \in Requests, NEW t \in Pairs, Rotate(p, t)
      PROVE  (LoggedOutClosed /\ OpenSessionRefreshable)'
  BY <1>4 DEF Rotate
<1>5. ASSUME NEW p \in Requests, NEW t \in Pairs, PresentLogout(p, t)
      PROVE  (LoggedOutClosed /\ OpenSessionRefreshable)'
  BY <1>5 DEF PresentLogout
<1>6. ASSUME NEW p \in Requests, NEW t \in Pairs, ReadUser(p, t)
      PROVE  (LoggedOutClosed /\ OpenSessionRefreshable)'
  BY <1>6 DEF ReadUser
<1>7. ASSUME NEW p \in Requests, Login(p)
      PROVE  (LoggedOutClosed /\ OpenSessionRefreshable)'
  BY <1>7 DEF Login
<1>8. ASSUME NEW p \in Requests, RevokeReplayed(p)
      PROVE  (LoggedOutClosed /\ OpenSessionRefreshable)'
  BY <1>8 DEF RevokeReplayed
<1>9. ASSUME NEW p \in Requests, RefuseRotation(p)
      PROVE  (LoggedOutClosed /\ OpenSessionRefreshable)'
  BY <1>9 DEF RefuseRotation
<1>10. ASSUME NEW p \in Requests, RevokeLoggedOut(p)
       PROVE  (LoggedOutClosed /\ OpenSessionRefreshable)'
  BY <1>10 DEF RevokeLoggedOut
<1>11. ASSUME NEW p \in Requests, BlacklistLoggedOut(p)
       PROVE  (LoggedOutClosed /\ OpenSessionRefreshable)'
  BY <1>11 DEF BlacklistLoggedOut
<1>12. ASSUME NEW p \in Requests, SaveProfile(p)
       PROVE  (LoggedOutClosed /\ OpenSessionRefreshable)'
  BY <1>12 DEF SaveProfile
<1>13. ASSUME NEW p \in Requests, DeleteAccount(p)
       PROVE  (LoggedOutClosed /\ OpenSessionRefreshable)'
  BY <1>13 DEF DeleteAccount
<1>14. ASSUME NEW p \in Requests, OpenForm(p)
       PROVE  (LoggedOutClosed /\ OpenSessionRefreshable)'
  BY <1>14 DEF OpenForm
<1>15. ASSUME NEW p \in Requests, Abandon(p)
       PROVE  (LoggedOutClosed /\ OpenSessionRefreshable)'
  BY <1>15 DEF Abandon
<1>16. ASSUME NEW p \in Requests, NEW endpoint \in {"change", "save", "delete"},
              CheckSession(p, endpoint)
       PROVE  (LoggedOutClosed /\ OpenSessionRefreshable)'
  BY <1>16 DEF CheckSession
<1>17. ASSUME NEW p \in Requests, NEW new \in Passwords,
              ChangePassword(p, new)
       PROVE  (LoggedOutClosed /\ OpenSessionRefreshable)'
  BY <1>17 DEF ChangePassword
<1>18. ASSUME NEW p \in Requests, NEW new \in Passwords,
              SavePasswordForm(p, new)
       PROVE  (LoggedOutClosed /\ OpenSessionRefreshable)'
  BY <1>18 DEF SavePasswordForm
<1>19. ASSUME NEW p \in Requests, NEW active \in BOOLEAN, SaveForm(p, active)
       PROVE  (LoggedOutClosed /\ OpenSessionRefreshable)'
  BY <1>19 DEF SaveForm
<1>20. ASSUME NEW active \in BOOLEAN, SetActive(active)
       PROVE  (LoggedOutClosed /\ OpenSessionRefreshable)'
  BY <1>20 DEF SetActive
<1>21. ASSUME NEW new \in Passwords, ResetPassword(new)
       PROVE  (LoggedOutClosed /\ OpenSessionRefreshable)'
  BY <1>21 DEF ResetPassword
<1>22. CASE ChangeEmail
  BY <1>22 DEF ChangeEmail
<1>23. ASSUME NEW s \in Sessions, ExpireSession(s)
       PROVE  (LoggedOutClosed /\ OpenSessionRefreshable)'
  BY <1>23 DEF ExpireSession
<1>24. ASSUME NEW s \in Sessions, CleanUpSession(s)
       PROVE  (LoggedOutClosed /\ OpenSessionRefreshable)'
  BY <1>24 DEF CleanUpSession
<1>25. CASE UNCHANGED vars
  BY <1>25 DEF vars
<1> QED
  BY <1>1, <1>2, <1>3, <1>4, <1>5, <1>6, <1>7, <1>8, <1>9, <1>10, <1>11,
     <1>12, <1>13, <1>14, <1>15, <1>16, <1>17, <1>18, <1>19, <1>20, <1>21,
     <1>22, <1>23, <1>24, <1>25 DEF Next

(* No step takes back or half applies a change of the account. *)
LEMMA StickStep ==
  ASSUME TypeInv, ~OverlappingSaves, [Next]_vars
  PROVE  Sticks
<1> USE DEF Sticks, RevokeAll, UpToDate, rowVars
<1> user \in UserRow
  BY DEF TypeInv, TypeOK
<1> USE DEF UserRow, Versions
<1>1. UNCHANGED user => Sticks
  OBVIOUS
<1>2. ASSUME NEW p \in Requests, NEW s \in Sessions,
             StartSession(p, s)
      PROVE  Sticks
  BY <1>1, <1>2 DEF StartSession
<1>3. ASSUME NEW p \in Requests, NEW t \in Pairs,
             \/ IssuePair(p, t) \/ PresentRefresh(p, t) \/ Rotate(p, t)
             \/ PresentLogout(p, t) \/ ReadUser(p, t)
      PROVE  Sticks
  BY <1>1, <1>3 DEF IssuePair, PresentRefresh, Rotate, PresentLogout, ReadUser
<1>4. ASSUME NEW p \in Requests,
             \/ Login(p) \/ RevokeReplayed(p) \/ RefuseRotation(p)
             \/ RevokeLoggedOut(p) \/ BlacklistLoggedOut(p) \/ OpenForm(p)
             \/ Abandon(p)
      PROVE  Sticks
  BY <1>1, <1>4
  DEF Login, RevokeReplayed, RefuseRotation, RevokeLoggedOut,
      BlacklistLoggedOut, OpenForm, Abandon
<1>5. ASSUME NEW p \in Requests, NEW endpoint \in {"change", "save", "delete"},
             CheckSession(p, endpoint)
      PROVE  Sticks
  BY <1>1, <1>5 DEF CheckSession
<1>6. ASSUME NEW s \in Sessions,
             \/ ExpireSession(s) \/ CleanUpSession(s)
      PROVE  Sticks
  BY <1>1, <1>6 DEF ExpireSession, CleanUpSession
<1>7. ASSUME NEW p \in Requests, SaveProfile(p) PROVE Sticks
  BY <1>7 DEF SaveProfile, TypeInv, Known
<1>8. ASSUME NEW p \in Requests, DeleteAccount(p) PROVE Sticks
  BY <1>8 DEF DeleteAccount
<1>9. ASSUME NEW p \in Requests, NEW new \in Passwords, ChangePassword(p, new)
      PROVE  Sticks
  BY <1>9 DEF ChangePassword
<1>10. ASSUME NEW p \in Requests, NEW new \in Passwords,
              SavePasswordForm(p, new)
       PROVE  Sticks
  BY <1>10 DEF SavePasswordForm
<1>11. ASSUME NEW p \in Requests, NEW active \in BOOLEAN, SaveForm(p, active)
       PROVE  Sticks
  <2>1. copy[p] = user /\ user.exists
    BY <1>11 DEF SaveForm, TypeInv, Known
  <2>2. CASE user.active # active
    <3>1. user' = [[user EXCEPT !.active = active] EXCEPT !.version = @ + 1]
      BY <1>11, <2>1, <2>2 DEF SaveForm
    <3> QED
      BY <2>1, <3>1
  <2>3. CASE user.active = active
    BY <1>11, <2>1, <2>3 DEF SaveForm
  <2> QED
    BY <2>2, <2>3
<1>12. ASSUME NEW active \in BOOLEAN, SetActive(active) PROVE Sticks
  BY <1>12 DEF SetActive
<1>13. ASSUME NEW new \in Passwords, ResetPassword(new) PROVE Sticks
  BY <1>13 DEF ResetPassword
<1>14. CASE ChangeEmail
  BY <1>14 DEF ChangeEmail
<1>15. CASE UNCHANGED vars
  BY <1>15, <1>1 DEF vars
<1> QED
  BY <1>2, <1>3, <1>4, <1>5, <1>6, <1>7, <1>8, <1>9, <1>10, <1>11, <1>12,
     <1>13, <1>14, <1>15 DEF Next

(* A session that does not stand never stands again. *)
LEMMA NoRevival ==
  ASSUME TypeInv, VersionsCount, ~OverlappingSaves, [Next]_vars,
         NEW r \in Sessions, sess[r] # "none", Standing(r)'
  PROVE  Standing(r)
<1> USE DEF Standing, RevokeAll, RevokeSession, UpToDate, rowVars
<1> USE DEF TypeInv, TypeOK
<1>1. UNCHANGED <<user, sess, sver>> => Standing(r)
  OBVIOUS
<1>2. ASSUME NEW p \in Requests, NEW t \in Pairs,
             \/ IssuePair(p, t) \/ PresentRefresh(p, t) \/ Rotate(p, t)
             \/ PresentLogout(p, t) \/ ReadUser(p, t)
      PROVE  Standing(r)
  BY <1>1, <1>2 DEF IssuePair, PresentRefresh, Rotate, PresentLogout, ReadUser
<1>3. ASSUME NEW p \in Requests,
             \/ Login(p) \/ BlacklistLoggedOut(p) \/ OpenForm(p)
             \/ Abandon(p)
      PROVE  Standing(r)
  BY <1>1, <1>3 DEF Login, BlacklistLoggedOut, OpenForm, Abandon
<1>4. ASSUME NEW p \in Requests, NEW endpoint \in {"change", "save", "delete"},
             CheckSession(p, endpoint)
      PROVE  Standing(r)
  BY <1>1, <1>4 DEF CheckSession
<1>5. ASSUME NEW p \in Requests, NEW s \in Sessions, StartSession(p, s)
      PROVE  Standing(r)
  BY <1>5 DEF StartSession
<1>6. ASSUME NEW p \in Requests, RevokeReplayed(p) PROVE Standing(r)
  BY <1>6 DEF RevokeReplayed
<1>7. ASSUME NEW p \in Requests, RefuseRotation(p) PROVE Standing(r)
  BY <1>7 DEF RefuseRotation
<1>8. ASSUME NEW p \in Requests, RevokeLoggedOut(p) PROVE Standing(r)
  BY <1>8 DEF RevokeLoggedOut
<1>9. ASSUME NEW p \in Requests, SaveProfile(p) PROVE Standing(r)
  BY <1>9 DEF SaveProfile, Known
<1>10. ASSUME NEW p \in Requests, DeleteAccount(p) PROVE Standing(r)
  BY <1>10 DEF DeleteAccount
<1>11. ASSUME NEW p \in Requests, NEW new \in Passwords,
              ChangePassword(p, new)
       PROVE  Standing(r)
  BY <1>11 DEF ChangePassword
<1>12. ASSUME NEW p \in Requests, NEW new \in Passwords,
              SavePasswordForm(p, new)
       PROVE  Standing(r)
  <2>1. copy[p] = user
    BY <1>12 DEF SavePasswordForm
  <2> QED
    BY <1>12, <2>1 DEF SavePasswordForm, UserRow
<1>13. ASSUME NEW p \in Requests, NEW active \in BOOLEAN, SaveForm(p, active)
       PROVE  Standing(r)
  <2>1. copy[p] = user /\ user.exists
    BY <1>13 DEF SaveForm, Known
  <2>2. CASE user.active # active
    <3>1. sess'[r] # "open"
      BY <1>13, <2>1, <2>2 DEF SaveForm
    <3> QED
      BY <3>1
  <2>3. CASE user.active = active
    <3>1. user' = [user EXCEPT !.active = active] /\ UNCHANGED <<sess, sver>>
      BY <1>13, <2>1, <2>3 DEF SaveForm
    <3> QED
      BY <2>3, <3>1 DEF UserRow
  <2> QED
    BY <2>2, <2>3
<1>14. ASSUME NEW active \in BOOLEAN, SetActive(active) PROVE Standing(r)
  BY <1>14 DEF SetActive
<1>15. ASSUME NEW new \in Passwords, ResetPassword(new) PROVE Standing(r)
  BY <1>15 DEF ResetPassword
<1>16. CASE ChangeEmail
  BY <1>16 DEF ChangeEmail
<1>17. ASSUME NEW s \in Sessions, ExpireSession(s) PROVE Standing(r)
  BY <1>17 DEF ExpireSession
<1>18. ASSUME NEW s \in Sessions, CleanUpSession(s) PROVE Standing(r)
  BY <1>18 DEF CleanUpSession
<1>19. CASE UNCHANGED vars
  BY <1>19, <1>1 DEF vars
<1> QED
  BY <1>2, <1>3, <1>4, <1>5, <1>6, <1>7, <1>8, <1>9, <1>10, <1>11, <1>12,
     <1>13, <1>14, <1>15, <1>16, <1>17, <1>18, <1>19 DEF Next

-----------------------------------------------------------------------------
(* The refinement. *)

(* Only a login gives a session its first pair. *)
LEMMA PairsStep ==
  ASSUME TypeInv, [Next]_vars
  PROVE  SamePairs \/ Issues
<1> USE DEF pairVars
<1>1. UNCHANGED <<minted, tsess>> => SamePairs \/ Issues
  BY DEF HasPair, SamePairs
<1>2. ASSUME NEW p \in Requests, NEW s \in Sessions,
             StartSession(p, s)
      PROVE  SamePairs \/ Issues
  BY <1>1, <1>2 DEF StartSession
<1>3. ASSUME NEW p \in Requests, NEW t \in Pairs,
             \/ PresentRefresh(p, t) \/ PresentLogout(p, t)
             \/ ReadUser(p, t)
      PROVE  SamePairs \/ Issues
  BY <1>1, <1>3 DEF PresentRefresh, PresentLogout, ReadUser
<1>4. ASSUME NEW p \in Requests,
             \/ Login(p) \/ RevokeReplayed(p) \/ RefuseRotation(p)
             \/ RevokeLoggedOut(p) \/ BlacklistLoggedOut(p)
             \/ SaveProfile(p) \/ DeleteAccount(p) \/ OpenForm(p)
             \/ Abandon(p)
      PROVE  SamePairs \/ Issues
  BY <1>1, <1>4
  DEF Login, RevokeReplayed, RefuseRotation, RevokeLoggedOut,
      BlacklistLoggedOut, SaveProfile, DeleteAccount, OpenForm, Abandon
<1>5. ASSUME NEW p \in Requests, NEW endpoint \in {"change", "save", "delete"},
             CheckSession(p, endpoint)
      PROVE  SamePairs \/ Issues
  BY <1>1, <1>5 DEF CheckSession
<1>6. ASSUME NEW p \in Requests, NEW new \in Passwords,
             \/ ChangePassword(p, new) \/ SavePasswordForm(p, new)
      PROVE  SamePairs \/ Issues
  BY <1>1, <1>6 DEF ChangePassword, SavePasswordForm
<1>7. ASSUME NEW p \in Requests, NEW active \in BOOLEAN,
             SaveForm(p, active)
      PROVE  SamePairs \/ Issues
  BY <1>1, <1>7 DEF SaveForm
<1>8. ASSUME NEW active \in BOOLEAN,
             SetActive(active)
      PROVE  SamePairs \/ Issues
  BY <1>1, <1>8 DEF SetActive
<1>9. ASSUME NEW new \in Passwords,
             ResetPassword(new)
      PROVE  SamePairs \/ Issues
  BY <1>1, <1>9 DEF ResetPassword
<1>10. CASE ChangeEmail
  BY <1>1, <1>10 DEF ChangeEmail
<1>11. ASSUME NEW s \in Sessions,
              \/ ExpireSession(s) \/ CleanUpSession(s)
       PROVE  SamePairs \/ Issues
  BY <1>1, <1>11 DEF ExpireSession, CleanUpSession
<1>12. ASSUME NEW p \in Requests, NEW t \in Pairs, IssuePair(p, t)
       PROVE  SamePairs \/ Issues
  BY <1>12 DEF Issues
<1>13. ASSUME NEW p \in Requests, NEW t \in Pairs, Rotate(p, t)
       PROVE  SamePairs \/ Issues
  <2>1. held[p] \in minted /\ t \notin minted /\ t # held[p]
    BY <1>13 DEF Rotate, Mint, TypeInv, Known
  <2>2. /\ minted' = minted \cup {t}
        /\ tsess' = [tsess EXCEPT ![t] = tsess[held[p]]]
    BY <1>13 DEF Rotate, Mint
  <2>3. \A u \in minted : tsess'[u] = tsess[u]
    BY <2>1, <2>2 DEF TypeInv, TypeOK
  <2>4. tsess'[t] = tsess[held[p]]
    BY <2>2 DEF TypeInv, TypeOK
  <2> QED
    BY <2>1, <2>2, <2>3, <2>4 DEF HasPair, SamePairs
<1>14. CASE UNCHANGED vars
  BY <1>14, <1>1 DEF vars
<1> QED
  BY <1>2, <1>3, <1>4, <1>5, <1>6, <1>7, <1>8, <1>9, <1>10, <1>11, <1>12,
     <1>13, <1>14 DEF Next

(* Access to a session is a matter of its pairs and of its standing. *)
LEMMA AccessIs ==
  ASSUME TypeInv, ClaimsMatch, NEW s \in Sessions
  PROVE  /\ (Access(s) = "none") <=> ~HasPair(s)
         /\ (Access(s) = "granted") <=> (HasPair(s) /\ Standing(s))
         /\ (Access(s) = "withdrawn") <=> (HasPair(s) /\ ~Standing(s))
         /\ HasPair(s) => sess[s] # "none"
  BY DEF TypeInv, TypeOK, ClaimsMatch, Access, Accepted, HasPair, Standing

(* The same in the state after a step. *)
LEMMA AccessWillBe ==
  ASSUME TypeInv', ClaimsMatch', NEW s \in Sessions
  PROVE  /\ (Access(s)' = "none") <=> ~HasPair(s)'
         /\ (Access(s)' = "granted") <=> (HasPair(s)' /\ Standing(s)')
         /\ (Access(s)' = "withdrawn") <=> (HasPair(s)' /\ ~Standing(s)')
  BY DEF TypeInv, TypeOK, ClaimsMatch, Access, Accepted, HasPair, Standing

(* A first pair grants access to the session or comes too late. *)
LEMMA FirstPair ==
  ASSUME TypeInv, ClaimsMatch, TypeInv', ClaimsMatch',
         NEW p \in Requests, NEW t \in Pairs, IssuePair(p, t),
         NEW o \in Sessions, o = opened[p], ~HasPair(o)
  PROVE  SA!Next
<1>1. /\ t \notin minted /\ minted' = minted \cup {t}
      /\ tsess' = [tsess EXCEPT ![t] = o]
      /\ UNCHANGED <<user, sess, sver>>
  BY DEF IssuePair, Mint, rowVars
<1>2. tsess'[t] = o /\ \A u \in minted : tsess'[u] = tsess[u]
  BY <1>1 DEF TypeInv, TypeOK
<1>3. HasPair(o)' /\ \A s \in Sessions \ {o} : HasPair(s)' <=> HasPair(s)
  BY <1>1, <1>2 DEF HasPair
<1>4. \A s \in Sessions : Standing(s)' <=> Standing(s)
  BY <1>1 DEF Standing
<1>5. \A s \in Sessions \ {o} : Access(s)' = Access(s)
  <2> SUFFICES ASSUME NEW s \in Sessions \ {o} PROVE Access(s)' = Access(s)
    OBVIOUS
  <2> QED
    BY <1>3, <1>4, AccessIs, AccessWillBe
<1>6. Access(o) = "none"
  BY AccessIs
<1>7. Access(o)' = "granted" \/ Access(o)' = "withdrawn"
  BY <1>3, AccessWillBe
<1>8. CASE Access(o)' = "granted"
  <2>1. accessBar' = [accessBar EXCEPT ![o] = "granted"]
    BY <1>5, <1>8 DEF accessBar
  <2>2. SA!Grant(o)
    BY <1>6, <2>1 DEF SA!Grant, accessBar
  <2> QED
    BY <2>2 DEF SA!Next
<1>9. CASE Access(o)' = "withdrawn"
  <2>1. accessBar' = [accessBar EXCEPT ![o] = "withdrawn"]
    BY <1>5, <1>9 DEF accessBar
  <2>2. SA!Refuse(o)
    BY <1>6, <2>1 DEF SA!Refuse, accessBar
  <2> QED
    BY <2>2 DEF SA!Next
<1> QED
  BY <1>7, <1>8, <1>9

(* Every step is a step of SessionAccess or changes nobody's access. *)
LEMMA AccessStep ==
  ASSUME IInv, IInv', ~OverlappingSaves, [Next]_vars
  PROVE  [SA!Next]_accessBar
<1> USE DEF IInv
<1>1. CASE SamePairs
  <2> DEFINE W == {s \in Sessions : /\ Access(s) = "granted"
                                    /\ Access(s)' = "withdrawn"}
  <2>1. \A s \in Sessions \ W : Access(s)' = Access(s)
    <3> SUFFICES ASSUME NEW s \in Sessions, s \notin W
                 PROVE  Access(s)' = Access(s)
      OBVIOUS
    <3>1. HasPair(s) /\ Standing(s)' => Standing(s)
      BY AccessIs, NoRevival
    <3> QED
      BY <1>1, <3>1, AccessIs, AccessWillBe DEF SamePairs
  <2>2. accessBar' = [s \in Sessions |->
                        IF s \in W THEN "withdrawn" ELSE accessBar[s]]
    BY <2>1 DEF accessBar
  <2>3. \A s \in W : accessBar[s] = "granted"
    BY DEF accessBar
  <2>4. W \in SUBSET Sessions
    OBVIOUS
  <2> HIDE DEF W
  <2>5. SA!Withdraw(W)
    BY <2>2, <2>3 DEF SA!Withdraw
  <2> QED
    BY <2>4, <2>5 DEF SA!Next
<1>2. CASE ~SamePairs
  <2>1. PICK p \in Requests, t \in Pairs : IssuePair(p, t)
    BY <1>2, PairsStep DEF Issues
  <2>2. ~HasPair(opened[p])
    <3> SUFFICES ASSUME HasPair(opened[p]) PROVE FALSE
      OBVIOUS
    <3>1. /\ t \notin minted /\ minted' = minted \cup {t}
          /\ tsess' = [tsess EXCEPT ![t] = opened[p]]
      BY <2>1 DEF IssuePair, Mint
    <3>2. tsess'[t] = opened[p] /\ \A u \in minted : tsess'[u] = tsess[u]
      BY <3>1 DEF TypeInv, TypeOK
    <3> QED
      BY <1>2, <3>1, <3>2 DEF HasPair, SamePairs
  <2>3. opened[p] \in Sessions
    BY <2>1 DEF IssuePair, TypeInv, Known
  <2> QED
    BY <2>1, <2>2, <2>3, FirstPair
<1> QED
  BY <1>1, <1>2

-----------------------------------------------------------------------------
(* The theorems. *)

LEMMA InitOK == ASSUME Init PROVE IInv
  BY ConstantsAssumption
  DEF Init, IInv, TypeInv, TypeOK, Known, Bounded, VersionsCount, ClaimsMatch,
      LoggedOutClosed, OpenSessionRefreshable, NewUser, UserRow, Versions,
      SessionStates, PC

(* Types, for any interleaving of the requests, overlapping saves included. *)
THEOREM TypeCorrect == Spec => []TypeOK
<1>1. Init => TypeInv
  BY InitOK DEF IInv
<1>2. TypeInv /\ [Next]_vars => TypeInv'
  BY TypeStep
<1>3. TypeInv => TypeOK
  BY DEF TypeInv
<1> QED
  BY <1>1, <1>2, <1>3, PTL DEF Spec

(* A session that is open always has a refresh token that was not used up, *)
(* so that its owner can rotate it or log out with it.                     *)
THEOREM Refreshable == Spec => []OpenSessionRefreshable
<1> DEFINE I == TypeInv /\ ClaimsMatch /\ LoggedOutClosed
                        /\ OpenSessionRefreshable
<1>1. Init => I
  BY InitOK DEF IInv
<1>2. I /\ [Next]_vars => I'
  BY TypeStep, ClaimsStep, RefreshStep
<1>3. I => OpenSessionRefreshable
  OBVIOUS
<1> HIDE DEF I
<1> QED
  BY <1>1, <1>2, <1>3, PTL DEF Spec

(* The inductive invariant. *)
THEOREM Inductive == ASSUME ~OverlappingSaves PROVE Spec => []IInv
<1>1. Init => IInv
  BY InitOK
<1>2. IInv /\ [Next]_vars => IInv'
  BY TypeStep, VersionsStep, ClaimsStep, RefreshStep DEF IInv
<1> QED
  BY <1>1, <1>2, PTL DEF Spec

(* However logins, rotations and changes of the account interleave, an     *)
(* accepted access token belongs to a login after the last change.         *)
THEOREM NoStale == ASSUME ~OverlappingSaves PROVE Spec => []NoStaleAccess
<1>1. IInv => NoStaleAccess
  BY DEF IInv, TypeInv, TypeOK, VersionsCount, ClaimsMatch, NoStaleAccess,
         Accepted
<1>2. Spec => []IInv
  BY Inductive
<1> QED
  BY <1>1, <1>2, PTL

(* No writer undoes a change of the account, or applies half of one. *)
THEOREM ChangesStick ==
  ASSUME ~OverlappingSaves PROVE Spec => AccountChangesStick
<1>1. IInv /\ [Next]_vars => [Sticks]_user
  BY StickStep DEF IInv
<1>2. Spec => []IInv
  BY Inductive
<1> QED
  BY <1>1, <1>2, PTL DEF Spec, AccountChangesStick, Sticks

(* Access that ended stays ended: rows, tokens and requests implement      *)
(* SessionAccess.                                                          *)
THEOREM Implementation ==
  ASSUME ~OverlappingSaves PROVE Spec => ImplementsSessionAccess
<1>1. Init => SA!Init
  BY DEF Init, SA!Init, accessBar, Access
<1>2. IInv /\ IInv' /\ [Next]_vars => [SA!Next]_accessBar
  BY AccessStep
<1>3. Spec => []IInv
  BY Inductive
<1> QED
  BY <1>1, <1>2, <1>3, PTL DEF Spec, ImplementsSessionAccess, SA!Spec
=============================================================================
