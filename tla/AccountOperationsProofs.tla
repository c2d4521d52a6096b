----------------------- MODULE AccountOperationsProofs -----------------------
(***************************************************************************)
(* Safety of AccountOperations for any number of requests, users,          *)
(* addresses and tokens.                                                   *)
(***************************************************************************)
EXTENDS AccountOperations, TLAPS

(* A request in the middle of something knows what it is about, and who    *)
(* holds a row lock finds the row as it was when it took it.               *)
Known ==
    \A p \in Requests :
        /\ pc[p] = "issue" => slot[p] \in Slots /\ Kind(slot[p]) # "change"
        /\ pc[p] = "deliver" => slot[p] \in Slots /\ token[p] \in issued
        /\ pc[p] = "confirm" => slot[p] \in UserSlots /\ token[p] \in Tokens
        /\ pc[p] \in {"create", "apply"} =>
              slot[p] \in Slots /\ Holds(slot[p], token[p])
        /\ pc[p] = "create" => Kind(slot[p]) = "registration"
        /\ pc[p] = "apply" => Kind(slot[p]) = "change"

(* Row locks are exclusive. *)
Exclusive ==
    \A p, q \in Requests :
        pc[p] \in {"create", "apply"} /\ pc[q] \in {"create", "apply"} =>
           (slot[p] = slot[q] => p = q)

(* A token belongs to one slot. *)
Distinct ==
    \A r, s \in Slots : \A t \in Tokens : Holds(r, t) /\ Holds(s, t) => r = s

TypeInv == TypeOK /\ Known /\ Exclusive /\ Distinct

(* The versions of pending email changes, and of one that is applied. *)
VersionsKnown ==
    /\ \A u \in Users : pending[Change(u)] # NoRow =>
           pending[Change(u)].version <= version[u]
    /\ \A p \in Requests : \A u \in Users :
           pc[p] = "apply" /\ slot[p] = Change(u) =>
              pending[Change(u)].version = version[u]

(* What is behind may be pending, but then only with an old version. *)
BehindIsOld ==
    /\ \A t \in behind : \A s \in Slots : Holds(s, t) =>
           Kind(s) = "change" /\ pending[s].version < version[Of(s)]
    /\ NoChangeFromBehind

(* A request that is about to deliver a token is the only one to, and has  *)
(* not done so.                                                            *)
Undelivered ==
    \A p \in Requests : pc[p] = "deliver" =>
        /\ token[p] \notin delivered
        /\ \A q \in Requests :
              pc[q] = "deliver" /\ token[q] = token[p] => q = p

(* DeliveredTokensStay, of a step. *)
Stays ==
    \A s \in Slots : \A t \in delivered :
        Holds(s, t) /\ ~Holds(s, t)' =>
           \/ t \in used'
           \/ pending'[s] # NoRow
           \/ pending[s].expired
           \/ Kind(s) = "registration" /\ Taken(Of(s))
           \/ Kind(s) = "change" /\ Overtaken(s)
           \/ s \in UserSlots /\ ~Exists(Of(s))'

(* What a step that expires a row leaves as it was. *)
Keeps(s) ==
    /\ pending'[s] \in Row /\ pending'[s].token = pending[s].token
    /\ pending'[s].version = pending[s].version
    /\ pending[s] \in Row /\ pending'[s] # NoRow
    /\ \A r \in Slots \ {s} : pending'[r] = pending[r]
    /\ pending' \in [Slots -> Row \cup {NoRow}]

-----------------------------------------------------------------------------

(* A slot is one of the three kinds, and of one user or address. *)
LEMMA SlotShape ==
  /\ \A u \in Users :
       /\ Reset(u) \in UserSlots /\ Kind(Reset(u)) = "reset"
       /\ Of(Reset(u)) = u
       /\ Change(u) \in UserSlots /\ Kind(Change(u)) = "change"
       /\ Of(Change(u)) = u
  /\ \A a \in Addresses :
       /\ Registration(a) \in Slots /\ Kind(Registration(a)) = "registration"
       /\ Of(Registration(a)) = a
  /\ UserSlots \subseteq Slots
  /\ \A s \in Slots :
       /\ Kind(s) = "registration" =>
            /\ Of(s) \in Addresses /\ s = Registration(Of(s))
            /\ s \notin UserSlots
       /\ Kind(s) # "registration" => Of(s) \in Users /\ s \in UserSlots
       /\ Kind(s) = "reset" => s = Reset(Of(s))
       /\ Kind(s) = "change" => s = Change(Of(s))
       /\ Kind(s) \in {"registration", "reset", "change"}
  BY DEF Slots, UserSlots, Registration, Reset, Change, Kind, Of

(* Time changes nothing else about a row. *)
LEMMA ExpiredRow ==
  ASSUME NEW r \in Row, NEW x, x = [r EXCEPT !.expired = TRUE]
  PROVE  x \in Row /\ x # NoRow /\ x.token = r.token /\ x.version = r.version
<1>1. x \in Row /\ x.token = r.token /\ x.version = r.version
  BY DEF Row
<1> QED
  BY <1>1, ConstantsAssumption

(* Neither the token nor the version of the row, nor any other row. *)
LEMMA ExpireKeeps ==
  ASSUME TypeInv, NEW s \in Slots, Expire(s)
  PROVE  Keeps(s)
<1>1. pending[s] \in Row /\ pending \in [Slots -> Row \cup {NoRow}]
  BY DEF Expire, TypeInv, TypeOK
<1>2. pending' = [pending EXCEPT ![s] =
                    [pending[s] EXCEPT !.expired = TRUE]]
  BY DEF Expire
<1>3. pending'[s] = [pending[s] EXCEPT !.expired = TRUE]
  BY <1>1, <1>2
<1>4. \A r \in Slots \ {s} : pending'[r] = pending[r]
  BY <1>1, <1>2
<1>5. /\ pending'[s] \in Row /\ pending'[s] # NoRow
      /\ pending'[s].token = pending[s].token
      /\ pending'[s].version = pending[s].version
  BY ONLY <1>1, <1>3, ExpiredRow
<1>6. pending' \in [Slots -> Row \cup {NoRow}]
  BY <1>1, <1>2, <1>3, <1>5
<1> QED
  BY <1>1, <1>4, <1>5, <1>6 DEF Keeps

(* Types, knowledge and locks. *)
LEMMA TypeStep ==
  ASSUME TypeInv, [Next]_vars
  PROVE  TypeOK'
<1> USE ConstantsAssumption, SlotShape
    DEF At, Finish, UserLocked, RowLocked, WriteRow, DropRow, UseRow,
        ChangeVersion, Revalidated, Holds, Exists, Row, Versions,
        userVars, requestVars, tokenVars
<1> USE DEF TypeInv, TypeOK, Known, Exclusive, Distinct
<1>1. ASSUME NEW p \in Requests, NEW a \in Addresses, AskRegistration(p, a)
      PROVE  TypeOK'
  BY <1>1 DEF AskRegistration
<1>2. ASSUME NEW p \in Requests, NEW a \in Addresses, RefuseRegistration(p, a)
      PROVE  TypeOK'
  BY <1>2 DEF RefuseRegistration
<1>3. ASSUME NEW p \in Requests, NEW a \in Addresses, TakeRegistration(p, a)
      PROVE  TypeOK'
  BY <1>3 DEF TakeRegistration
<1>4. ASSUME NEW p \in Requests, NEW u \in Users, AskReset(p, u) PROVE TypeOK'
  BY <1>4 DEF AskReset
<1>5. ASSUME NEW p \in Requests, NEW u \in Users, CreateAccount(p, u)
      PROVE  TypeOK'
  <2> HIDE DEF Row, Versions
  <2>1. slot[p] \in Slots /\ Of(slot[p]) \in Addresses
    BY <1>5 DEF CreateAccount
  <2>2. token[p] = pending[slot[p]].token /\ token[p] \in issued
    BY <2>1, <1>5 DEF CreateAccount
  <2>3. email' \in [Users -> Addresses \cup {NotYet, Gone}]
    BY <2>1, <1>5 DEF CreateAccount
  <2> QED
    BY <2>1, <2>2, <2>3, <1>5 DEF CreateAccount
<1>6. ASSUME NEW p \in Requests, NEW t \in Tokens, IssueRegistration(p, t)
      PROVE  TypeOK'
  BY <1>6 DEF IssueRegistration
<1>7. ASSUME NEW p \in Requests, NEW t \in Tokens, IssueReset(p, t)
      PROVE  TypeOK'
  BY <1>7 DEF IssueReset
<1>8. ASSUME NEW p \in Requests, NEW u \in Users, NEW a \in Addresses,
             NEW t \in Tokens,
             IssueChange(p, u, a, t)
      PROVE  TypeOK'
  BY <1>8 DEF IssueChange
<1>9. ASSUME NEW p \in Requests, NEW s \in UserSlots, LookUp(p, s)
      PROVE  TypeOK'
  BY <1>9 DEF LookUp
<1>10. ASSUME NEW p \in Requests, Deliver(p) PROVE TypeOK'
  BY <1>10 DEF Deliver
<1>11. ASSUME NEW p \in Requests, CancelUndelivered(p) PROVE TypeOK'
  BY <1>11 DEF CancelUndelivered
<1>12. ASSUME NEW p \in Requests, RefuseGone(p) PROVE TypeOK'
  BY <1>12 DEF RefuseGone
<1>13. ASSUME NEW p \in Requests, RefuseRow(p) PROVE TypeOK'
  BY <1>13 DEF RefuseRow
<1>14. ASSUME NEW p \in Requests, ConfirmReset(p) PROVE TypeOK'
  BY <1>14 DEF ConfirmReset
<1>15. ASSUME NEW p \in Requests, TakeChange(p) PROVE TypeOK'
  BY <1>15 DEF TakeChange
<1>16. ASSUME NEW p \in Requests, ApplyChange(p) PROVE TypeOK'
  BY <1>16 DEF ApplyChange
<1>17. ASSUME NEW p \in Requests, Conflict(p) PROVE TypeOK'
  BY <1>17 DEF Conflict
<1>18. ASSUME NEW p \in Requests, Abandon(p) PROVE TypeOK'
  BY <1>18 DEF Abandon
<1>19. ASSUME NEW u \in Users, ChangeCredentials(u) PROVE TypeOK'
  BY <1>19 DEF ChangeCredentials
<1>20. ASSUME NEW u \in Users, DeleteAccount(u) PROVE TypeOK'
  BY <1>20 DEF DeleteAccount
<1>21. ASSUME NEW s \in Slots, Expire(s) PROVE TypeOK'
  <2>1. Keeps(s)
    BY <1>21, ExpireKeeps
  <2> QED
    BY <2>1, <1>21 DEF Expire, Keeps
<1>22. ASSUME NEW s \in Slots, CleanUp(s) PROVE TypeOK'
  BY <1>22 DEF CleanUp
<1>23. CASE UNCHANGED vars
  BY <1>23 DEF vars
<1> QED
  BY <1>1, <1>2, <1>3, <1>4, <1>5, <1>6, <1>7, <1>8, <1>9, <1>10, <1>11,
     <1>12, <1>13, <1>14, <1>15, <1>16, <1>17, <1>18, <1>19, <1>20, <1>21,
     <1>22, <1>23 DEF Next

(* Nobody changes a row that somebody else has locked. *)
LEMMA KnownStep ==
  ASSUME TypeInv, [Next]_vars
  PROVE  Known'
<1> USE ConstantsAssumption, SlotShape
    DEF At, Finish, UserLocked, RowLocked, WriteRow, DropRow, UseRow,
        ChangeVersion, Revalidated, Holds, Exists, Row, Versions,
        userVars, requestVars, tokenVars
<1> USE DEF TypeInv, TypeOK, Known, Exclusive, Distinct
<1>1. ASSUME NEW p \in Requests, NEW a \in Addresses, AskRegistration(p, a)
      PROVE  Known'
  BY <1>1 DEF AskRegistration
<1>2. ASSUME NEW p \in Requests, NEW a \in Addresses, RefuseRegistration(p, a)
      PROVE  Known'
  BY <1>2 DEF RefuseRegistration
<1>3. ASSUME NEW p \in Requests, NEW a \in Addresses, TakeRegistration(p, a)
      PROVE  Known'
  BY <1>3 DEF TakeRegistration
<1>4. ASSUME NEW p \in Requests, NEW u \in Users, AskReset(p, u) PROVE Known'
  BY <1>4 DEF AskReset
<1>5. ASSUME NEW p \in Requests, NEW u \in Users, CreateAccount(p, u)
      PROVE  Known'
  <2> HIDE DEF Row, Versions
  <2> QED
    BY <1>5 DEF CreateAccount
<1>6. ASSUME NEW p \in Requests, NEW t \in Tokens, IssueRegistration(p, t)
      PROVE  Known'
  BY <1>6 DEF IssueRegistration
<1>7. ASSUME NEW p \in Requests, NEW t \in Tokens, IssueReset(p, t)
      PROVE  Known'
  BY <1>7 DEF IssueReset
<1>8. ASSUME NEW p \in Requests, NEW u \in Users, NEW a \in Addresses,
             NEW t \in Tokens,
             IssueChange(p, u, a, t)
      PROVE  Known'
  BY <1>8 DEF IssueChange
<1>9. ASSUME NEW p \in Requests, NEW s \in UserSlots, LookUp(p, s)
      PROVE  Known'
  BY <1>9 DEF LookUp
<1>10. ASSUME NEW p \in Requests, Deliver(p) PROVE Known'
  BY <1>10 DEF Deliver
<1>11. ASSUME NEW p \in Requests, CancelUndelivered(p) PROVE Known'
  BY <1>11 DEF CancelUndelivered
<1>12. ASSUME NEW p \in Requests, RefuseGone(p) PROVE Known'
  BY <1>12 DEF RefuseGone
<1>13. ASSUME NEW p \in Requests, RefuseRow(p) PROVE Known'
  BY <1>13 DEF RefuseRow
<1>14. ASSUME NEW p \in Requests, ConfirmReset(p) PROVE Known'
  BY <1>14 DEF ConfirmReset
<1>15. ASSUME NEW p \in Requests, TakeChange(p) PROVE Known'
  BY <1>15 DEF TakeChange
<1>16. ASSUME NEW p \in Requests, ApplyChange(p) PROVE Known'
  <2> HIDE DEF Row, Versions
  <2> QED
    BY <1>16 DEF ApplyChange
<1>17. ASSUME NEW p \in Requests, Conflict(p) PROVE Known'
  <2> HIDE DEF Row, Versions
  <2> QED
    BY <1>17 DEF Conflict
<1>18. ASSUME NEW p \in Requests, Abandon(p) PROVE Known'
  <2> HIDE DEF Row, Versions
  <2> QED
    BY <1>18 DEF Abandon
<1>19. ASSUME NEW u \in Users, ChangeCredentials(u) PROVE Known'
  BY <1>19 DEF ChangeCredentials
<1>20. ASSUME NEW u \in Users, DeleteAccount(u) PROVE Known'
  BY <1>20 DEF DeleteAccount
<1>21. ASSUME NEW s \in Slots, Expire(s) PROVE Known'
  <2>1. Keeps(s)
    BY <1>21, ExpireKeeps
  <2> QED
    BY <2>1, <1>21 DEF Expire, Keeps
<1>22. ASSUME NEW s \in Slots, CleanUp(s) PROVE Known'
  BY <1>22 DEF CleanUp
<1>23. CASE UNCHANGED vars
  BY <1>23 DEF vars
<1> QED
  BY <1>1, <1>2, <1>3, <1>4, <1>5, <1>6, <1>7, <1>8, <1>9, <1>10, <1>11,
     <1>12, <1>13, <1>14, <1>15, <1>16, <1>17, <1>18, <1>19, <1>20, <1>21,
     <1>22, <1>23 DEF Next

(* Who takes a lock finds it free. *)
LEMMA ExclusiveStep ==
  ASSUME TypeInv, [Next]_vars
  PROVE  Exclusive'
<1> USE ConstantsAssumption, SlotShape
    DEF At, Finish, UserLocked, RowLocked, WriteRow, DropRow, UseRow,
        ChangeVersion, Revalidated, Holds, Exists, Row, Versions,
        userVars, requestVars, tokenVars
<1> USE DEF TypeInv, TypeOK, Known, Exclusive, Distinct
<1>1. ASSUME NEW p \in Requests, NEW a \in Addresses, AskRegistration(p, a)
      PROVE  Exclusive'
  BY <1>1 DEF AskRegistration
<1>2. ASSUME NEW p \in Requests, NEW a \in Addresses, RefuseRegistration(p, a)
      PROVE  Exclusive'
  BY <1>2 DEF RefuseRegistration
<1>3. ASSUME NEW p \in Requests, NEW a \in Addresses, TakeRegistration(p, a)
      PROVE  Exclusive'
  BY <1>3 DEF TakeRegistration
<1>4. ASSUME NEW p \in Requests, NEW u \in Users, AskReset(p, u)
      PROVE  Exclusive'
  BY <1>4 DEF AskReset
<1>5. ASSUME NEW p \in Requests, NEW u \in Users, CreateAccount(p, u)
      PROVE  Exclusive'
  <2>1. \A q \in Requests : pc'[q] \in {"create", "apply"} =>
          pc'[q] = pc[q] /\ slot'[q] = slot[q]
    BY <1>5 DEF CreateAccount
  <2> QED
    BY <2>1
<1>6. ASSUME NEW p \in Requests, NEW t \in Tokens, IssueRegistration(p, t)
      PROVE  Exclusive'
  BY <1>6 DEF IssueRegistration
<1>7. ASSUME NEW p \in Requests, NEW t \in Tokens, IssueReset(p, t)
      PROVE  Exclusive'
  BY <1>7 DEF IssueReset
<1>8. ASSUME NEW p \in Requests, NEW u \in Users, NEW a \in Addresses,
             NEW t \in Tokens,
             IssueChange(p, u, a, t)
      PROVE  Exclusive'
  BY <1>8 DEF IssueChange
<1>9. ASSUME NEW p \in Requests, NEW s \in UserSlots, LookUp(p, s)
      PROVE  Exclusive'
  BY <1>9 DEF LookUp
<1>10. ASSUME NEW p \in Requests, Deliver(p) PROVE Exclusive'
  BY <1>10 DEF Deliver
<1>11. ASSUME NEW p \in Requests, CancelUndelivered(p) PROVE Exclusive'
  BY <1>11 DEF CancelUndelivered
<1>12. ASSUME NEW p \in Requests, RefuseGone(p) PROVE Exclusive'
  BY <1>12 DEF RefuseGone
<1>13. ASSUME NEW p \in Requests, RefuseRow(p) PROVE Exclusive'
  BY <1>13 DEF RefuseRow
<1>14. ASSUME NEW p \in Requests, ConfirmReset(p) PROVE Exclusive'
  BY <1>14 DEF ConfirmReset
<1>15. ASSUME NEW p \in Requests, TakeChange(p) PROVE Exclusive'
  BY <1>15 DEF TakeChange
<1>16. ASSUME NEW p \in Requests, ApplyChange(p) PROVE Exclusive'
  <2>1. \A q \in Requests : pc'[q] \in {"create", "apply"} =>
          pc'[q] = pc[q] /\ slot'[q] = slot[q]
    BY <1>16 DEF ApplyChange
  <2> QED
    BY <2>1
<1>17. ASSUME NEW p \in Requests, Conflict(p) PROVE Exclusive'
  <2>1. \A q \in Requests : pc'[q] \in {"create", "apply"} =>
          pc'[q] = pc[q] /\ slot'[q] = slot[q]
    BY <1>17 DEF Conflict
  <2> QED
    BY <2>1
<1>18. ASSUME NEW p \in Requests, Abandon(p) PROVE Exclusive'
  <2>1. \A q \in Requests : pc'[q] \in {"create", "apply"} =>
          pc'[q] = pc[q] /\ slot'[q] = slot[q]
    BY <1>18 DEF Abandon
  <2> QED
    BY <2>1
<1>19. ASSUME NEW u \in Users, ChangeCredentials(u) PROVE Exclusive'
  BY <1>19 DEF ChangeCredentials
<1>20. ASSUME NEW u \in Users, DeleteAccount(u) PROVE Exclusive'
  BY <1>20 DEF DeleteAccount
<1>21. ASSUME NEW s \in Slots, Expire(s) PROVE Exclusive'
  BY <1>21 DEF Expire
<1>22. ASSUME NEW s \in Slots, CleanUp(s) PROVE Exclusive'
  BY <1>22 DEF CleanUp
<1>23. CASE UNCHANGED vars
  BY <1>23 DEF vars
<1> QED
  BY <1>1, <1>2, <1>3, <1>4, <1>5, <1>6, <1>7, <1>8, <1>9, <1>10, <1>11,
     <1>12, <1>13, <1>14, <1>15, <1>16, <1>17, <1>18, <1>19, <1>20, <1>21,
     <1>22, <1>23 DEF Next

(* Rows get fresh tokens. *)
LEMMA DistinctStep ==
  ASSUME TypeInv, [Next]_vars
  PROVE  Distinct'
<1> USE ConstantsAssumption, SlotShape
    DEF At, Finish, UserLocked, RowLocked, WriteRow, DropRow, UseRow,
        ChangeVersion, Revalidated, Holds, Exists, Row, Versions,
        userVars, requestVars, tokenVars
<1> USE DEF TypeInv, TypeOK, Known, Exclusive, Distinct
<1>1. ASSUME NEW p \in Requests, NEW a \in Addresses, AskRegistration(p, a)
      PROVE  Distinct'
  BY <1>1 DEF AskRegistration
<1>2. ASSUME NEW p \in Requests, NEW a \in Addresses, RefuseRegistration(p, a)
      PROVE  Distinct'
  BY <1>2 DEF RefuseRegistration
<1>3. ASSUME NEW p \in Requests, NEW a \in Addresses, TakeRegistration(p, a)
      PROVE  Distinct'
  BY <1>3 DEF TakeRegistration
<1>4. ASSUME NEW p \in Requests, NEW u \in Users, AskReset(p, u)
      PROVE  Distinct'
  BY <1>4 DEF AskReset
<1>5. ASSUME NEW p \in Requests, NEW u \in Users, CreateAccount(p, u)
      PROVE  Distinct'
  BY <1>5 DEF CreateAccount
<1>6. ASSUME NEW p \in Requests, NEW t \in Tokens, IssueRegistration(p, t)
      PROVE  Distinct'
  BY <1>6 DEF IssueRegistration
<1>7. ASSUME NEW p \in Requests, NEW t \in Tokens, IssueReset(p, t)
      PROVE  Distinct'
  BY <1>7 DEF IssueReset
<1>8. ASSUME NEW p \in Requests, NEW u \in Users, NEW a \in Addresses,
             NEW t \in Tokens,
             IssueChange(p, u, a, t)
      PROVE  Distinct'
  BY <1>8 DEF IssueChange
<1>9. ASSUME NEW p \in Requests, NEW s \in UserSlots, LookUp(p, s)
      PROVE  Distinct'
  BY <1>9 DEF LookUp
<1>10. ASSUME NEW p \in Requests, Deliver(p) PROVE Distinct'
  BY <1>10 DEF Deliver
<1>11. ASSUME NEW p \in Requests, CancelUndelivered(p) PROVE Distinct'
  BY <1>11 DEF CancelUndelivered
<1>12. ASSUME NEW p \in Requests, RefuseGone(p) PROVE Distinct'
  BY <1>12 DEF RefuseGone
<1>13. ASSUME NEW p \in Requests, RefuseRow(p) PROVE Distinct'
  BY <1>13 DEF RefuseRow
<1>14. ASSUME NEW p \in Requests, ConfirmReset(p) PROVE Distinct'
  BY <1>14 DEF ConfirmReset
<1>15. ASSUME NEW p \in Requests, TakeChange(p) PROVE Distinct'
  BY <1>15 DEF TakeChange
<1>16. ASSUME NEW p \in Requests, ApplyChange(p) PROVE Distinct'
  BY <1>16 DEF ApplyChange
<1>17. ASSUME NEW p \in Requests, Conflict(p) PROVE Distinct'
  BY <1>17 DEF Conflict
<1>18. ASSUME NEW p \in Requests, Abandon(p) PROVE Distinct'
  BY <1>18 DEF Abandon
<1>19. ASSUME NEW u \in Users, ChangeCredentials(u) PROVE Distinct'
  BY <1>19 DEF ChangeCredentials
<1>20. ASSUME NEW u \in Users, DeleteAccount(u) PROVE Distinct'
  BY <1>20 DEF DeleteAccount
<1>21. ASSUME NEW s \in Slots, Expire(s) PROVE Distinct'
  <2> HIDE DEF Row, Versions
  <2> QED
    BY <1>21 DEF Expire
<1>22. ASSUME NEW s \in Slots, CleanUp(s) PROVE Distinct'
  BY <1>22 DEF CleanUp
<1>23. CASE UNCHANGED vars
  BY <1>23 DEF vars
<1> QED
  BY <1>1, <1>2, <1>3, <1>4, <1>5, <1>6, <1>7, <1>8, <1>9, <1>10, <1>11,
     <1>12, <1>13, <1>14, <1>15, <1>16, <1>17, <1>18, <1>19, <1>20, <1>21,
     <1>22, <1>23 DEF Next

(* A pending email change is never ahead of its user. *)
LEMMA VersionsStep ==
  ASSUME TypeInv, VersionsKnown, [Next]_vars
  PROVE  VersionsKnown'
<1> USE ConstantsAssumption, SlotShape
    DEF At, Finish, UserLocked, RowLocked, WriteRow, DropRow, UseRow,
        ChangeVersion, Revalidated, Holds, Exists, Row, Versions,
        userVars, requestVars, tokenVars
<1> USE DEF TypeInv, TypeOK, Known, Exclusive, VersionsKnown
<1>1. ASSUME NEW p \in Requests, NEW a \in Addresses, AskRegistration(p, a)
      PROVE  VersionsKnown'
  BY <1>1 DEF AskRegistration
<1>2. ASSUME NEW p \in Requests, NEW a \in Addresses, RefuseRegistration(p, a)
      PROVE  VersionsKnown'
  BY <1>2 DEF RefuseRegistration
<1>3. ASSUME NEW p \in Requests, NEW a \in Addresses, TakeRegistration(p, a)
      PROVE  VersionsKnown'
  BY <1>3 DEF TakeRegistration
<1>4. ASSUME NEW p \in Requests, NEW u \in Users, AskReset(p, u)
      PROVE  VersionsKnown'
  BY <1>4 DEF AskReset
<1>5. ASSUME NEW p \in Requests, NEW u \in Users, CreateAccount(p, u)
      PROVE  VersionsKnown'
  BY <1>5 DEF CreateAccount
<1>6. ASSUME NEW p \in Requests, NEW t \in Tokens, IssueRegistration(p, t)
      PROVE  VersionsKnown'
  BY <1>6 DEF IssueRegistration
<1>7. ASSUME NEW p \in Requests, NEW t \in Tokens, IssueReset(p, t)
      PROVE  VersionsKnown'
  BY <1>7 DEF IssueReset
<1>8. ASSUME NEW p \in Requests, NEW u \in Users, NEW a \in Addresses,
             NEW t \in Tokens,
             IssueChange(p, u, a, t)
      PROVE  VersionsKnown'
  BY <1>8 DEF IssueChange
<1>9. ASSUME NEW p \in Requests, NEW s \in UserSlots, LookUp(p, s)
      PROVE  VersionsKnown'
  BY <1>9 DEF LookUp
<1>10. ASSUME NEW p \in Requests, Deliver(p) PROVE VersionsKnown'
  BY <1>10 DEF Deliver
<1>11. ASSUME NEW p \in Requests, CancelUndelivered(p) PROVE VersionsKnown'
  BY <1>11 DEF CancelUndelivered
<1>12. ASSUME NEW p \in Requests, RefuseGone(p) PROVE VersionsKnown'
  BY <1>12 DEF RefuseGone
<1>13. ASSUME NEW p \in Requests, RefuseRow(p) PROVE VersionsKnown'
  BY <1>13 DEF RefuseRow
<1>14. ASSUME NEW p \in Requests, ConfirmReset(p) PROVE VersionsKnown'
  BY <1>14 DEF ConfirmReset
<1>15. ASSUME NEW p \in Requests, TakeChange(p) PROVE VersionsKnown'
  BY <1>15 DEF TakeChange, Overtaken
<1>16. ASSUME NEW p \in Requests, ApplyChange(p) PROVE VersionsKnown'
  BY <1>16 DEF ApplyChange
<1>17. ASSUME NEW p \in Requests, Conflict(p) PROVE VersionsKnown'
  BY <1>17 DEF Conflict
<1>18. ASSUME NEW p \in Requests, Abandon(p) PROVE VersionsKnown'
  BY <1>18 DEF Abandon
<1>19. ASSUME NEW u \in Users, ChangeCredentials(u) PROVE VersionsKnown'
  BY <1>19 DEF ChangeCredentials
<1>20. ASSUME NEW u \in Users, DeleteAccount(u) PROVE VersionsKnown'
  BY <1>20 DEF DeleteAccount
<1>21. ASSUME NEW s \in Slots, Expire(s) PROVE VersionsKnown'
  <2>1. Keeps(s)
    BY <1>21, ExpireKeeps
  <2> QED
    BY <2>1, <1>21 DEF Expire, Keeps
<1>22. ASSUME NEW s \in Slots, CleanUp(s) PROVE VersionsKnown'
  BY <1>22 DEF CleanUp
<1>23. CASE UNCHANGED vars
  BY <1>23 DEF vars
<1> QED
  BY <1>1, <1>2, <1>3, <1>4, <1>5, <1>6, <1>7, <1>8, <1>9, <1>10, <1>11,
     <1>12, <1>13, <1>14, <1>15, <1>16, <1>17, <1>18, <1>19, <1>20, <1>21,
     <1>22, <1>23 DEF Next

(* Whoever changes the credentials of a user leaves a pending change behind. *)
LEMMA BehindStep ==
  ASSUME TypeInv, VersionsKnown, BehindIsOld, [Next]_vars
  PROVE  BehindIsOld'
<1> USE ConstantsAssumption, SlotShape
    DEF At, Finish, UserLocked, RowLocked, WriteRow, DropRow, UseRow,
        ChangeVersion, Revalidated, Holds, Exists, Row, Versions,
        userVars, requestVars, tokenVars
<1> USE DEF TypeInv, TypeOK, Known, Distinct
<1> USE DEF VersionsKnown, BehindIsOld, NoChangeFromBehind
<1>1. ASSUME NEW p \in Requests, NEW a \in Addresses, AskRegistration(p, a)
      PROVE  BehindIsOld'
  BY <1>1 DEF AskRegistration
<1>2. ASSUME NEW p \in Requests, NEW a \in Addresses, RefuseRegistration(p, a)
      PROVE  BehindIsOld'
  BY <1>2 DEF RefuseRegistration
<1>3. ASSUME NEW p \in Requests, NEW a \in Addresses, TakeRegistration(p, a)
      PROVE  BehindIsOld'
  BY <1>3 DEF TakeRegistration
<1>4. ASSUME NEW p \in Requests, NEW u \in Users, AskReset(p, u)
      PROVE  BehindIsOld'
  BY <1>4 DEF AskReset
<1>5. ASSUME NEW p \in Requests, NEW u \in Users, CreateAccount(p, u)
      PROVE  BehindIsOld'
  BY <1>5 DEF CreateAccount
<1>6. ASSUME NEW p \in Requests, NEW t \in Tokens, IssueRegistration(p, t)
      PROVE  BehindIsOld'
  BY <1>6 DEF IssueRegistration
<1>7. ASSUME NEW p \in Requests, NEW t \in Tokens, IssueReset(p, t)
      PROVE  BehindIsOld'
  BY <1>7 DEF IssueReset
<1>8. ASSUME NEW p \in Requests, NEW u \in Users, NEW a \in Addresses,
             NEW t \in Tokens,
             IssueChange(p, u, a, t)
      PROVE  BehindIsOld'
  BY <1>8 DEF IssueChange
<1>9. ASSUME NEW p \in Requests, NEW s \in UserSlots, LookUp(p, s)
      PROVE  BehindIsOld'
  BY <1>9 DEF LookUp
<1>10. ASSUME NEW p \in Requests, Deliver(p) PROVE BehindIsOld'
  BY <1>10 DEF Deliver
<1>11. ASSUME NEW p \in Requests, CancelUndelivered(p) PROVE BehindIsOld'
  <2>1. CASE Holds(slot[p], token[p])
    BY <1>11, <2>1 DEF CancelUndelivered
  <2>2. CASE ~Holds(slot[p], token[p])
    <3>1. UNCHANGED <<pending, behind, used, version>>
      BY <1>11, <2>2 DEF CancelUndelivered
    <3> QED
      BY <3>1
  <2> QED
    BY <2>1, <2>2
<1>12. ASSUME NEW p \in Requests, RefuseGone(p) PROVE BehindIsOld'
  BY <1>12 DEF RefuseGone
<1>13. ASSUME NEW p \in Requests, RefuseRow(p) PROVE BehindIsOld'
  BY <1>13 DEF RefuseRow
<1>14. ASSUME NEW p \in Requests, ConfirmReset(p) PROVE BehindIsOld'
  BY <1>14 DEF ConfirmReset
<1>15. ASSUME NEW p \in Requests, TakeChange(p) PROVE BehindIsOld'
  BY <1>15 DEF TakeChange
<1>16. ASSUME NEW p \in Requests, ApplyChange(p) PROVE BehindIsOld'
  BY <1>16 DEF ApplyChange
<1>17. ASSUME NEW p \in Requests, Conflict(p) PROVE BehindIsOld'
  BY <1>17 DEF Conflict
<1>18. ASSUME NEW p \in Requests, Abandon(p) PROVE BehindIsOld'
  BY <1>18 DEF Abandon
<1>19. ASSUME NEW u \in Users, ChangeCredentials(u) PROVE BehindIsOld'
  BY <1>19 DEF ChangeCredentials
<1>20. ASSUME NEW u \in Users, DeleteAccount(u) PROVE BehindIsOld'
  BY <1>20 DEF DeleteAccount
<1>21. ASSUME NEW s \in Slots, Expire(s) PROVE BehindIsOld'
  <2>1. Keeps(s)
    BY <1>21, ExpireKeeps
  <2> QED
    BY <2>1, <1>21 DEF Expire, Keeps
<1>22. ASSUME NEW s \in Slots, CleanUp(s) PROVE BehindIsOld'
  BY <1>22 DEF CleanUp
<1>23. CASE UNCHANGED vars
  BY <1>23 DEF vars
<1> QED
  BY <1>1, <1>2, <1>3, <1>4, <1>5, <1>6, <1>7, <1>8, <1>9, <1>10, <1>11,
     <1>12, <1>13, <1>14, <1>15, <1>16, <1>17, <1>18, <1>19, <1>20, <1>21,
     <1>22, <1>23 DEF Next

(* Nobody writes an address that is taken. *)
LEMMA AddressStep ==
  ASSUME TypeInv, OneAccountPerAddress, [Next]_vars
  PROVE  OneAccountPerAddress'
<1> USE ConstantsAssumption, SlotShape DEF Taken, TakenFrom, Exists, userVars
<1> USE DEF OneAccountPerAddress, TypeInv, TypeOK
<1>1. ASSUME NEW p \in Requests, NEW a \in Addresses, AskRegistration(p, a)
      PROVE  OneAccountPerAddress'
  BY <1>1 DEF AskRegistration
<1>2. ASSUME NEW p \in Requests, NEW a \in Addresses, RefuseRegistration(p, a)
      PROVE  OneAccountPerAddress'
  BY <1>2 DEF RefuseRegistration
<1>3. ASSUME NEW p \in Requests, NEW a \in Addresses, TakeRegistration(p, a)
      PROVE  OneAccountPerAddress'
  BY <1>3 DEF TakeRegistration
<1>4. ASSUME NEW p \in Requests, NEW u \in Users, AskReset(p, u)
      PROVE  OneAccountPerAddress'
  BY <1>4 DEF AskReset
<1>5. ASSUME NEW p \in Requests, NEW u \in Users, CreateAccount(p, u)
      PROVE  OneAccountPerAddress'
  BY <1>5 DEF CreateAccount
<1>6. ASSUME NEW p \in Requests, NEW t \in Tokens, IssueRegistration(p, t)
      PROVE  OneAccountPerAddress'
  BY <1>6 DEF IssueRegistration
<1>7. ASSUME NEW p \in Requests, NEW t \in Tokens, IssueReset(p, t)
      PROVE  OneAccountPerAddress'
  BY <1>7 DEF IssueReset
<1>8. ASSUME NEW p \in Requests, NEW u \in Users, NEW a \in Addresses,
             NEW t \in Tokens,
             IssueChange(p, u, a, t)
      PROVE  OneAccountPerAddress'
  BY <1>8 DEF IssueChange
<1>9. ASSUME NEW p \in Requests, NEW s \in UserSlots, LookUp(p, s)
      PROVE  OneAccountPerAddress'
  BY <1>9 DEF LookUp
<1>10. ASSUME NEW p \in Requests, Deliver(p) PROVE OneAccountPerAddress'
  BY <1>10 DEF Deliver
<1>11. ASSUME NEW p \in Requests, CancelUndelivered(p)
       PROVE  OneAccountPerAddress'
  BY <1>11 DEF CancelUndelivered
<1>12. ASSUME NEW p \in Requests, RefuseGone(p) PROVE OneAccountPerAddress'
  BY <1>12 DEF RefuseGone
<1>13. ASSUME NEW p \in Requests, RefuseRow(p) PROVE OneAccountPerAddress'
  BY <1>13 DEF RefuseRow
<1>14. ASSUME NEW p \in Requests, ConfirmReset(p) PROVE OneAccountPerAddress'
  BY <1>14 DEF ConfirmReset
<1>15. ASSUME NEW p \in Requests, TakeChange(p) PROVE OneAccountPerAddress'
  BY <1>15 DEF TakeChange
<1>16. ASSUME NEW p \in Requests, ApplyChange(p) PROVE OneAccountPerAddress'
  BY <1>16 DEF ApplyChange
<1>17. ASSUME NEW p \in Requests, Conflict(p) PROVE OneAccountPerAddress'
  BY <1>17 DEF Conflict
<1>18. ASSUME NEW p \in Requests, Abandon(p) PROVE OneAccountPerAddress'
  BY <1>18 DEF Abandon
<1>19. ASSUME NEW u \in Users, ChangeCredentials(u)
       PROVE  OneAccountPerAddress'
  BY <1>19 DEF ChangeCredentials
<1>20. ASSUME NEW u \in Users, DeleteAccount(u) PROVE OneAccountPerAddress'
  BY <1>20 DEF DeleteAccount
<1>21. ASSUME NEW s \in Slots, Expire(s) PROVE OneAccountPerAddress'
  BY <1>21 DEF Expire
<1>22. ASSUME NEW s \in Slots, CleanUp(s) PROVE OneAccountPerAddress'
  BY <1>22 DEF CleanUp
<1>23. CASE UNCHANGED vars
  BY <1>23 DEF vars
<1> QED
  BY <1>1, <1>2, <1>3, <1>4, <1>5, <1>6, <1>7, <1>8, <1>9, <1>10, <1>11,
     <1>12, <1>13, <1>14, <1>15, <1>16, <1>17, <1>18, <1>19, <1>20, <1>21,
     <1>22, <1>23 DEF Next

-----------------------------------------------------------------------------
(* The refinement. *)

LEMMA WriteIssues ==
  ASSUME TypeInv, NEW s \in Slots, NEW t \in Tokens, NEW a \in Addresses,
         NEW v \in Versions, WriteRow(s, t, a, v)
  PROVE  SUT!Next
<1> DEFINE r == [token |-> t, expired |-> FALSE, to |-> a, version |-> v]
<1>1. r \in Row /\ r.token = t
  BY DEF Row
<1>2. pending' = [pending EXCEPT ![s] = r]
  BY DEF WriteRow
<1> HIDE DEF r
<1>3. pending \in [Slots -> Row \cup {NoRow}]
  BY DEF TypeInv, TypeOK
<1>4. r # NoRow
  BY <1>1, ConstantsAssumption
<1>5. liveBar' = [liveBar EXCEPT ![s] = t]
  BY <1>1, <1>2, <1>3, <1>4 DEF liveBar
<1>6. SUT!Issue(s, t)
  BY <1>5 DEF SUT!Issue, WriteRow
<1> QED
  BY <1>6 DEF SUT!Next

LEMMA UseUses ==
  ASSUME TypeInv, NEW s \in Slots, pending[s] # NoRow, UseRow(s)
  PROVE  SUT!Next
<1>1. pending \in [Slots -> Row \cup {NoRow}]
  BY DEF TypeInv, TypeOK
<1>2. liveBar[s] = pending[s].token
  BY DEF liveBar
<1>3. liveBar[s] \in Tokens \ used
  BY <1>2 DEF TypeInv, TypeOK
<1>4. liveBar' = [liveBar EXCEPT ![s] = NoToken]
  BY <1>1 DEF UseRow, liveBar
<1>5. SUT!Use(s)
  BY <1>2, <1>3, <1>4 DEF SUT!Use, UseRow
<1> QED
  BY <1>5 DEF SUT!Next

LEMMA DropDrops ==
  ASSUME TypeInv, NEW s \in Slots, DropRow(s)
  PROVE  SUT!Next
<1>1. pending \in [Slots -> Row \cup {NoRow}]
  BY DEF TypeInv, TypeOK
<1>2. liveBar' = [r \in Slots |-> IF r \in {s} THEN NoToken ELSE liveBar[r]]
  BY <1>1 DEF DropRow, liveBar
<1>3. SUT!Drop({s})
  BY <1>2 DEF SUT!Drop, DropRow, tokenVars
<1> QED
  BY <1>3 DEF SUT!Next

(* Every step is one of the abstract tokens, or changes none. *)
LEMMA TokensStep ==
  ASSUME TypeInv, [Next]_vars
  PROVE  [SUT!Next]_(SUT!vars)
<1> USE ConstantsAssumption, SlotShape
    DEF Holds, Exists, Revalidated, Versions, tokenVars
<1> USE DEF TypeInv, TypeOK, Known
<1>1. UNCHANGED <<pending, issued, used>> => [SUT!Next]_(SUT!vars)
  BY DEF liveBar, SUT!vars
<1>2. ASSUME NEW p \in Requests, NEW a \in Addresses,
             \/ AskRegistration(p, a) \/ TakeRegistration(p, a)
      PROVE  [SUT!Next]_(SUT!vars)
  BY <1>1, <1>2 DEF AskRegistration, TakeRegistration
<1>3. ASSUME NEW p \in Requests, NEW u \in Users,
             AskReset(p, u)
      PROVE  [SUT!Next]_(SUT!vars)
  BY <1>1, <1>3 DEF AskReset
<1>4. ASSUME NEW p \in Requests, NEW s \in UserSlots,
             LookUp(p, s)
      PROVE  [SUT!Next]_(SUT!vars)
  BY <1>1, <1>4 DEF LookUp
<1>5. ASSUME NEW p \in Requests,
             \/ Deliver(p) \/ RefuseGone(p) \/ TakeChange(p) \/ Conflict(p)
             \/ Abandon(p)
      PROVE  [SUT!Next]_(SUT!vars)
  BY <1>1, <1>5 DEF Deliver, RefuseGone, TakeChange, Conflict, Abandon
<1>6. ASSUME NEW u \in Users,
             ChangeCredentials(u)
      PROVE  [SUT!Next]_(SUT!vars)
  BY <1>1, <1>6 DEF ChangeCredentials
<1>7. ASSUME NEW p \in Requests, NEW a \in Addresses, RefuseRegistration(p, a)
      PROVE  [SUT!Next]_(SUT!vars)
  <2>1. Registration(a) \in Slots /\ DropRow(Registration(a))
    BY <1>7 DEF RefuseRegistration
  <2> QED
    BY <2>1, DropDrops
<1>8. ASSUME NEW p \in Requests, NEW u \in Users, CreateAccount(p, u)
      PROVE  [SUT!Next]_(SUT!vars)
  <2>1. slot[p] \in Slots /\ pending[slot[p]] # NoRow
    BY <1>8 DEF CreateAccount
  <2>2. UseRow(slot[p])
    BY <1>8 DEF CreateAccount
  <2> QED
    BY <2>1, <2>2, UseUses
<1>9. ASSUME NEW p \in Requests, NEW t \in Tokens, IssueRegistration(p, t)
      PROVE  [SUT!Next]_(SUT!vars)
  <2>1. slot[p] \in Slots /\ Of(slot[p]) \in Addresses /\ 1 \in Versions
    BY <1>9 DEF IssueRegistration
  <2>2. WriteRow(slot[p], t, Of(slot[p]), 1)
    BY <1>9 DEF IssueRegistration
  <2> QED
    BY <2>1, <2>2, WriteIssues
<1>10. ASSUME NEW p \in Requests, NEW t \in Tokens, IssueReset(p, t)
       PROVE  [SUT!Next]_(SUT!vars)
  <2>1. slot[p] \in Slots /\ email[Of(slot[p])] \in Addresses /\ 1 \in Versions
    BY <1>10 DEF IssueReset
  <2>2. WriteRow(slot[p], t, email[Of(slot[p])], 1)
    BY <1>10 DEF IssueReset
  <2> QED
    BY <2>1, <2>2, WriteIssues
<1>11. ASSUME NEW p \in Requests, NEW u \in Users, NEW a \in Addresses,
              NEW t \in Tokens,
              IssueChange(p, u, a, t)
       PROVE  [SUT!Next]_(SUT!vars)
  <2>1. Change(u) \in Slots /\ a \in Addresses /\ version[u] \in Versions
    BY <1>11 DEF IssueChange
  <2>2. WriteRow(Change(u), t, a, version[u])
    BY <1>11 DEF IssueChange
  <2> QED
    BY <2>1, <2>2, WriteIssues
<1>12. ASSUME NEW p \in Requests, CancelUndelivered(p)
       PROVE  [SUT!Next]_(SUT!vars)
  <2>1. CASE Holds(slot[p], token[p])
    <3>1. slot[p] \in Slots /\ DropRow(slot[p])
      BY <1>12, <2>1 DEF CancelUndelivered
    <3> QED
      BY <3>1, DropDrops
  <2>2. CASE ~Holds(slot[p], token[p])
    BY <1>1, <1>12, <2>2 DEF CancelUndelivered
  <2> QED
    BY <2>1, <2>2
<1>13. ASSUME NEW p \in Requests, RefuseRow(p) PROVE [SUT!Next]_(SUT!vars)
  <2>1. slot[p] \in Slots /\ DropRow(slot[p])
    BY <1>13 DEF RefuseRow
  <2> QED
    BY <2>1, DropDrops
<1>14. ASSUME NEW p \in Requests, ConfirmReset(p) PROVE [SUT!Next]_(SUT!vars)
  <2>1. slot[p] \in Slots /\ pending[slot[p]] # NoRow
    BY <1>14 DEF ConfirmReset
  <2>2. UseRow(slot[p])
    BY <1>14 DEF ConfirmReset
  <2> QED
    BY <2>1, <2>2, UseUses
<1>15. ASSUME NEW p \in Requests, ApplyChange(p) PROVE [SUT!Next]_(SUT!vars)
  <2>1. slot[p] \in Slots /\ pending[slot[p]] # NoRow
    BY <1>15 DEF ApplyChange
  <2>2. UseRow(slot[p])
    BY <1>15 DEF ApplyChange
  <2> QED
    BY <2>1, <2>2, UseUses
<1>16. ASSUME NEW u \in Users, DeleteAccount(u) PROVE [SUT!Next]_(SUT!vars)
  <2>1. liveBar' = [r \in Slots |-> IF r \in {Reset(u), Change(u)}
                                     THEN NoToken ELSE liveBar[r]]
    BY <1>16 DEF DeleteAccount, liveBar
  <2>2. SUT!Drop({Reset(u), Change(u)})
    BY <1>16, <2>1 DEF DeleteAccount, SUT!Drop
  <2> QED
    BY <2>2 DEF SUT!Next
<1>17. ASSUME NEW s \in Slots, Expire(s) PROVE [SUT!Next]_(SUT!vars)
  <2>1. Keeps(s)
    BY <1>17, ExpireKeeps
  <2>2. liveBar' = liveBar
    BY <2>1, <1>17 DEF Expire, Keeps, liveBar
  <2> QED
    BY <2>2, <1>17 DEF Expire, SUT!vars
<1>18. ASSUME NEW s \in Slots, CleanUp(s) PROVE [SUT!Next]_(SUT!vars)
  <2>1. s \in Slots /\ DropRow(s)
    BY <1>18 DEF CleanUp
  <2> QED
    BY <2>1, DropDrops
<1>19. CASE UNCHANGED vars
  BY <1>19, <1>1 DEF vars
<1> QED
  BY <1>2, <1>3, <1>4, <1>5, <1>6, <1>7, <1>8, <1>9, <1>10, <1>11, <1>12,
     <1>13, <1>14, <1>15, <1>16, <1>17, <1>18, <1>19 DEF Next

-----------------------------------------------------------------------------
(* The theorems. *)

(* Tokens are issued once.                                                 *)
LEMMA UndeliveredStep ==
  ASSUME TypeInv, Undelivered, [Next]_vars
  PROVE  Undelivered'
<1> USE DEF At, Finish, WriteRow, DropRow, UseRow, ChangeVersion, userVars,
        requestVars, tokenVars, TypeInv, TypeOK, Known, Undelivered
<1>1. ASSUME NEW p \in Requests, NEW a \in Addresses, AskRegistration(p, a)
      PROVE  Undelivered'
  BY <1>1 DEF AskRegistration
<1>2. ASSUME NEW p \in Requests, NEW a \in Addresses, RefuseRegistration(p, a)
      PROVE  Undelivered'
  BY <1>2 DEF RefuseRegistration
<1>3. ASSUME NEW p \in Requests, NEW a \in Addresses, TakeRegistration(p, a)
      PROVE  Undelivered'
  BY <1>3 DEF TakeRegistration
<1>4. ASSUME NEW p \in Requests, NEW u \in Users, AskReset(p, u)
      PROVE  Undelivered'
  BY <1>4 DEF AskReset
<1>5. ASSUME NEW p \in Requests, NEW u \in Users, CreateAccount(p, u)
      PROVE  Undelivered'
  BY <1>5 DEF CreateAccount
<1>6. ASSUME NEW p \in Requests, NEW t \in Tokens, IssueRegistration(p, t)
      PROVE  Undelivered'
  BY <1>6 DEF IssueRegistration
<1>7. ASSUME NEW p \in Requests, NEW t \in Tokens, IssueReset(p, t)
      PROVE  Undelivered'
  BY <1>7 DEF IssueReset
<1>8. ASSUME NEW p \in Requests, NEW u \in Users, NEW a \in Addresses,
             NEW t \in Tokens, IssueChange(p, u, a, t)
      PROVE  Undelivered'
  BY <1>8 DEF IssueChange
<1>9. ASSUME NEW p \in Requests, NEW s \in UserSlots, LookUp(p, s)
      PROVE  Undelivered'
  BY <1>9 DEF LookUp
<1>10. ASSUME NEW p \in Requests, Deliver(p) PROVE Undelivered'
  BY <1>10 DEF Deliver
<1>11. ASSUME NEW p \in Requests, CancelUndelivered(p) PROVE Undelivered'
  BY <1>11 DEF CancelUndelivered
<1>12. ASSUME NEW p \in Requests, RefuseGone(p) PROVE Undelivered'
  BY <1>12 DEF RefuseGone
<1>13. ASSUME NEW p \in Requests, RefuseRow(p) PROVE Undelivered'
  BY <1>13 DEF RefuseRow
<1>14. ASSUME NEW p \in Requests, ConfirmReset(p) PROVE Undelivered'
  BY <1>14 DEF ConfirmReset
<1>15. ASSUME NEW p \in Requests, TakeChange(p) PROVE Undelivered'
  BY <1>15 DEF TakeChange
<1>16. ASSUME NEW p \in Requests, ApplyChange(p) PROVE Undelivered'
  BY <1>16 DEF ApplyChange
<1>17. ASSUME NEW p \in Requests, Conflict(p) PROVE Undelivered'
  BY <1>17 DEF Conflict
<1>18. ASSUME NEW p \in Requests, Abandon(p) PROVE Undelivered'
  BY <1>18 DEF Abandon
<1>19. ASSUME NEW u \in Users, ChangeCredentials(u) PROVE Undelivered'
  BY <1>19 DEF ChangeCredentials
<1>20. ASSUME NEW u \in Users, DeleteAccount(u) PROVE Undelivered'
  BY <1>20 DEF DeleteAccount
<1>21. ASSUME NEW s \in Slots, Expire(s) PROVE Undelivered'
  BY <1>21 DEF Expire
<1>22. ASSUME NEW s \in Slots, CleanUp(s) PROVE Undelivered'
  BY <1>22 DEF CleanUp
<1>23. CASE UNCHANGED vars
  BY <1>23 DEF vars
<1> QED
  BY <1>1, <1>2, <1>3, <1>4, <1>5, <1>6, <1>7, <1>8, <1>9, <1>10, <1>11,
     <1>12, <1>13, <1>14, <1>15, <1>16, <1>17, <1>18, <1>19, <1>20, <1>21,
     <1>22, <1>23 DEF Next

(* A row loses a delivered token for no other reason than those of Stays:  *)
(* who cancels a row has not delivered its token.                          *)
LEMMA StayStep ==
  ASSUME TypeInv, Undelivered, [Next]_vars
  PROVE  Stays
<1> USE ConstantsAssumption, SlotShape
    DEF At, Finish, WriteRow, DropRow, UseRow, ChangeVersion, Revalidated,
        Holds, Exists, userVars, requestVars, tokenVars, TypeInv, TypeOK, Known,
        Undelivered, Stays
<1>1. ASSUME NEW p \in Requests, NEW a \in Addresses, AskRegistration(p, a)
      PROVE  Stays
  BY <1>1 DEF AskRegistration
<1>2. ASSUME NEW p \in Requests, NEW a \in Addresses, RefuseRegistration(p, a)
      PROVE  Stays
  BY <1>2 DEF RefuseRegistration
<1>3. ASSUME NEW p \in Requests, NEW a \in Addresses, TakeRegistration(p, a)
      PROVE  Stays
  BY <1>3 DEF TakeRegistration
<1>4. ASSUME NEW p \in Requests, NEW u \in Users, AskReset(p, u) PROVE Stays
  BY <1>4 DEF AskReset
<1>5. ASSUME NEW p \in Requests, NEW u \in Users, CreateAccount(p, u)
      PROVE  Stays
  BY <1>5 DEF CreateAccount
<1>6. ASSUME NEW p \in Requests, NEW t \in Tokens, IssueRegistration(p, t)
      PROVE  Stays
  <2>1. pending'[slot[p]] \in Row
    BY <1>6 DEF IssueRegistration, Row, Versions
  <2>2. \A r \in Slots \ {slot[p]} : pending'[r] = pending[r]
    BY <1>6 DEF IssueRegistration
  <2> QED
    BY <2>1, <2>2
<1>7. ASSUME NEW p \in Requests, NEW t \in Tokens, IssueReset(p, t) PROVE Stays
  <2>1. pending'[slot[p]] \in Row
    BY <1>7 DEF IssueReset, Row, Versions
  <2>2. \A r \in Slots \ {slot[p]} : pending'[r] = pending[r]
    BY <1>7 DEF IssueReset
  <2> QED
    BY <2>1, <2>2
<1>8. ASSUME NEW p \in Requests, NEW u \in Users, NEW a \in Addresses,
             NEW t \in Tokens, IssueChange(p, u, a, t)
      PROVE  Stays
  <2>1. pending'[Change(u)] \in Row
    BY <1>8 DEF IssueChange, Row, Versions
  <2>2. \A r \in Slots \ {Change(u)} : pending'[r] = pending[r]
    BY <1>8 DEF IssueChange
  <2> QED
    BY <2>1, <2>2
<1>9. ASSUME NEW p \in Requests, NEW s \in UserSlots, LookUp(p, s) PROVE Stays
  BY <1>9 DEF LookUp
<1>10. ASSUME NEW p \in Requests, Deliver(p) PROVE Stays
  BY <1>10 DEF Deliver
<1>11. ASSUME NEW p \in Requests, CancelUndelivered(p) PROVE Stays
  BY <1>11 DEF CancelUndelivered
<1>12. ASSUME NEW p \in Requests, RefuseGone(p) PROVE Stays
  BY <1>12 DEF RefuseGone
<1>13. ASSUME NEW p \in Requests, RefuseRow(p) PROVE Stays
  <2>1. slot[p] \in Slots /\ Of(slot[p]) \in Users
    BY <1>13 DEF RefuseRow
  <2>2. \A s \in Slots : pending'[s] # pending[s] => s = slot[p]
    BY <1>13 DEF RefuseRow
  <2>3. pending[slot[p]].expired \/ Overtaken(slot[p])
    BY <1>13 DEF RefuseRow
  <2> QED
    BY <2>1, <2>2, <2>3 DEF Overtaken
<1>14. ASSUME NEW p \in Requests, ConfirmReset(p) PROVE Stays
  BY <1>14 DEF ConfirmReset
<1>15. ASSUME NEW p \in Requests, TakeChange(p) PROVE Stays
  BY <1>15 DEF TakeChange
<1>16. ASSUME NEW p \in Requests, ApplyChange(p) PROVE Stays
  BY <1>16 DEF ApplyChange
<1>17. ASSUME NEW p \in Requests, Conflict(p) PROVE Stays
  BY <1>17 DEF Conflict
<1>18. ASSUME NEW p \in Requests, Abandon(p) PROVE Stays
  BY <1>18 DEF Abandon
<1>19. ASSUME NEW u \in Users, ChangeCredentials(u) PROVE Stays
  BY <1>19 DEF ChangeCredentials
<1>20. ASSUME NEW u \in Users, DeleteAccount(u) PROVE Stays
  BY <1>20 DEF DeleteAccount
<1>21. ASSUME NEW s \in Slots, Expire(s) PROVE Stays
  <2>1. Keeps(s)
    BY <1>21, ExpireKeeps
  <2> QED
    BY <2>1 DEF Keeps
<1>22. ASSUME NEW s \in Slots, CleanUp(s) PROVE Stays
  BY <1>22 DEF CleanUp
<1>23. CASE UNCHANGED vars
  BY <1>23 DEF vars
<1> QED
  BY <1>1, <1>2, <1>3, <1>4, <1>5, <1>6, <1>7, <1>8, <1>9, <1>10, <1>11,
     <1>12, <1>13, <1>14, <1>15, <1>16, <1>17, <1>18, <1>19, <1>20, <1>21,
     <1>22, <1>23 DEF Next

LEMMA InitOK ==
  ASSUME Init
  PROVE  TypeInv /\ VersionsKnown /\ BehindIsOld /\ OneAccountPerAddress
  BY ConstantsAssumption, SlotShape
  DEF Init, TypeInv, TypeOK, Known, Exclusive, Distinct, VersionsKnown,
      BehindIsOld, NoChangeFromBehind, OneAccountPerAddress, Holds, Versions

(* Types, exclusive row locks and one slot for every token. *)
THEOREM Inductive == Spec => []TypeInv
<1>1. Init => TypeInv
  BY InitOK
<1>2. TypeInv /\ [Next]_vars => TypeInv'
  BY TypeStep, KnownStep, ExclusiveStep, DistinctStep DEF TypeInv
<1> QED
  BY <1>1, <1>2, PTL DEF Spec

(* TypeOK, as the runs check it. *)
THEOREM TypeCorrect == Spec => []TypeOK
<1>1. TypeInv => TypeOK
  BY DEF TypeInv
<1> QED
  BY <1>1, Inductive, PTL

(* However registrations and email changes race, no two accounts get one   *)
(* address.                                                                *)
THEOREM UniqueAddresses == Spec => []OneAccountPerAddress
<1>1. Init => OneAccountPerAddress
  BY InitOK
<1>2. TypeInv /\ OneAccountPerAddress /\ [Next]_vars => OneAccountPerAddress'
  BY AddressStep
<1> QED
  BY <1>1, <1>2, Inductive, PTL DEF Spec

(* No email change is confirmed after the credentials it was asked with    *)
(* have changed, whatever else the requests of that user do.               *)
THEOREM BoundToCredentials == Spec => []NoChangeFromBehind
<1> DEFINE I == VersionsKnown /\ BehindIsOld
<1>1. Init => I
  BY InitOK
<1>2. TypeInv /\ I /\ [Next]_vars => I'
  BY VersionsStep, BehindStep
<1>3. I => NoChangeFromBehind
  BY DEF BehindIsOld
<1> HIDE DEF I
<1> QED
  BY <1>1, <1>2, <1>3, Inductive, PTL DEF Spec

(* An emailed token stays good until it is used, replaced or expires, or   *)
(* what it is for has gone.                                                *)
THEOREM TokensStay == Spec => DeliveredTokensStay
<1>1. Init => Undelivered
  BY DEF Init, Undelivered
<1>2. TypeInv /\ Undelivered /\ [Next]_vars => Undelivered' /\ [Stays]_vars
  BY UndeliveredStep, StayStep
<1> QED
  BY <1>1, <1>2, Inductive, PTL DEF Spec, DeliveredTokensStay, Stays

(* Of the tokens of a purpose the newest works, once: lookups before the   *)
(* lock, rotations, cancelled deliveries and cleanup implement             *)
(* SingleUseTokens.                                                        *)
THEOREM SingleUse == Spec => ImplementsSingleUse
<1>1. Init => SUT!Init
  BY DEF Init, SUT!Init, liveBar
<1>2. TypeInv /\ [Next]_vars => [SUT!Next]_(SUT!vars)
  BY TokensStep
<1> QED
  BY <1>1, <1>2, Inductive, PTL DEF Spec, ImplementsSingleUse, SUT!Spec

=============================================================================
