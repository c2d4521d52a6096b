-------------------------- MODULE IdempotencyProofs --------------------------
(***************************************************************************)
(* Safety of Idempotency for any number of requests, keys, bodies and      *)
(* executions.                                                             *)
(***************************************************************************)
EXTENDS Idempotency, TLAPS

(* A request with a key in hand keeps every other one with it out. *)
LockExclusive ==
    \A q, p \in Requests :
        /\ q # p /\ pc[q] # "idle" /\ pc[p] # "idle"
        /\ key[q] \in Keys
        => key[q] # key[p]

(* What a request knows of the record under its lock: until it commits     *)
(* there is none, or the expired one it has deleted.                       *)
LookUpHolds ==
    \A q \in Requests :
        /\ pc[q] = "locked" => key[q] \in Keys
        /\ replaces[q] => pc[q] \in {"running", "succeeded", "failed"}
        /\ pc[q] \in {"running", "succeeded", "failed"} /\ key[q] \in Keys =>
             IF replaces[q]
             THEN record[key[q]] # NoRecord /\ record[key[q]].expired
             ELSE record[key[q]] = NoRecord

(* An execution in hand is nobody else's and has not taken effect. *)
RunOwned ==
    /\ effects \subseteq 1..runs
    /\ \A q \in Requests :
         pc[q] \in {"succeeded", "failed"} => run[q] \in 1..runs \ effects
    /\ \A q, p \in Requests :
         /\ q # p
         /\ pc[q] \in {"succeeded", "failed"}
         /\ pc[p] \in {"succeeded", "failed"}
         => run[q] # run[p]

IInv == TypeOK /\ LockExclusive /\ LookUpHolds /\ RunOwned

-----------------------------------------------------------------------------

(* A row is no missing row. *)
LEMMA RowWritten ==
  ASSUME NEW b \in Bodies, NEW r \in Executions, NEW e \in BOOLEAN
  PROVE  LET row == [body |-> b, run |-> r, expired |-> e] IN
         row \in Record /\ row # NoRecord
<1>1. [body |-> b, run |-> r, expired |-> e] \in Record
  BY DEF Record
<1> QED
  BY <1>1, ConstantsAssumption

LEMMA RowExpires ==
  ASSUME NEW r \in Record
  PROVE  LET row == [r EXCEPT !.expired = TRUE] IN
         /\ row \in Record /\ row # NoRecord
         /\ row.body = r.body /\ row.run = r.run /\ row.expired
<1>1. [r EXCEPT !.expired = TRUE] \in Record
  BY DEF Record
<1> QED
  BY <1>1, ConstantsAssumption DEF Record

LEMMA IInvInit == Init => IInv
BY ConstantsAssumption
DEF Init, IInv, TypeOK, LockExclusive, LookUpHolds, RunOwned, Record, NoRun

(* An execution in hand has a number, and a key a row that may be written. *)
LEMMA TypeStep == IInv /\ [Next]_vars => TypeOK'
<1> SUFFICES ASSUME IInv, [Next]_vars PROVE TypeOK'
  OBVIOUS
<1> USE ConstantsAssumption
    DEF IInv, TypeOK, LookUpHolds, RunOwned, requestVars, Finish, Answer,
        Executions, NoRun, Record, WriteRecord, Recorded, Matches
<1>1. ASSUME NEW q \in Requests, NEW k \in Keys, NEW b \in Bodies,
             Begin(q, k, b)
      PROVE  TypeOK'
  BY <1>1 DEF Begin, HoldsLock
<1>2. ASSUME NEW q \in Requests, NEW b \in Bodies, BeginUnkeyed(q, b)
      PROVE  TypeOK'
  BY <1>2 DEF BeginUnkeyed
<1>3. ASSUME NEW q \in Requests, LookUpLive(q) PROVE TypeOK'
  BY <1>3 DEF LookUpLive
<1>4. ASSUME NEW q \in Requests, LookUpNone(q) PROVE TypeOK'
  BY <1>4 DEF LookUpNone
<1>5. ASSUME NEW q \in Requests, NEW o \in {"succeeded", "failed"},
             Operate(q, o)
      PROVE  TypeOK'
  BY <1>5 DEF Operate
<1>6. ASSUME NEW q \in Requests, Commit(q) PROVE TypeOK'
  <2>1. run[q] \in Executions /\ body[q] \in Bodies
    BY <1>6 DEF Commit
  <2>2. record' \in [Keys -> Record \cup {NoRecord}]
    BY ONLY <1>6, <2>1, RowWritten, TypeOK DEF TypeOK, Commit, WriteRecord
  <2>3. answered' \in SUBSET (Keys \X Bodies \X Executions)
    BY <1>6, <2>1 DEF Commit
  <2> QED
    BY ONLY <1>6, <2>1, <2>2, <2>3, TypeOK
    DEF TypeOK, Commit, Finish, NoRun
<1>7. ASSUME NEW q \in Requests, AnswerFailure(q) PROVE TypeOK'
  <2>1. run[q] \in Executions
    BY ONLY <1>7, IInv DEF IInv, TypeOK, RunOwned, AnswerFailure, Executions
  <2>2. effects' \in SUBSET Executions
    BY ONLY <1>7, <2>1, TypeOK DEF TypeOK, AnswerFailure
  <2>3. record' = record
    BY ONLY <1>7 DEF AnswerFailure, WriteRecord, Recorded
  <2> QED
    BY ONLY <1>7, <2>2, <2>3, TypeOK DEF TypeOK, AnswerFailure, Finish, NoRun
<1>8. ASSUME NEW q \in Requests, Abort(q) PROVE TypeOK'
  BY <1>8 DEF Abort
<1>9. ASSUME NEW k \in Keys, Expire(k) PROVE TypeOK'
  <2>1. record[k] \in Record
    BY <1>9 DEF Expire
  <2>2. [record[k] EXCEPT !.expired = TRUE] \in Record
    BY ONLY <2>1, RowExpires
  <2>3. record' \in [Keys -> Record \cup {NoRecord}]
    BY ONLY <1>9, <2>2, TypeOK DEF TypeOK, Expire
  <2> QED
    BY ONLY <1>9, <2>3, TypeOK DEF TypeOK, Expire, requestVars
<1>10. CASE Cleanup
  BY <1>10 DEF Cleanup, Doomed
<1>11. CASE UNCHANGED vars
  BY <1>11 DEF vars
<1> QED
  BY ONLY <1>1, <1>2, <1>3, <1>4, <1>5, <1>6, <1>7, <1>8, <1>9, <1>10,
          <1>11, [Next]_vars
  DEF Next

(* Only a request that finds the lock free gets it; none changes its key.  *)
LEMMA LockStep == IInv /\ [Next]_vars => LockExclusive'
<1> SUFFICES ASSUME IInv, [Next]_vars PROVE LockExclusive'
  OBVIOUS
<1> USE ConstantsAssumption
    DEF IInv, TypeOK, LockExclusive, requestVars, Finish
<1>1. ASSUME NEW q \in Requests, NEW k \in Keys, NEW b \in Bodies,
             Begin(q, k, b)
      PROVE  LockExclusive'
  BY <1>1 DEF Begin, HoldsLock
<1>2. ASSUME NEW q \in Requests, NEW b \in Bodies, BeginUnkeyed(q, b)
      PROVE  LockExclusive'
  BY <1>2 DEF BeginUnkeyed
<1>3. ASSUME NEW q \in Requests, LookUpLive(q) PROVE LockExclusive'
  BY <1>3 DEF LookUpLive
<1>4. ASSUME NEW q \in Requests, LookUpNone(q) PROVE LockExclusive'
  BY <1>4 DEF LookUpNone
<1>5. ASSUME NEW q \in Requests, NEW o \in {"succeeded", "failed"},
             Operate(q, o)
      PROVE  LockExclusive'
  BY <1>5 DEF Operate
<1>6. ASSUME NEW q \in Requests, Commit(q) PROVE LockExclusive'
  BY <1>6 DEF Commit
<1>7. ASSUME NEW q \in Requests, AnswerFailure(q) PROVE LockExclusive'
  BY <1>7 DEF AnswerFailure
<1>8. ASSUME NEW q \in Requests, Abort(q) PROVE LockExclusive'
  BY <1>8 DEF Abort
<1>9. ASSUME NEW k \in Keys, Expire(k) PROVE LockExclusive'
  BY <1>9 DEF Expire
<1>10. CASE Cleanup
  BY <1>10 DEF Cleanup, Doomed
<1>11. CASE UNCHANGED vars
  BY <1>11 DEF vars
<1> QED
  BY ONLY <1>1, <1>2, <1>3, <1>4, <1>5, <1>6, <1>7, <1>8, <1>9, <1>10,
          <1>11, [Next]_vars
  DEF Next

(* The holder of the lock is the only one who writes the record. *)
LEMMA LookUpStep == IInv /\ [Next]_vars => LookUpHolds'
<1> SUFFICES ASSUME IInv, [Next]_vars PROVE LookUpHolds'
  OBVIOUS
<1> USE ConstantsAssumption
    DEF IInv, TypeOK, LockExclusive, LookUpHolds, requestVars,
        Finish, Record, WriteRecord, Recorded
<1>1. ASSUME NEW q \in Requests, NEW k \in Keys, NEW b \in Bodies,
             Begin(q, k, b)
      PROVE  LookUpHolds'
  BY <1>1 DEF Begin, HoldsLock
<1>2. ASSUME NEW q \in Requests, NEW b \in Bodies, BeginUnkeyed(q, b)
      PROVE  LookUpHolds'
  BY <1>2 DEF BeginUnkeyed
<1>3. ASSUME NEW q \in Requests, LookUpLive(q) PROVE LookUpHolds'
  BY <1>3 DEF LookUpLive
<1>4. ASSUME NEW q \in Requests, LookUpNone(q) PROVE LookUpHolds'
  BY <1>4 DEF LookUpNone
<1>5. ASSUME NEW q \in Requests, NEW o \in {"succeeded", "failed"},
             Operate(q, o)
      PROVE  LookUpHolds'
  BY <1>5 DEF Operate
<1>6. ASSUME NEW q \in Requests, Commit(q) PROVE LookUpHolds'
  BY <1>6 DEF Commit
<1>7. ASSUME NEW q \in Requests, AnswerFailure(q) PROVE LookUpHolds'
  BY <1>7 DEF AnswerFailure
<1>8. ASSUME NEW q \in Requests, Abort(q) PROVE LookUpHolds'
  BY <1>8 DEF Abort
<1>9. ASSUME NEW k \in Keys, Expire(k) PROVE LookUpHolds'
  BY <1>9 DEF Expire
<1>10. CASE Cleanup
  BY <1>10 DEF Cleanup, Doomed
<1>11. CASE UNCHANGED vars
  BY <1>11 DEF vars
<1> QED
  BY ONLY <1>1, <1>2, <1>3, <1>4, <1>5, <1>6, <1>7, <1>8, <1>9, <1>10,
          <1>11, [Next]_vars
  DEF Next

(* Executions are numbered one after the other. *)
LEMMA RunStep == IInv /\ [Next]_vars => RunOwned'
<1> SUFFICES ASSUME IInv, [Next]_vars PROVE RunOwned'
  OBVIOUS
<1> USE ConstantsAssumption
    DEF IInv, TypeOK, RunOwned, requestVars, Finish, Executions
<1>1. ASSUME NEW q \in Requests, NEW k \in Keys, NEW b \in Bodies,
             Begin(q, k, b)
      PROVE  RunOwned'
  BY <1>1 DEF Begin, HoldsLock
<1>2. ASSUME NEW q \in Requests, NEW b \in Bodies, BeginUnkeyed(q, b)
      PROVE  RunOwned'
  BY <1>2 DEF BeginUnkeyed
<1>3. ASSUME NEW q \in Requests, LookUpLive(q) PROVE RunOwned'
  BY <1>3 DEF LookUpLive
<1>4. ASSUME NEW q \in Requests, LookUpNone(q) PROVE RunOwned'
  BY <1>4 DEF LookUpNone
<1>5. ASSUME NEW q \in Requests, NEW o \in {"succeeded", "failed"},
             Operate(q, o)
      PROVE  RunOwned'
  BY <1>5 DEF Operate
<1>6. ASSUME NEW q \in Requests, Commit(q) PROVE RunOwned'
  BY <1>6 DEF Commit
<1>7. ASSUME NEW q \in Requests, AnswerFailure(q) PROVE RunOwned'
  BY <1>7 DEF AnswerFailure
<1>8. ASSUME NEW q \in Requests, Abort(q) PROVE RunOwned'
  BY <1>8 DEF Abort
<1>9. ASSUME NEW k \in Keys, Expire(k) PROVE RunOwned'
  BY <1>9 DEF Expire
<1>10. CASE Cleanup
  BY <1>10 DEF Cleanup, Doomed
<1>11. CASE UNCHANGED vars
  BY <1>11 DEF vars
<1> QED
  BY ONLY <1>1, <1>2, <1>3, <1>4, <1>5, <1>6, <1>7, <1>8, <1>9, <1>10,
          <1>11, [Next]_vars
  DEF Next

(* IInv is invariant: every theorem below follows from it. *)
THEOREM Inductive == Spec => []IInv
<1>1. IInv /\ [Next]_vars => IInv'
  BY TypeStep, LockStep, LookUpStep, RunStep DEF IInv
<1> QED
  BY IInvInit, <1>1, PTL DEF Spec

(* Every variable keeps its type. *)
THEOREM TypeCorrect == Spec => []TypeOK
<1>1. IInv => TypeOK
  BY DEF IInv
<1> QED
  BY Inductive, <1>1, PTL

(* No two requests are executing the operation of one key: the lock that   *)
(* the first keeps until it is answered refuses the second.                *)
THEOREM OneAtATime == Spec => []SoleExecution
<1>1. IInv => SoleExecution
  BY DEF IInv, LockExclusive, SoleExecution
<1> QED
  BY Inductive, <1>1, PTL

(* The record of a finished operation can always be written: under the     *)
(* lock nobody else writes one.                                            *)
THEOREM RecordsAccepted == Spec => []InsertNeverRefused
<1>1. IInv => InsertNeverRefused
  BY DEF IInv, LookUpHolds, InsertNeverRefused, KeyFree
<1> QED
  BY Inductive, <1>1, PTL

-----------------------------------------------------------------------------

memoryBar == [k \in Keys |->
                IF record[k] = NoRecord THEN NoRecord
                ELSE [body |-> record[k].body, run |-> record[k].run]]
bindingBar == [k \in Keys |-> record[k] # NoRecord /\ ~record[k].expired]

(* Each step is one of the abstract key, or changes nothing it can see. *)
LEMMA LogStep == IInv /\ [Next]_vars => [Log!Next]_(Log!vars)
<1> SUFFICES ASSUME IInv, [Next]_vars PROVE [Log!Next]_(Log!vars)
  OBVIOUS
<1> USE ConstantsAssumption DEF IInv, TypeOK
<1>1. ASSUME UNCHANGED <<record, effects, answered>>
      PROVE  UNCHANGED Log!vars
  BY <1>1 DEF Log!vars
<1>2. ASSUME NEW q \in Requests, LookUpLive(q) PROVE [Log!Next]_(Log!vars)
  <2>1. CASE Matches(q, record[key[q]])
    <3>1. Log!Replay(key[q])
      BY <1>2, <2>1 DEF LookUpLive, LookUpHolds, Answer, Matches, Log!Replay
    <3> QED
      BY <1>2, <3>1 DEF LookUpLive, LookUpHolds, Log!Next
  <2>2. CASE ~Matches(q, record[key[q]])
    BY <1>1, <1>2, <2>2 DEF LookUpLive
  <2> QED
    BY <2>1, <2>2
<1>3. ASSUME NEW q \in Requests, Commit(q) PROVE [Log!Next]_(Log!vars)
  <2>1. run[q] \in Executions \ effects
    BY <1>3 DEF Commit, RunOwned, Executions
  <2>2. CASE key[q] \in Keys
    <3>1. record' = [record EXCEPT ![key[q]] =
                       [body |-> body[q], run |-> run[q], expired |-> FALSE]]
      BY <1>3, <2>2 DEF Commit, WriteRecord, Recorded
    <3>2. [body |-> body[q], run |-> run[q], expired |-> FALSE] # NoRecord
      BY <2>1, RowWritten
    <3>3. memoryBar' = [memoryBar EXCEPT ![key[q]] =
                          [body |-> body[q], run |-> run[q]]]
      BY <3>1, <3>2, <2>2 DEF memoryBar
    <3>4. bindingBar' = [bindingBar EXCEPT ![key[q]] = TRUE]
      BY <3>1, <3>2, <2>2 DEF bindingBar
    <3>5. ~bindingBar[key[q]]
      BY <1>3, <2>2 DEF Commit, LookUpHolds, bindingBar
    <3>6. PICK k \in Keys, b \in Bodies, r \in Executions :
            k = key[q] /\ b = body[q] /\ r = run[q]
      BY <2>1, <2>2
    <3>7. Log!Apply(k, b, r)
      BY <1>3, <2>1, <2>2, <3>3, <3>4, <3>5, <3>6
      DEF Commit, Answer, Log!Apply, memoryBar, bindingBar
    <3> QED
      BY ONLY <3>7 DEF Log!Next
  <2>3. CASE key[q] \notin Keys
    <3>1. Log!ApplyUnkeyed(run[q])
      BY <1>3, <2>1, <2>3 DEF Commit, WriteRecord, Log!ApplyUnkeyed
    <3> QED
      BY <2>1, <3>1 DEF Log!Next
  <2> QED
    BY <2>2, <2>3
<1>4. ASSUME NEW q \in Requests, AnswerFailure(q) PROVE [Log!Next]_(Log!vars)
  <2>1. CASE key[q] \in Keys
    BY <1>1, <1>4, <2>1 DEF AnswerFailure, WriteRecord, Recorded
  <2>2. CASE key[q] \notin Keys
    <3>1. run[q] \in Executions \ effects
      BY <1>4 DEF AnswerFailure, RunOwned, Executions
    <3>2. Log!ApplyUnkeyed(run[q])
      BY <1>4, <2>2, <3>1 DEF AnswerFailure, Log!ApplyUnkeyed
    <3> QED
      BY <3>1, <3>2 DEF Log!Next
  <2> QED
    BY <2>1, <2>2
<1>5. ASSUME NEW k \in Keys, Expire(k) PROVE [Log!Next]_(Log!vars)
  <2>1. /\ record[k] \in Record /\ record[k] # NoRecord
        /\ record' = [record EXCEPT ![k] = [record[k] EXCEPT !.expired = TRUE]]
    BY <1>5 DEF Expire
  <2>2. /\ record'[k].body = record[k].body /\ record'[k].run = record[k].run
        /\ record'[k] # NoRecord /\ record'[k].expired
    BY ONLY <2>1, RowExpires, TypeOK DEF TypeOK
  <2>3. /\ memoryBar' = memoryBar
        /\ bindingBar' = [bindingBar EXCEPT ![k] = FALSE]
    BY ONLY <2>1, <2>2, TypeOK DEF TypeOK, memoryBar, bindingBar
  <2>4. Log!Expire(k)
    BY <1>5, <2>3 DEF Expire, Log!Expire, memoryBar, bindingBar
  <2> QED
    BY <2>4 DEF Log!Next
<1>6. CASE Cleanup
  <2>1. PICK ks \in SUBSET Keys : ks = {k \in Keys : Doomed(k)}
    OBVIOUS
  <2>2. \A k \in ks : ~bindingBar[k]
    BY <2>1 DEF Doomed, bindingBar
  <2>3. memoryBar' =
          [k \in Keys |-> IF k \in ks THEN NoRecord ELSE memoryBar[k]]
    BY <1>6, <2>1 DEF Cleanup, memoryBar
  <2>4. bindingBar' = bindingBar
    BY <1>6 DEF Cleanup, Doomed, bindingBar
  <2>5. Log!Forget(ks)
    BY <1>6, <2>2, <2>3, <2>4 DEF Cleanup, Log!Forget, memoryBar, bindingBar
  <2> QED
    BY ONLY <2>5 DEF Log!Next
<1>7. ASSUME NEW q \in Requests,
             \/ \E k \in Keys, b \in Bodies : Begin(q, k, b)
             \/ \E b \in Bodies : BeginUnkeyed(q, b)
             \/ LookUpNone(q) \/ Abort(q)
             \/ Operate(q, "succeeded") \/ Operate(q, "failed")
      PROVE  [Log!Next]_(Log!vars)
  BY <1>1, <1>7 DEF Begin, BeginUnkeyed, LookUpNone, Abort, Operate
<1>8. CASE UNCHANGED vars
  BY <1>1, <1>8 DEF vars
<1> QED
  BY ONLY <1>2, <1>3, <1>4, <1>5, <1>6, <1>7, <1>8, [Next]_vars DEF Next

(* Retries, duplicates, crashes and the cleanup implement the promise of a *)
(* key: one execution takes effect while it binds, and every answer under  *)
(* it is that execution's.                                                 *)
THEOREM Promise == Spec => ImplementsAnswerLog
<1>1. Init => Log!Init
  BY DEF Init, Log!Init
<1> QED
  BY <1>1, Inductive, LogStep, PTL DEF Spec, ImplementsAnswerLog, Log!Spec
=============================================================================
