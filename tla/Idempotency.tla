----------------------------- MODULE Idempotency -----------------------------
(***************************************************************************)
(* run_idempotently of core/utils/idempotency.py, the daily cleanup of     *)
(* core/tasks.py, and a client that repeats requests at will: after a lost *)
(* answer, at the same time, or with another body under the same key.      *)
(*                                                                         *)
(* A key stands for the hash of user, method, path and Idempotency-Key     *)
(* header, a body for the request fingerprint.  A request runs in one      *)
(* transaction, in READ COMMITTED.  What the operation changes is          *)
(* abstracted to the fact that it ran: an execution.  Its database changes *)
(* take effect at the commit; that it ran at all matters where it writes   *)
(* to the bucket (images/api/uploads.py).                                  *)
(***************************************************************************)
EXTENDS Naturals

CONSTANTS
    Requests,      \* requests being served at the same time
    Keys, Bodies,
    NoKey,         \* a request without the header
    NoRecord,
    MaxRuns        \* bound: executions of the operation

Executions == 1..MaxRuns
NoRun == 0

Record == [body : Bodies, run : Executions, expired : BOOLEAN]

ASSUME ConstantsAssumption ==
    NoKey \notin Keys /\ NoRecord \notin Record /\ MaxRuns \in Nat

VARIABLES
    record,            \* IdempotencyRecord rows by primary key
    pc, key, body,     \* requests
    run,               \* the execution a request has made
    replaces,          \* whether it has deleted an expired record
    runs,              \* executions so far
    effects,           \* history: executions whose changes were committed
    answered           \* history: answers under a key

requestVars == <<pc, key, body, run, replaces>>
vars == <<record, requestVars, runs, effects, answered>>

TypeOK ==
    /\ record \in [Keys -> Record \cup {NoRecord}]
    /\ pc \in [Requests -> {"idle", "locked", "running", "succeeded", "failed"}]
    /\ key \in [Requests -> Keys \cup {NoKey}]
    /\ body \in [Requests -> Bodies]
    /\ run \in [Requests -> Executions \cup {NoRun}]
    /\ replaces \in [Requests -> BOOLEAN]
    /\ runs \in 0..MaxRuns
    /\ effects \in SUBSET Executions
    /\ answered \in SUBSET (Keys \X Bodies \X Executions)

Init ==
    /\ record = [k \in Keys |-> NoRecord]
    /\ pc = [q \in Requests |-> "idle"]
    /\ key = [q \in Requests |-> NoKey]
    /\ body \in [Requests -> Bodies] /\ \A q, p \in Requests : body[q] = body[p]
    /\ run = [q \in Requests |-> NoRun]
    /\ replaces = [q \in Requests |-> FALSE]
    /\ runs = 0
    /\ effects = {} /\ answered = {}

(* The advisory lock of a key is taken in the transaction and kept until   *)
(* it ends.                                                                *)
HoldsUntilRun(q, k) == pc[q] \in {"locked", "running"} /\ key[q] = k
HoldsNothing(q, k) == FALSE
HoldsLock(q, k) == pc[q] # "idle" /\ key[q] = k

Finish(q) ==
    /\ pc' = [pc EXCEPT ![q] = "idle"]
    /\ run' = [run EXCEPT ![q] = NoRun]
    /\ replaces' = [replaces EXCEPT ![q] = FALSE]
    /\ UNCHANGED <<key, body>>

Answer(q, r) == answered' = answered \cup {<<key[q], body[q], r>>}

-----------------------------------------------------------------------------
(* Requests                                                                *)

(* pg_try_advisory_xact_lock; one that does not get it is refused with 409 *)
(* at once, and changes nothing.                                           *)
Begin(q, k, b) ==
    /\ pc[q] = "idle"
    /\ \A p \in Requests : ~HoldsLock(p, k)
    /\ pc' = [pc EXCEPT ![q] = "locked"]
    /\ key' = [key EXCEPT ![q] = k]
    /\ body' = [body EXCEPT ![q] = b]
    /\ UNCHANGED <<record, run, replaces, runs, effects, answered>>

(* Without a key: the operation in a transaction of its own. *)
BeginUnkeyed(q, b) ==
    /\ pc[q] = "idle"
    /\ pc' = [pc EXCEPT ![q] = "running"]
    /\ key' = [key EXCEPT ![q] = NoKey]
    /\ body' = [body EXCEPT ![q] = b]
    /\ UNCHANGED <<record, run, replaces, runs, effects, answered>>

MatchesAny(q, r) == TRUE
Matches(q, r) == r.body = body[q]

(* A live record answers for the operation, or refuses another body. *)
LookUpLive(q) ==
    LET r == record[key[q]] IN
    /\ pc[q] = "locked" /\ r # NoRecord /\ ~r.expired
    /\ IF Matches(q, r) THEN Answer(q, r.run) ELSE UNCHANGED answered
    /\ Finish(q)
    /\ UNCHANGED <<record, runs, effects>>

LookUpSkips(q) ==
    /\ pc[q] = "locked"
    /\ record[key[q]] # NoRecord => record[key[q]].expired
    /\ pc' = [pc EXCEPT ![q] = "succeeded"]
    /\ replaces' = [replaces EXCEPT ![q] = record[key[q]] # NoRecord]
    /\ UNCHANGED <<record, key, body, run, runs, effects, answered>>

(* An expired record is deleted in the transaction: it is only gone once   *)
(* that commits, and whoever else would delete it waits.                   *)
LookUpNone(q) ==
    /\ pc[q] = "locked"
    /\ record[key[q]] # NoRecord => record[key[q]].expired
    /\ pc' = [pc EXCEPT ![q] = "running"]
    /\ replaces' = [replaces EXCEPT ![q] = record[key[q]] # NoRecord]
    /\ UNCHANGED <<record, key, body, run, runs, effects, answered>>

(* The operation returns a status below 500, or one of 500 and above. *)
Operate(q, outcome) ==
    /\ pc[q] = "running" /\ runs < MaxRuns
    /\ runs' = runs + 1
    /\ run' = [run EXCEPT ![q] = runs + 1]
    /\ pc' = [pc EXCEPT ![q] = outcome]
    /\ UNCHANGED <<record, key, body, replaces, effects, answered>>

RecordedAlways(q) == TRUE
Recorded(q) == pc[q] = "succeeded"

(* The key is the primary key: a record written in the meantime refuses    *)
(* the insert, and with it the whole transaction.                          *)
KeyFree(q) == key[q] \in Keys => record[key[q]] = NoRecord \/ replaces[q]

WriteRecord(q) ==
    record' = IF key[q] \in Keys /\ Recorded(q)
              THEN [record EXCEPT ![key[q]] =
                      [body |-> body[q], run |-> run[q], expired |-> FALSE]]
              ELSE record

(* Changes, record and answer of a successful operation; the answer may    *)
(* still be lost on its way.                                               *)
Commit(q) ==
    /\ pc[q] = "succeeded" /\ KeyFree(q)
    /\ WriteRecord(q)
    /\ effects' = effects \cup {run[q]}
    /\ IF key[q] \in Keys THEN Answer(q, run[q]) ELSE UNCHANGED answered
    /\ Finish(q)
    /\ UNCHANGED runs

(* set_rollback(True): the 5xx is answered, nothing is kept.  A request    *)
(* without a key has no such branch, and commits.                          *)
AnswerFailure(q) ==
    /\ pc[q] = "failed"
    /\ IF key[q] \in Keys
       THEN /\ WriteRecord(q)
            /\ UNCHANGED effects
       ELSE /\ effects' = effects \cup {run[q]}
            /\ UNCHANGED record
    /\ Finish(q)
    /\ UNCHANGED <<runs, answered>>

(* An exception, a refused insert, a killed worker or a lost connection. *)
Abort(q) ==
    /\ pc[q] # "idle"
    /\ Finish(q)
    /\ UNCHANGED <<record, runs, effects, answered>>

-----------------------------------------------------------------------------
(* Time and cleanup                                                        *)

(* 24 hours after the response. *)
Expire(k) ==
    /\ record[k] # NoRecord /\ ~record[k].expired
    /\ record' = [record EXCEPT ![k].expired = TRUE]
    /\ UNCHANGED <<requestVars, runs, effects, answered>>

AnyRecord(k) == record[k] # NoRecord
Doomed(k) == record[k] # NoRecord /\ record[k].expired

(* cleanup_expired_idempotency_records deletes in one statement, which     *)
(* waits for a transaction that has deleted one of the rows.               *)
Cleanup ==
    /\ \E k \in Keys : Doomed(k)
    /\ \A q \in Requests : ~replaces[q]
    /\ record' = [k \in Keys |-> IF Doomed(k) THEN NoRecord ELSE record[k]]
    /\ UNCHANGED <<requestVars, runs, effects, answered>>

Next ==
    \/ \E q \in Requests, k \in Keys, b \in Bodies : Begin(q, k, b)
    \/ \E q \in Requests, b \in Bodies : BeginUnkeyed(q, b)
    \/ \E q \in Requests :
         \/ LookUpLive(q) \/ LookUpNone(q)
         \/ Operate(q, "succeeded") \/ Operate(q, "failed")
         \/ Commit(q) \/ AnswerFailure(q) \/ Abort(q)
    \/ \E k \in Keys : Expire(k)
    \/ Cleanup

Spec == Init /\ [][Next]_vars

-----------------------------------------------------------------------------
(* Properties                                                              *)

(* Two requests never execute the operation of one key at the same time,   *)
(* so a bulk upload does not write its objects twice (the lock is kept     *)
(* through the commit, idempotency.py:163-164).                            *)
SoleExecution ==
    \A q, p \in Requests :
        /\ q # p /\ key[q] = key[p] /\ key[q] \in Keys
        => ~ (pc[q] \in {"running", "succeeded", "failed"}
              /\ pc[p] \in {"running", "succeeded", "failed"})

(* The primary key never refuses the record of a finished operation: the   *)
(* lock has refused the request before it ran.                             *)
InsertNeverRefused ==
    \A q \in Requests : pc[q] = "succeeded" => KeyFree(q)

Log == INSTANCE AnswerLog WITH
    Nothing <- NoRecord,
    memory <- [k \in Keys |->
                 IF record[k] = NoRecord THEN NoRecord
                 ELSE [body |-> record[k].body, run |-> record[k].run]],
    binding <- [k \in Keys |-> record[k] # NoRecord /\ ~record[k].expired]

(* Requests, retries, crashes and the cleanup implement the promise of an  *)
(* idempotency key.                                                        *)
ImplementsAnswerLog == Log!Spec
=============================================================================
