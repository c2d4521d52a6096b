------------------------------ MODULE AnswerLog ------------------------------
(***************************************************************************)
(* What an idempotency key promises: while the key remembers an execution, *)
(* no other execution under it takes effect, and every answer given under  *)
(* it is that execution's, to the request it was made for.                 *)
(***************************************************************************)
CONSTANTS Keys, Bodies, Executions, Nothing

Memory == [body : Bodies, run : Executions]

VARIABLES
    memory,    \* what each key stands for
    binding,   \* whether it still binds: it does until it expires
    effects,   \* executions that took effect
    answered   \* answers given: <<key, body, execution>>

vars == <<memory, binding, effects, answered>>

Init ==
    /\ memory = [k \in Keys |-> Nothing]
    /\ binding = [k \in Keys |-> FALSE]
    /\ effects = {} /\ answered = {}

(* An execution takes effect, is remembered and answered in one step. *)
Apply(k, b, r) ==
    /\ ~binding[k] /\ r \notin effects
    /\ memory' = [memory EXCEPT ![k] = [body |-> b, run |-> r]]
    /\ binding' = [binding EXCEPT ![k] = TRUE]
    /\ effects' = effects \cup {r}
    /\ answered' = answered \cup {<<k, b, r>>}

Replay(k) ==
    /\ binding[k]
    /\ answered' = answered \cup {<<k, memory[k].body, memory[k].run>>}
    /\ UNCHANGED <<memory, binding, effects>>

(* Without a key nothing is remembered. *)
ApplyUnkeyed(r) ==
    /\ r \notin effects
    /\ effects' = effects \cup {r}
    /\ UNCHANGED <<memory, binding, answered>>

Expire(k) ==
    /\ binding' = [binding EXCEPT ![k] = FALSE]
    /\ UNCHANGED <<memory, effects, answered>>

Forget(ks) ==
    /\ \A k \in ks : ~binding[k]
    /\ memory' = [k \in Keys |-> IF k \in ks THEN Nothing ELSE memory[k]]
    /\ UNCHANGED <<binding, effects, answered>>

Next ==
    \/ \E k \in Keys, b \in Bodies, r \in Executions : Apply(k, b, r)
    \/ \E k \in Keys : Replay(k) \/ Expire(k)
    \/ \E r \in Executions : ApplyUnkeyed(r)
    \/ \E ks \in SUBSET Keys : Forget(ks)

Spec == Init /\ [][Next]_vars
=============================================================================
