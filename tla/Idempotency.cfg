\* Three requests with two keys and two bodies, retried through three
\* executions.
CONSTANTS
    q1 = q1
    q2 = q2
    q3 = q3
    k1 = k1
    k2 = k2
    b1 = b1
    b2 = b2
    Requests = {q1, q2, q3}
    Keys = {k1, k2}
    Bodies = {b1, b2}
    NoKey = NoKey
    NoRecord = NoRecord
    MaxRuns = 3
SPECIFICATION Spec
SYMMETRY AnyOrder
INVARIANTS TypeOK SoleExecution InsertNeverRefused
PROPERTY ImplementsAnswerLog
