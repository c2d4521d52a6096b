----------------------------- MODULE MCExportJobs -----------------------------
(* TLC instances of ExportJobs: model values for the processes and jobs.    *)
EXTENDS ExportJobs, TLC

CONSTANTS j1, w1, w2, r1, s1, c1

OneJob == {j1}
TwoWorkers == {w1, w2}
OneRequest == {r1}
OneRecovery == {s1}
OneCleaner == {c1}

(* Workers are interchangeable; used by safety runs only.                  *)
Interchangeable ==
    Permutations(Workers)
=============================================================================
