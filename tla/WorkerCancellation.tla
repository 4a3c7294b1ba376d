------------------------- MODULE WorkerCancellation -------------------------
(***************************************************************************)
(* What WorkerExecutor promises of a cancellation, kept in a history       *)
(* variable.                                                               *)
(***************************************************************************)
EXTENDS WorkerExecutor

VARIABLE
  inTime  \* jobs that were told to stop before their page was prepared

Unprepared(j) == task[j] = "spawned" \/ executor[j] \in {"starting", "preparing"}

CancellationInit == WorkerInit /\ inTime = {}

CancellationNext ==
  /\ WorkerNext
  /\ inTime' = inTime \cup {j \in Calls : signal[j] = "sent" /\ Unprepared(j)}'

CancellationSpec == CancellationInit /\ [][CancellationNext]_<<workerVars, inTime>>

\* A cancellation signalled before the page is prepared is never followed by a
\* submission to the provider, whatever browser and timeouts do (execute's
\* check between prepare and submit).
CancelledInTime == \A j \in inTime : sent[j] = 0
=============================================================================
