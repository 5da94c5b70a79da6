-------------------------- MODULE IdempotencyStore --------------------------
(***************************************************************************)
(* The durable repeat-safety records of idempotency/idempotency.ts, one    *)
(* row of idempotency_keys per (scope, key).  A caller first asks          *)
(* requireReplayable for a verdict, then begins the key, and finishes it   *)
(* as COMPLETED or FAILED.  Each method is atomic; the operators map the   *)
(* table before the call to the table after.                               *)
(***************************************************************************)
EXTENDS Naturals

CONSTANTS Key,          \* (scope, idempotency_key) pairs
          Fingerprint,  \* hashes of the request's input
          NoPrint,
          Work,         \* ids a completed request returns
          NoWork

KeyStatus == {"ABSENT", "IN_PROGRESS", "COMPLETED", "FAILED"}

KeyRecord == [status    : KeyStatus,
              print     : Fingerprint \cup {NoPrint},
              result    : Work \cup {NoWork},
              updatedAt : Nat]

NoRecord == [status |-> "ABSENT", print |-> NoPrint, result |-> NoWork,
             updatedAt |-> 0]

KeyTable == [Key -> KeyRecord]

\* requireReplayable lets only a fresh key through.  It replays a COMPLETED
\* record of the same fingerprint and refuses every other: neither is a step.
Fresh(record) == record.status = "ABSENT"

Begin(table, k, print, now) ==
    [table EXCEPT ![k] = [status |-> "IN_PROGRESS", print |-> print,
                          result |-> NoWork, updatedAt |-> now]]

\* Callers finish only a record that is IN_PROGRESS; a terminal one would refuse
\* every status but its own.
Finish(table, k, status, result, now) ==
    [table EXCEPT ![k] = [@ EXCEPT !.status = status, !.result = result,
                                   !.updatedAt = now]]

\* Mutant: the retention is off by one.
StaleEarly(record, now, retention) ==
    /\ record.status \in {"COMPLETED", "FAILED"}
    /\ record.updatedAt + retention <= now

\* Startup maintenance deletes the terminal records older than the retention.
Stale(record, now, retention) ==
    /\ record.status \in {"COMPLETED", "FAILED"}
    /\ record.updatedAt + retention < now

PruneKeys(table, now, retention) ==
    [k \in Key |-> IF Stale(table[k], now, retention) THEN NoRecord ELSE table[k]]

=============================================================================
