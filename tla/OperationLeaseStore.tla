------------------------ MODULE OperationLeaseStore ------------------------
(***************************************************************************)
(* The per-project operation lease of operations/operation-lease.ts.       *)
(*                                                                         *)
(* A lease is one row of idempotency_keys in the scope 'operation-lease';  *)
(* its fingerprint column is the owner and its JSON payload the expiry.    *)
(* Every method is one SQLite transaction or statement, hence atomic: each *)
(* operator below maps the lease table before the call to the table after. *)
(* The module has no state of its own: the managers that share the table   *)
(* declare it.                                                             *)
(***************************************************************************)
EXTENDS Naturals

CONSTANTS Project,      \* the registered projects, one lease row each
          Owner,        \* "instanceId:workId": unique, work ids are UUIDs
          NoOwner       \* marks an absent row

LeaseRow == [owner : Owner \cup {NoOwner}, expiresAt : Nat]

NoLease == [owner |-> NoOwner, expiresAt |-> 0]

LeaseTable == [Project -> LeaseRow]

Unexpired(lease, now) == lease.expiresAt > now

\* Mutant: a lease about to expire is taken over.
AcquirableEarly(lease, owner, now) ==
    \/ lease = NoLease
    \/ lease.expiresAt <= now + 1
    \/ lease.owner = owner

\* Mutant: the conflict test is missing.
AcquirableAlways(lease, owner, now) == TRUE

\* The conflict test of acquire: an unexpired lease of another owner refuses
\* the caller; an expired one is taken over and an own one is extended.
Acquirable(lease, owner, now) ==
    \/ lease = NoLease
    \/ ~Unexpired(lease, now)
    \/ lease.owner = owner

Acquire(table, p, owner, now, ttl) ==
    [table EXCEPT ![p] = [owner |-> owner, expiresAt |-> now + ttl]]

\* renew looks at the owner only: a lease that expired and that nobody took
\* over is extended as if it had never lapsed.
Renewable(lease, owner) == lease.owner = owner

\* Conditional DELETE: a caller that lost its lease deletes nothing.
Release(table, p, owner) ==
    [table EXCEPT ![p] = IF @.owner = owner THEN NoLease ELSE @]

\* Mutant: a restart frees every project.
ReclaimAll(table, now) == [p \in Project |-> NoLease]

\* Run once at startup, before any request is served.
ReclaimExpired(table, now) ==
    [p \in Project |-> IF Unexpired(table[p], now) THEN table[p] ELSE NoLease]

=============================================================================
