---------------------------- MODULE RateLimiter ----------------------------
(***************************************************************************)
(* FixedWindowRateLimiter of mcp/auth.ts: a JavaScript Map from keys to    *)
(* windows, here the sequence of its entries in insertion order.  Each     *)
(* method is synchronous, hence atomic: the operators give its answer and  *)
(* the table it leaves.  The limiter lives in memory only.                 *)
(***************************************************************************)
EXTENDS Naturals, Sequences, FiniteSetsExt, SequencesExt

CONSTANTS Window,       \* length of a window in ticks
          MaxKeys       \* bound on the number of entries

Expired(entry, now) == now - entry.startedAt >= Window

At(table, key) == {i \in DOMAIN table : table[i].key = key}

Running(table, key, now) == {i \in At(table, key) : ~Expired(table[i], now)}

Blocked(table, key, limit, now) ==
    \E i \in Running(table, key, now) : table[i].count >= limit

\* isBlocked forgets an expired window of the key it is asked about.
AfterIsBlocked(table, key, now) ==
    LET stale == At(table, key) \ Running(table, key, now)
    IN  IF stale = {} THEN table ELSE RemoveAt(table, Min(stale))

\* Mutant: an overfull table is left as it is.
Overfull(table, now) == table

\* prune: a call inserts one entry at most, so that one has to go; the first
\* expired one, else the first inserted, which may be a live or full window.
Prune(table, now) ==
    IF Len(table) <= MaxKeys THEN table
    ELSE LET expired == {i \in DOMAIN table : Expired(table[i], now)}
         IN  RemoveAt(table, IF expired = {} THEN 1 ELSE Min(expired))

\* The answer of consume.
Admits(table, key, limit, now) ==
    \A i \in Running(table, key, now) : table[i].count < limit

\* The table after consume.  Map.set on a present key keeps its position.
AfterConsume(table, key, limit, now) ==
    LET fresh == [key |-> key, startedAt |-> now, count |-> 1]
    IN  CASE At(table, key) = {} -> Prune(Append(table, fresh), now)
          [] At(table, key) # {} /\ Running(table, key, now) = {} ->
                [i \in DOMAIN table |-> IF table[i].key = key THEN fresh ELSE table[i]]
          [] OTHER ->
                [i \in DOMAIN table |->
                    IF table[i].key = key /\ table[i].count < limit
                    THEN [table[i] EXCEPT !.count = @ + 1] ELSE table[i]]

KeysOf(table) == {table[i].key : i \in DOMAIN table}

=============================================================================
