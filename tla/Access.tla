------------------------------- MODULE Access -------------------------------
(***************************************************************************)
(* Who gets in: the bearer authenticator of mcp/auth.ts in front of the    *)
(* credentials, with a limiter of failed attempts per source and one of    *)
(* requests per principal, while auth-admin changes the credentials, the   *)
(* clock runs and the agent restarts.  Requests refused before they are    *)
(* authenticated (path, method, size, content type, origin) and requests   *)
(* of a blocked source change nothing and are not steps.                   *)
(***************************************************************************)
EXTENDS Credentials, RateLimiter

CONSTANTS Source,         \* remote addresses
          AttemptLimit,   \* attemptsPerMinute
          RequestLimit    \* requestsPerMinute

ASSUME AccessAssumption ==
    /\ Window \in Nat \ {0} /\ MaxKeys \in Nat \ {0}
    /\ Source \cap Principal = {}
    /\ AttemptLimit \in Nat \ {0} /\ RequestLimit \in Nat \ {0}

VARIABLES attempts,       \* the limiter of failures, by source
          requests,       \* the limiter of requests, by principal
          hits            \* what each let through in the last n + 1 ticks, by n

vars == <<credVars, attempts, requests, hits>>

Untouched == [n \in 0 .. Window - 1 |-> 0]

Init ==
    /\ CredentialInit
    /\ attempts = <<>>
    /\ requests = <<>>
    /\ hits = [k \in Source \cup Principal |-> Untouched]

\* An entry that prune took before its window ended is a new start for its key:
\* the bound below is promised between evictions.
Counted(table, key, limit) ==
    LET after   == AfterConsume(table, key, limit, now)
        evicted == {k \in KeysOf(table) \ KeysOf(after) : Running(table, k, now) # {}}
    IN  [k \in DOMAIN hits |->
            CASE k \in evicted -> Untouched
              [] k = key /\ Admits(table, key, limit, now) ->
                    [n \in DOMAIN hits[k] |-> hits[k][n] + 1]
              [] OTHER -> hits[k]]

\* No bearer token, a malformed one, or one that verify refuses.
FailAuthentication(s) ==
    LET asked == AfterIsBlocked(attempts, s, now)
    IN  /\ agent # "DOWN"
        /\ ~Blocked(attempts, s, AttemptLimit, now)
        /\ attempts' = AfterConsume(asked, s, AttemptLimit, now)
        /\ hits' = Counted(asked, s, AttemptLimit)
        /\ UNCHANGED <<credVars, requests>>

\* A token that verify accepts; over the limit it is answered 429.
Authenticate(s, c) ==
    LET p == creds[c].principal
    IN  /\ agent # "DOWN"
        /\ ~Blocked(attempts, s, AttemptLimit, now)
        /\ Usable(c)
        /\ attempts' = AfterIsBlocked(attempts, s, now)
        /\ requests' = AfterConsume(requests, p, RequestLimit, now)
        /\ hits' = Counted(requests, p, RequestLimit)
        /\ UNCHANGED credVars

\* The limiters are objects of the process.
StartAgent(named, oauth) ==
    /\ Start(named, oauth)
    /\ attempts' = <<>>
    /\ requests' = <<>>
    /\ hits' = [k \in DOMAIN hits |-> Untouched]

StopAgent == Stop /\ UNCHANGED <<attempts, requests, hits>>

Admin == AdminNext /\ UNCHANGED <<attempts, requests, hits>>

Aged(sums) == [n \in 0 .. Window - 1 |-> IF n = 0 THEN 0 ELSE sums[n - 1]]

Clock ==
    /\ Tick
    /\ hits' = [k \in DOMAIN hits |-> Aged(hits[k])]
    /\ UNCHANGED <<attempts, requests>>

Next ==
    \/ \E s \in Source : FailAuthentication(s)
    \/ \E s \in Source, c \in Credential : Authenticate(s, c)
    \/ \E named, oauth \in BOOLEAN : StartAgent(named, oauth)
    \/ StopAgent
    \/ Admin
    \/ Clock

Spec == Init /\ [][Next]_vars

(***************************************************************************)
(* Properties.                                                             *)
(***************************************************************************)

Total(k) == hits[k][Window - 1]

\* "Authentication attempts are bounded per remote address and authenticated
\* requests are bounded per principal" (docs/security-model.md).  In any Window
\* ticks in a row a fixed window lets through less than twice its limit, unless
\* the entry was evicted or the agent restarted; and the tables stay bounded.
LimitsHold ==
    /\ Len(attempts) <= MaxKeys /\ Len(requests) <= MaxKeys
    /\ \A s \in Source : Total(s) < 2 * AttemptLimit
    /\ \A p \in Principal : Total(p) < 2 * RequestLimit

\* Only the operator lets a credential in again: whatever the agent does, a
\* start with the same environment included, a revoked or expired credential
\* and one of a disabled principal stay out.
AgentRevivesNothing ==
    [][ (\E c \in Credential : creds[c].state # "NONE" /\ ~Usable(c) /\ Usable(c)')
            => AdminNext ]_vars

=============================================================================
