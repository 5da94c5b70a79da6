------------------------- MODULE MCConcurrentCalls -------------------------
(***************************************************************************)
(* Workloads of three calls for TLC.  The hazards of files, of keys, of    *)
(* leases and of children are chosen so that each workload holds the calls *)
(* that meet in one of them.                                               *)
(***************************************************************************)
EXTENDS ConcurrentCalls, TLC

CONSTANTS c1, c2, c3, site, k, i, a, b, f, alias

Ask(kind, key, print, path) ==
    [kind |-> kind, project |-> site, explicit |-> key, id |-> i,
     print |-> print, path |-> path]

Three(x, y, z) == c1 :> x @@ c2 :> y @@ c3 :> z

MCRealPath == f :> f @@ alias :> f

\* A request without any key, which can only be refused.
Keyless == [Ask("query", NoKey, a, f) EXCEPT !.id = NoKey]

\* Edits and writes of a file, under two names; a retried write; the id of a
\* request used again for another one; a transaction beside a restart; a restart
\* by the helper beside a query; and commands.
MCWorkload ==
    { Three(Ask("edit", NoKey, a, f), Ask("edit", NoKey, a, alias), Ask("write", NoKey, a, f)),
      Three(Ask("edit", NoKey, a, f), Ask("write", NoKey, a, alias), Ask("delete", NoKey, a, f)),
      Three(Ask("query", k, a, f), Ask("query", k, a, f), Keyless),
      Three(Ask("query", NoKey, a, f), Ask("query", NoKey, b, f), Keyless),
      Three(Ask("transaction", k, a, f), Ask("restart", k, a, f), Keyless),
      Three(Keyless, Ask("query", NoKey, a, f), Ask("helperRestart", k, a, f)),
      Three(Ask("command", NoKey, a, f), Keyless, Ask("command", NoKey, a, f)) }

=============================================================================
