----------------------------- MODULE ToolCalls -----------------------------
(***************************************************************************)
(* The life of a tool call outside its handler: transport.ts, the call     *)
(* method of mcp/tool-registry.ts, and the process that serves it.         *)
(*                                                                         *)
(* A refused request changes nothing, whichever of the many tests refuses  *)
(* it (HTTP, protocol metadata, authentication, permissions, arguments,    *)
(* mutation guard): they are one choice.                                   *)
(***************************************************************************)
EXTENDS Naturals

CONSTANTS Call,         \* requests, each sent once
          NoCall,
          Project,
          Key, NoKey,   \* idempotency keys
          Fingerprint,  \* hashes of the arguments
          Path,         \* project-relative paths
          MaxCrashes,   \* bound: crashes
          MaxTime       \* bound: the clock

ASSUME CallAssumption ==
    /\ NoCall \notin Call /\ NoKey \notin Key
    /\ MaxCrashes \in Nat /\ MaxTime \in Nat

VARIABLES now,
          up,           \* the agent is serving
          crashes,
          work,         \* what each call asks for
          pc            \* how far it is

callVars == <<now, up, crashes, work, pc>>

DatabaseWrite == {"query", "transaction"}
Restart == {"restart", "helperRestart"}     \* systemctl, or the host helper
FileWrite == {"write", "edit", "delete"}

Request == [kind     : DatabaseWrite \cup Restart \cup FileWrite \cup {"command"},
            project  : Project,
            explicit : Key \cup {NoKey},    \* idempotency_key
            id       : Key \cup {NoKey},    \* hash of principal and request id
            print    : Fingerprint,
            path     : Path]

Over == {"ok", "error", "lost"}     \* answered, or its agent is gone

Handling(c) == pc[c] \notin Over \cup {"new"}

\* derivedIdempotencyKey: a request without key is known by its id, which a
\* client that connects again may use again.
DerivedKey(c) ==
    IF work[c].explicit # NoKey THEN work[c].explicit ELSE work[c].id

\* The audit row follows the work: if it cannot be written the call that
\* succeeded is answered with an error.
Answers(done) == IF done THEN {"ok", "error"} ELSE {"error"}

Answered(c, done) == \E a \in Answers(done) : pc' = [pc EXCEPT ![c] = a]

GoOn(c, step) == pc' = [pc EXCEPT ![c] = step]

Refused(c) ==
    /\ up
    /\ pc[c] = "new"
    /\ GoOn(c, "error")
    /\ UNCHANGED <<now, up, crashes, work>>

\* Requests under way get no answer.
Lost == [c \in Call |-> IF Handling(c) THEN "lost" ELSE pc[c]]

=============================================================================
