---------------------------- MODULE Credentials ----------------------------
(***************************************************************************)
(* The principals and bearer credentials of security/auth-store.ts, what   *)
(* the auth-admin command does with them from a process of its own, and    *)
(* how the agent starts on them.                                           *)
(*                                                                         *)
(* A credential's token is as good as its id: tokens are random, and the   *)
(* one that is not, the token in the agent's environment, is told from the *)
(* others by `maker'.  Scopes and permissions of a principal are one       *)
(* `defn', which the store compares and never changes.                     *)
(***************************************************************************)
EXTENDS Naturals, FiniteSets

CONSTANTS Principal,      \* principal ids
          Definition,     \* kind, scopes and permissions of a principal
          NoDefinition,
          Credential,     \* credential ids
          Owner,          \* the principal of the token in the environment
          OwnerDefinition,
          BootstrapId,    \* the credential id in the environment
          BootstrapExpiry,\* and its expiry
          Admins,         \* number of auth-admin rotations under way at once
          MaxTime         \* bound on the clock

ASSUME CredentialAssumption ==
    /\ Owner \in Principal /\ BootstrapId \in Credential
    /\ OwnerDefinition \in Definition /\ NoDefinition \notin Definition
    /\ Admins \in Nat /\ MaxTime \in Nat /\ BootstrapExpiry \in Nat

VARIABLES now,
          agent,          \* the agent's process and how it admits callers
          principals,     \* auth_principals
          creds,          \* auth_credentials
          rotations,      \* rotations that passed their checks, not committed
          raced           \* lineages a rotation extended after a revocation

credVars == <<now, agent, principals, creds, rotations, raced>>

Forever == MaxTime + 1      \* a NULL expiry: the clock never gets there

Maker == {"env", "admin", "oauth"}

CredentialRow == [state     : {"NONE", "LIVE", "REVOKED"},
                  principal : Principal,
                  maker     : Maker,
                  expiresAt : Nat,
                  root      : Credential]   \* first credential of its lineage

NoCredential(c) == [state |-> "NONE", principal |-> Owner, maker |-> "env",
                    expiresAt |-> 0, root |-> c]

PrincipalRow == [defn : Definition \cup {NoDefinition}, enabled : BOOLEAN]

NoPrincipal == [defn |-> NoDefinition, enabled |-> FALSE]

CredentialTypeOK ==
    /\ now \in 0 .. MaxTime
    /\ agent \in {"DOWN", "BEARER", "OAUTH"}
    /\ principals \in [Principal -> PrincipalRow]
    /\ creds \in [Credential -> CredentialRow]
    /\ rotations \in SUBSET (Credential \X Credential)
    /\ raced \in SUBSET Credential

CredentialInit ==
    /\ now = 0
    /\ agent = "DOWN"
    /\ principals = [p \in Principal |-> NoPrincipal]
    /\ creds = [c \in Credential |-> NoCredential(c)]
    /\ rotations = {}
    /\ raced = {}

(***************************************************************************)
(* The store.                                                              *)
(***************************************************************************)

Present(p) == principals[p].defn # NoDefinition

\* verify, in the order of its refusals: unknown, disabled, revoked, expired.
Usable(c) ==
    /\ creds[c].state # "NONE"
    /\ principals[creds[c].principal].enabled
    /\ creds[c].state # "REVOKED"
    /\ creds[c].expiresAt > now

\* ensurePrincipal refuses another definition and a disabled principal.
Admissible(p, d) ==
    ~Present(p) \/ (principals[p].defn = d /\ principals[p].enabled)

EnsurePrincipal(p, d) ==
    [principals EXCEPT ![p] =
        IF Present(p) THEN @ ELSE [defn |-> d, enabled |-> TRUE]]

\* createCredential and the insertion of bootstrapCredential: the primary key
\* and the principal are tested again inside the transaction.
CreateCredential(p, d, c, maker, expiresAt) ==
    /\ creds[c].state = "NONE"
    /\ Admissible(p, d)
    /\ principals' = EnsurePrincipal(p, d)
    /\ creds' = [creds EXCEPT ![c] =
                    [state |-> "LIVE", principal |-> p, maker |-> maker,
                     expiresAt |-> expiresAt, root |-> c]]

(***************************************************************************)
(* auth-admin.  Its processes run beside the agent and beside each other.  *)
(***************************************************************************)

AdminCreate(p, d, c, expiresAt) ==
    /\ CreateCredential(p, d, c, "admin", expiresAt)
    /\ UNCHANGED <<now, agent, rotations, raced>>

\* rotateCredential reads both rows before its transaction begins ...
RotateCheck(old, new) ==
    /\ Cardinality(rotations) < Admins
    /\ old # new
    /\ creds[old].state = "LIVE"
    /\ creds[new].state = "NONE"
    /\ rotations' = rotations \cup {<<old, new>>}
    /\ UNCHANGED <<now, agent, principals, creds, raced>>

Successor(old) == [state |-> "LIVE", principal |-> creds[old].principal,
                   maker |-> "admin", expiresAt |-> Forever, root |-> creds[old].root]

\* Mutant: the transaction does not revoke.
RotateKeepingOld(old, new) == [creds EXCEPT ![new] = Successor(old)]

\* ... which inserts the new row and revokes the old one if it still is live;
\* that it was not is no error.
Rotated(old, new) ==
    [creds EXCEPT ![new] = Successor(old), ![old].state = "REVOKED"]

RotateCommit(old, new) ==
    /\ <<old, new>> \in rotations
    /\ rotations' = rotations \ {<<old, new>>}
    /\ IF creds[new].state = "NONE"
       THEN /\ creds' = Rotated(old, new)
            /\ raced' = IF creds[old].state = "LIVE" THEN raced
                        ELSE raced \cup {creds[old].root}
       ELSE UNCHANGED <<creds, raced>>          \* primary key: ROLLBACK
    /\ UNCHANGED <<now, agent, principals>>

Revoke(c) ==
    /\ creds[c].state = "LIVE"
    /\ creds' = [creds EXCEPT ![c].state = "REVOKED"]
    /\ UNCHANGED <<now, agent, principals, rotations, raced>>

SetPrincipalEnabled(p, enabled) ==
    /\ Present(p)
    /\ principals' = [principals EXCEPT ![p].enabled = enabled]
    /\ UNCHANGED <<now, agent, creds, rotations, raced>>

AdminNext ==
    \/ \E p \in Principal, d \in Definition, c \in Credential :
            AdminCreate(p, d, c, Forever)
    \/ \E old, new \in Credential : RotateCheck(old, new) \/ RotateCommit(old, new)
    \/ \E c \in Credential : Revoke(c)
    \/ \E p \in Principal, enabled \in BOOLEAN : SetPrincipalEnabled(p, enabled)

(***************************************************************************)
(* The start of the agent: the environment may name a token, may turn      *)
(* OAuth on, and may have changed since the last start.                    *)
(***************************************************************************)

\* Mutant: a known credential id is written again.
BootstrapUpsert ==
    /\ Admissible(Owner, OwnerDefinition)
    /\ principals' = EnsurePrincipal(Owner, OwnerDefinition)
    /\ creds' = [creds EXCEPT ![BootstrapId] =
                    [state |-> "LIVE", principal |-> Owner, maker |-> "env",
                     expiresAt |-> BootstrapExpiry, root |-> BootstrapId]]

\* A known id is accepted as it stands, revoked or not, if it is the same token
\* of the same principal; a different one refuses the start.
BootstrapCredential ==
    \/ CreateCredential(Owner, OwnerDefinition, BootstrapId, "env", BootstrapExpiry)
    \/ /\ creds[BootstrapId].state # "NONE"
       /\ creds[BootstrapId].maker = "env"
       /\ principals[Owner].defn = OwnerDefinition
       /\ UNCHANGED <<principals, creds>>

\* hasUsableCredential, asked after the bootstrap.  The row of a bootstrap
\* stays even if the start is refused.
Start(named, oauth) ==
    /\ agent = "DOWN"
    /\ IF named THEN BootstrapCredential ELSE UNCHANGED <<principals, creds>>
    /\ UNCHANGED <<now, rotations, raced>>
    /\ agent' = IF oauth THEN "OAUTH"
                ELSE IF \E c \in Credential : Usable(c)' THEN "BEARER" ELSE "DOWN"

Stop ==
    /\ agent # "DOWN"
    /\ agent' = "DOWN"
    /\ UNCHANGED <<now, principals, creds, rotations, raced>>

Tick ==
    /\ now < MaxTime
    /\ now' = now + 1
    /\ UNCHANGED <<agent, principals, creds, rotations, raced>>

(***************************************************************************)
(* Properties.                                                             *)
(***************************************************************************)

\* "Rotation creates a new credential id and revokes the old credential
\* atomically" (docs/security-model.md): of a credential and all it was
\* rotated into, one at most is live.  The exception is what the code allows:
\* a rotation whose old credential was revoked after it was read commits.
OneLiveSuccessor ==
    \A c, d \in Credential :
        /\ creds[c].state = "LIVE" /\ creds[d].state = "LIVE"
        /\ creds[c].root = creds[d].root
        /\ c # d
        => creds[c].root \in raced

=============================================================================
