------------------------------- MODULE OAuth -------------------------------
(***************************************************************************)
(* The authorization server of oauth/oauth-service.ts: client              *)
(* registration, authorization codes, the two exchanges and the pruning of *)
(* their tables, on the credential store that auth-admin changes from      *)
(* another process.                                                        *)
(*                                                                         *)
(* A request is served without an await, so no other request of the agent  *)
(* comes between its statements; a crash, a storage error, the clock and   *)
(* auth-admin do.  An exchange therefore takes one step per statement,     *)
(* with `flight' for its local variables.  Of auth-admin only the disabling*)
(* of principals is here: no table of this module depends on the other     *)
(* commands, which are in Access.  Requests that fail a test before their  *)
(* first write change nothing and are not steps: parameters, PKCE, the     *)
(* owner's secret and the rate limits appear as free choices.              *)
(* Ids and tokens are random: one that was pruned never comes back.        *)
(***************************************************************************)
EXTENDS Credentials

CONSTANTS Client, Code, Refresh,
          AnyClient, AnyCode,       \* what an unused row holds
          OAuthPrincipal, OAuthDefinition,
          CodeTtl, AccessTtl, RefreshTtl,
          OrphanAge                 \* age at which unused clients are pruned

ASSUME OAuthAssumption ==
    /\ AnyClient \in Client /\ AnyCode \in Code
    /\ OAuthPrincipal \in Principal /\ OAuthDefinition \in Definition
    /\ CodeTtl \in Nat /\ AccessTtl \in Nat
    /\ RefreshTtl \in Nat /\ OrphanAge \in Nat

VARIABLES clients,      \* oauth_clients
          codes,        \* oauth_authorization_codes
          refresh,      \* oauth_refresh_tokens
          flight        \* the exchange being served

oauthVars == <<clients, codes, refresh, flight>>
vars == <<credVars, oauthVars>>

ClientRow == [state : {"NONE", "HERE", "GONE"}, createdAt : Nat]

CodeRow == [state     : {"NONE", "FRESH", "USED", "GONE"},
            client    : Client,
            offline   : BOOLEAN,        \* scope includes offline_access
            expiresAt : Nat]

RefreshRow == [state     : {"NONE", "LIVE", "REVOKED", "GONE"},
               client    : Client,
               grant     : Code,        \* history: the code it stems from
               expiresAt : Nat]

Flight == [pc      : {"idle", "credential", "refresh"},
           client  : Client,
           grant   : Code,
           offline : BOOLEAN]

Idle == [pc |-> "idle", client |-> AnyClient, grant |-> AnyCode, offline |-> FALSE]

TypeOK ==
    /\ CredentialTypeOK
    /\ clients \in [Client -> ClientRow]
    /\ codes \in [Code -> CodeRow]
    /\ refresh \in [Refresh -> RefreshRow]
    /\ flight \in Flight

Init ==
    /\ CredentialInit
    /\ clients = [c \in Client |-> [state |-> "NONE", createdAt |-> 0]]
    /\ codes = [k \in Code |-> [state |-> "NONE", client |-> AnyClient,
                                offline |-> FALSE, expiresAt |-> 0]]
    /\ refresh = [r \in Refresh |-> [state |-> "NONE", client |-> AnyClient,
                                     grant |-> AnyCode, expiresAt |-> 0]]
    /\ flight = Idle

Serving == agent = "OAUTH" /\ flight.pc = "idle"

(***************************************************************************)
(* Pruning.                                                                *)
(***************************************************************************)

PrunedCodes ==
    [k \in Code |->
        IF codes[k].state = "USED" \/ (codes[k].state = "FRESH" /\ codes[k].expiresAt < now)
        THEN [codes[k] EXCEPT !.state = "GONE"] ELSE codes[k]]

\* Revoked tokens stay until they expire.
PrunedRefresh ==
    [r \in Refresh |->
        IF refresh[r].state \in {"LIVE", "REVOKED"} /\ refresh[r].expiresAt < now
        THEN [refresh[r] EXCEPT !.state = "GONE"] ELSE refresh[r]]

\* Mutant: tokens are no reference to their client.
UnreferencedByCodes(c, ks, rs) ==
    \A k \in Code : ks[k].state \in {"FRESH", "USED"} => ks[k].client # c

Unreferenced(c, ks, rs) ==
    /\ \A k \in Code : ks[k].state \in {"FRESH", "USED"} => ks[k].client # c
    /\ \A r \in Refresh : rs[r].state \in {"LIVE", "REVOKED"} => rs[r].client # c

PrunedClients(ks, rs) ==
    [c \in Client |->
        IF /\ clients[c].state = "HERE"
           /\ clients[c].createdAt + OrphanAge < now
           /\ Unreferenced(c, ks, rs)
        THEN [clients[c] EXCEPT !.state = "GONE"] ELSE clients[c]]

(***************************************************************************)
(* The requests.                                                           *)
(***************************************************************************)

\* Mutant: a client is dated with the cutoff.
DatedBack(c) == [state |-> "HERE", createdAt |-> now - OrphanAge]

Registered(c) == [state |-> "HERE", createdAt |-> now]

\* register prunes expired codes, expired tokens and unused clients before it
\* looks at the request, and inserts the client of a valid one: `done' of these
\* four statements succeed, then the request is invalid or storage fails.
Register(c, done) ==
    /\ Serving
    /\ codes' = IF done >= 1 THEN PrunedCodes ELSE codes
    /\ refresh' = IF done >= 2 THEN PrunedRefresh ELSE refresh
    /\ LET kept == IF done >= 3 THEN PrunedClients(codes', refresh') ELSE clients
       IN  \/ done < 4 /\ clients' = kept
           \/ /\ done = 4
              /\ clients[c].state = "NONE"
              /\ clients' = [kept EXCEPT ![c] = Registered(c)]
    /\ UNCHANGED <<credVars, flight>>

\* authorizePost with the owner's secret.
Authorize(k, c, offline) ==
    /\ Serving
    /\ clients[c].state = "HERE"
    /\ codes[k].state = "NONE"
    /\ codes' = [codes EXCEPT ![k] = [state |-> "FRESH", client |-> c,
                                      offline |-> offline, expiresAt |-> now + CodeTtl]]
    /\ UNCHANGED <<credVars, clients, refresh, flight>>

\* Mutant: used_at is not looked at.
ExchangeAgain(k) ==
    /\ Serving
    /\ codes[k].state \in {"FRESH", "USED"} /\ codes[k].expiresAt > now
    /\ codes' = [codes EXCEPT ![k].state = "USED"]
    /\ flight' = [pc |-> "credential", client |-> codes[k].client,
                  grant |-> k, offline |-> codes[k].offline]
    /\ UNCHANGED <<credVars, clients, refresh>>

ExchangeAuthorizationCode(k) ==
    /\ Serving
    /\ codes[k].state = "FRESH" /\ codes[k].expiresAt > now
    /\ codes' = [codes EXCEPT ![k].state = "USED"]
    /\ flight' = [pc |-> "credential", client |-> codes[k].client,
                  grant |-> k, offline |-> codes[k].offline]
    /\ UNCHANGED <<credVars, clients, refresh>>

\* A refresh token was issued for offline access and keeps that scope.
ExchangeRefreshToken(r) ==
    /\ Serving
    /\ refresh[r].state = "LIVE" /\ refresh[r].expiresAt > now
    /\ refresh' = [refresh EXCEPT ![r].state = "REVOKED"]
    /\ flight' = [pc |-> "credential", client |-> refresh[r].client,
                  grant |-> refresh[r].grant, offline |-> TRUE]
    /\ UNCHANGED <<credVars, clients, codes>>

\* issueTokens, its transaction in the credential store ...
IssueAccessToken(t) ==
    /\ flight.pc = "credential"
    /\ clients[flight.client].state = "HERE"
    /\ CreateCredential(OAuthPrincipal, OAuthDefinition, t, "oauth", now + AccessTtl)
    /\ flight' = IF flight.offline THEN [flight EXCEPT !.pc = "refresh"] ELSE Idle
    /\ UNCHANGED <<now, agent, rotations, raced, clients, codes, refresh>>

\* ... and its INSERT.
IssueRefreshToken(r) ==
    /\ flight.pc = "refresh"
    /\ refresh[r].state = "NONE"
    /\ refresh' = [refresh EXCEPT ![r] = [state |-> "LIVE", client |-> flight.client,
                                          grant |-> flight.grant,
                                          expiresAt |-> now + RefreshTtl]]
    /\ flight' = Idle
    /\ UNCHANGED <<credVars, clients, codes>>

\* The client is unknown, the principal disabled or of another definition, or a
\* statement fails.  What was consumed stays consumed.
IssueFails ==
    /\ flight.pc # "idle"
    /\ flight' = Idle
    /\ UNCHANGED <<credVars, clients, codes, refresh>>

\* The constructor prunes too.
StartOAuth(named, oauth) ==
    /\ Start(named, oauth)
    /\ codes' = IF oauth THEN PrunedCodes ELSE codes
    /\ refresh' = IF oauth THEN PrunedRefresh ELSE refresh
    /\ UNCHANGED <<clients, flight>>

Crash == Stop /\ flight' = Idle /\ UNCHANGED <<clients, codes, refresh>>

Next ==
    \/ \E c \in Client, done \in 0 .. 4 : Register(c, done)
    \/ \E k \in Code, c \in Client, offline \in BOOLEAN : Authorize(k, c, offline)
    \/ \E k \in Code : ExchangeAuthorizationCode(k)
    \/ \E r \in Refresh : ExchangeRefreshToken(r)
    \/ \E t \in Credential : IssueAccessToken(t)
    \/ \E r \in Refresh : IssueRefreshToken(r)
    \/ IssueFails
    \/ \E named, oauth \in BOOLEAN : StartOAuth(named, oauth)
    \/ Crash
    \/ \E p \in Principal, enabled \in BOOLEAN :
            SetPrincipalEnabled(p, enabled) /\ UNCHANGED oauthVars
    \/ Tick /\ UNCHANGED oauthVars

Spec == Init /\ [][Next]_vars

(***************************************************************************)
(* Properties.                                                             *)
(***************************************************************************)

\* "Authorization codes are one-time", refresh tokens are "rotated on every
\* refresh" (docs/chatgpt-oauth.md): at most one refresh token of an
\* authorization can be used, and none before its code was redeemed, whatever
\* fails between the revocation of a token and the issue of the next.
OneLiveTokenPerGrant ==
    /\ \A r, s \in Refresh :
           /\ refresh[r].state = "LIVE" /\ refresh[s].state = "LIVE"
           /\ refresh[r].grant = refresh[s].grant
           => r = s
    /\ \A r \in Refresh :
           refresh[r].state = "LIVE" => codes[refresh[r].grant].state \in {"USED", "GONE"}

\* Pruning the unused clients never takes the client of a code or a token that
\* can still be exchanged.
TokensKeepTheirClient ==
    /\ \A k \in Code : codes[k].state = "FRESH" => clients[codes[k].client].state = "HERE"
    /\ \A r \in Refresh : refresh[r].state = "LIVE" => clients[refresh[r].client].state = "HERE"

=============================================================================
