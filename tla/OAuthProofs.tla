---------------------------- MODULE OAuthProofs ----------------------------
(***************************************************************************)
(* Proofs about OAuth: its types, that an authorization has one usable     *)
(* refresh token, and that pruning spares the clients in use.              *)
(***************************************************************************)
EXTENDS OAuth, CredentialsProofs, TLAPS

(***************************************************************************)
(* Types.                                                                  *)
(***************************************************************************)

LEMMA PrunedTyped ==
    ASSUME TypeOK
    PROVE  /\ PrunedCodes \in [Code -> CodeRow]
           /\ PrunedRefresh \in [Refresh -> RefreshRow]
           /\ \A ks, rs : PrunedClients(ks, rs) \in [Client -> ClientRow]
    BY DEF TypeOK, PrunedCodes, PrunedRefresh, PrunedClients, CodeRow, RefreshRow,
           ClientRow

LEMMA IdleTyped == Idle \in Flight
    BY OAuthAssumption DEF Idle, Flight

LEMMA TypeStep ==
    ASSUME TypeOK, [Next]_vars
    PROVE  TypeOK'
<1> USE DEF TypeOK
<1>1. ASSUME NEW c \in Client, NEW done \in 0 .. 4, Register(c, done)
      PROVE  TypeOK'
  <2>1. codes' \in [Code -> CodeRow] /\ refresh' \in [Refresh -> RefreshRow]
    BY <1>1, PrunedTyped DEF Register
  <2>2. clients' \in [Client -> ClientRow]
    BY <1>1, PrunedTyped DEF Register, Registered, ClientRow, CredentialTypeOK
  <2> QED
    BY <1>1, <2>1, <2>2 DEF Register, credVars, CredentialTypeOK
<1>2. ASSUME NEW k \in Code, NEW c \in Client, NEW offline \in BOOLEAN,
             Authorize(k, c, offline)
      PROVE  TypeOK'
  BY <1>2, OAuthAssumption DEF Authorize, credVars, CredentialTypeOK, CodeRow
<1>3. ASSUME NEW k \in Code, ExchangeAuthorizationCode(k)
      PROVE  TypeOK'
  BY <1>3 DEF ExchangeAuthorizationCode, credVars, CredentialTypeOK, CodeRow, Flight
<1>4. ASSUME NEW r \in Refresh, ExchangeRefreshToken(r)
      PROVE  TypeOK'
  BY <1>4 DEF ExchangeRefreshToken, credVars, CredentialTypeOK, RefreshRow, Flight
<1>5. ASSUME NEW t \in Credential, IssueAccessToken(t)
      PROVE  TypeOK'
  <2>1. now + AccessTtl \in Nat
    BY OAuthAssumption DEF CredentialTypeOK
  <2>2. CredentialTypeOK'
    BY <1>5, <2>1, CreateTyped, OAuthAssumption
       DEF IssueAccessToken, Maker, CredentialTypeOK
  <2> QED
    BY <1>5, <2>2, IdleTyped DEF IssueAccessToken, Flight
<1>6. ASSUME NEW r \in Refresh, IssueRefreshToken(r)
      PROVE  TypeOK'
  BY <1>6, IdleTyped, OAuthAssumption
     DEF IssueRefreshToken, credVars, CredentialTypeOK, RefreshRow, Flight
<1>7. ASSUME IssueFails
      PROVE  TypeOK'
  BY <1>7, IdleTyped DEF IssueFails, credVars, CredentialTypeOK
<1>8. ASSUME NEW named \in BOOLEAN, NEW oauth \in BOOLEAN, StartOAuth(named, oauth)
      PROVE  TypeOK'
  BY <1>8, StartTyped, PrunedTyped DEF StartOAuth
<1>9. ASSUME Crash
      PROVE  TypeOK'
  BY <1>9, StopTyped, IdleTyped DEF Crash
<1>10. ASSUME NEW p \in Principal, NEW enabled \in BOOLEAN,
              SetPrincipalEnabled(p, enabled), UNCHANGED oauthVars
       PROVE  TypeOK'
  BY <1>10, SetPrincipalTyped DEF oauthVars
<1>11. ASSUME Tick, UNCHANGED oauthVars
       PROVE  TypeOK'
  BY <1>11, TickTyped DEF oauthVars
<1>12. CASE UNCHANGED vars
  BY <1>12 DEF vars, credVars, oauthVars, CredentialTypeOK
<1> QED
  BY <1>1, <1>2, <1>3, <1>4, <1>5, <1>6, <1>7, <1>8, <1>9, <1>10, <1>11, <1>12
     DEF Next

LEMMA InitTyped == Init => TypeOK
  BY CredentialAssumption, OAuthAssumption
     DEF Init, TypeOK, CredentialInit, CredentialTypeOK, NoPrincipal, PrincipalRow,
         NoCredential, CredentialRow, Maker, ClientRow, CodeRow, RefreshRow, Idle, Flight

\* The tables of the authorization server and of the credential store keep
\* their shape: every row, the exchange in flight and the clock.
THEOREM TypeCorrect == Spec => []TypeOK
<1>1. Init => TypeOK
  BY InitTyped
<1>2. TypeOK /\ [Next]_vars => TypeOK'
  BY TypeStep
<1> QED
  BY <1>1, <1>2, PTL DEF Spec

(***************************************************************************)
(* One usable refresh token for each authorization.                        *)
(*                                                                         *)
(* What makes it inductive: a token stems from a redeemed code, and the    *)
(* exchange in flight belongs to a redeemed code that has no usable token, *)
(* because it took the only one before it began to issue.                  *)
(***************************************************************************)

Redeemed(k) == codes[k].state \in {"USED", "GONE"}

GrantInv ==
    /\ \A r, s \in Refresh :
           /\ refresh[r].state = "LIVE" /\ refresh[s].state = "LIVE"
           /\ refresh[r].grant = refresh[s].grant
           => r = s
    /\ \A r \in Refresh : refresh[r].state = "LIVE" => Redeemed(refresh[r].grant)
    /\ flight.pc # "idle" =>
           /\ Redeemed(flight.grant)
           /\ \A r \in Refresh :
                  refresh[r].state = "LIVE" => refresh[r].grant # flight.grant

\* Pruning takes usable tokens away and redeems no code back.
LEMMA PrunedGrants ==
    ASSUME TypeOK, GrantInv, flight.pc = "idle", flight' = flight \/ flight' = Idle,
           codes' \in {codes, PrunedCodes}, refresh' \in {refresh, PrunedRefresh}
    PROVE  GrantInv'
<1>1. \A r \in Refresh : /\ refresh'[r].grant = refresh[r].grant
                         /\ refresh'[r].state = "LIVE" => refresh[r].state = "LIVE"
  BY DEF PrunedRefresh, TypeOK, RefreshRow
<1>2. \A k \in Code : Redeemed(k) => Redeemed(k)'
  BY DEF PrunedCodes, Redeemed, TypeOK, CodeRow
<1>3. \A r \in Refresh : refresh[r].grant \in Code
  BY DEF TypeOK, RefreshRow
<1>4. flight'.pc = "idle"
  BY DEF Idle
<1>5. \A r, s \in Refresh : 
           /\ refresh'[r].state = "LIVE" /\ refresh'[s].state = "LIVE"
           /\ refresh'[r].grant = refresh'[s].grant
           => r = s
  BY <1>1 DEF GrantInv
<1>6. \A r \in Refresh : refresh'[r].state = "LIVE" => Redeemed(refresh[r].grant)'
  BY <1>1, <1>2, <1>3 DEF GrantInv, Redeemed
<1> QED
  BY <1>4, <1>5, <1>6 DEF GrantInv, Redeemed

LEMMA GrantStep ==
    ASSUME TypeOK, GrantInv, [Next]_vars
    PROVE  GrantInv'
<1> USE DEF Redeemed
<1>1. ASSUME NEW c \in Client, NEW done \in 0 .. 4, Register(c, done)
      PROVE  GrantInv'
  BY <1>1, PrunedGrants DEF Register, Serving
<1>2. ASSUME NEW k \in Code, NEW c \in Client, NEW offline \in BOOLEAN,
             Authorize(k, c, offline)
      PROVE  GrantInv'
  BY <1>2 DEF Authorize, Serving, GrantInv, TypeOK, RefreshRow, Flight, CodeRow
<1>3. ASSUME NEW k \in Code, ExchangeAuthorizationCode(k)
      PROVE  GrantInv'
  BY <1>3 DEF ExchangeAuthorizationCode, Serving, GrantInv, TypeOK, RefreshRow, CodeRow
<1>4. ASSUME NEW r \in Refresh, ExchangeRefreshToken(r)
      PROVE  GrantInv'
  BY <1>4 DEF ExchangeRefreshToken, Serving, GrantInv, TypeOK, RefreshRow
<1>5. ASSUME NEW t \in Credential, IssueAccessToken(t)
      PROVE  GrantInv'
  BY <1>5 DEF IssueAccessToken, GrantInv, TypeOK, Flight, Idle
<1>6. ASSUME NEW r \in Refresh, IssueRefreshToken(r)
      PROVE  GrantInv'
  BY <1>6 DEF IssueRefreshToken, GrantInv, TypeOK, RefreshRow, Flight, Idle
<1>7. ASSUME IssueFails
      PROVE  GrantInv'
  BY <1>7 DEF IssueFails, GrantInv, Idle
<1>8. ASSUME NEW named \in BOOLEAN, NEW oauth \in BOOLEAN, StartOAuth(named, oauth)
      PROVE  GrantInv'
  <2>1. CASE flight.pc = "idle"
    BY <1>8, <2>1, PrunedGrants DEF StartOAuth
  <2>2. CASE flight.pc # "idle"
    <3>1. flight \in Flight /\ UNCHANGED flight
      BY <1>8 DEF StartOAuth, TypeOK
    <3>2. \A r \in Refresh : /\ refresh'[r].grant = refresh[r].grant
                             /\ refresh[r].grant \in Code
                             /\ refresh'[r].state = "LIVE" => refresh[r].state = "LIVE"
      BY <1>8 DEF StartOAuth, PrunedRefresh, TypeOK, RefreshRow
    <3>3. \A k \in Code : Redeemed(k) => Redeemed(k)'
      BY <1>8 DEF StartOAuth, PrunedCodes, TypeOK, CodeRow
    <3> QED
      BY <3>1, <3>2, <3>3 DEF GrantInv, Flight
  <2> QED
    BY <2>1, <2>2
<1>9. ASSUME Crash
      PROVE  GrantInv'
  BY <1>9 DEF Crash, GrantInv, Idle
<1>10. CASE UNCHANGED oauthVars
  BY <1>10 DEF oauthVars, GrantInv
<1> QED
  BY <1>1, <1>2, <1>3, <1>4, <1>5, <1>6, <1>7, <1>8, <1>9, <1>10 DEF Next, vars

\* Replayed codes, replayed tokens, crashes and storage errors between the
\* statements of an exchange never leave two usable refresh tokens to one
\* authorization (exchangeAuthorizationCode, exchangeRefreshToken, issueTokens).
THEOREM OneTokenPerGrant == Spec => []OneLiveTokenPerGrant
<1>1. Init => TypeOK /\ GrantInv
  BY InitTyped DEF Init, GrantInv, Idle
<1>2. TypeOK /\ GrantInv /\ [Next]_vars => TypeOK' /\ GrantInv'
  BY TypeStep, GrantStep
<1>3. GrantInv => OneLiveTokenPerGrant
  BY DEF GrantInv, OneLiveTokenPerGrant, Redeemed
<1> QED
  BY <1>1, <1>2, <1>3, PTL DEF Spec

(***************************************************************************)
(* Clients in use are kept.                                                *)
(*                                                                         *)
(* The invariant is about every row that refers to a client, used and      *)
(* revoked ones too: it is what the foreign keys of the tables say.        *)
(***************************************************************************)

Here(c) == clients[c].state = "HERE"

RowsKeepTheirClient ==
    /\ \A k \in Code : codes[k].state \in {"FRESH", "USED"} => Here(codes[k].client)
    /\ \A r \in Refresh : refresh[r].state \in {"LIVE", "REVOKED"} => Here(refresh[r].client)
    /\ flight.pc # "idle" => Here(flight.client)

LEMMA ClientStep ==
    ASSUME TypeOK, RowsKeepTheirClient, [Next]_vars
    PROVE  RowsKeepTheirClient'
<1> USE DEF Here
<1>1. ASSUME NEW c \in Client, NEW done \in 0 .. 4, Register(c, done)
      PROVE  RowsKeepTheirClient'
  <2>1. /\ codes' \in {codes, PrunedCodes}
        /\ refresh' \in {refresh, PrunedRefresh}
        /\ flight' = flight /\ flight.pc = "idle"
    BY <1>1 DEF Register, Serving
  <2>2. /\ \A k \in Code : /\ codes'[k].client = codes[k].client
                           /\ codes[k].client \in Client
                           /\ codes'[k].state \in {"FRESH", "USED"}
                                => codes[k].state \in {"FRESH", "USED"}
        /\ \A r \in Refresh : /\ refresh'[r].client = refresh[r].client
                              /\ refresh[r].client \in Client
                              /\ refresh'[r].state \in {"LIVE", "REVOKED"}
                                   => refresh[r].state \in {"LIVE", "REVOKED"}
    BY <2>1 DEF PrunedCodes, PrunedRefresh, TypeOK, CodeRow, RefreshRow
  <2>3. ASSUME NEW x \in Client, Here(x), ~Unreferenced(x, codes', refresh')
        PROVE  Here(x)'
    <3>1. PrunedClients(codes', refresh')[x] = clients[x]
      BY <2>3 DEF PrunedClients
    <3> QED
      BY <1>1, <2>3, <3>1 DEF Register, Registered, PrunedClients, TypeOK, ClientRow
  <2>4. ASSUME NEW k \in Code, codes'[k].state \in {"FRESH", "USED"}
        PROVE  Here(codes[k].client)'
    <3>1. codes'[k].client = codes[k].client /\ codes[k].client \in Client
      BY <2>2
    <3>2. Here(codes[k].client)
      BY <2>2, <2>4 DEF RowsKeepTheirClient
    <3>3. ~Unreferenced(codes[k].client, codes', refresh')
      BY <2>4, <3>1 DEF Unreferenced
    <3> QED
      BY <2>3, <3>1, <3>2, <3>3
  <2>5. ASSUME NEW r \in Refresh, refresh'[r].state \in {"LIVE", "REVOKED"}
        PROVE  Here(refresh[r].client)'
    <3>1. refresh'[r].client = refresh[r].client /\ refresh[r].client \in Client
      BY <2>2
    <3>2. Here(refresh[r].client)
      BY <2>2, <2>5 DEF RowsKeepTheirClient
    <3>3. ~Unreferenced(refresh[r].client, codes', refresh')
      BY <2>5, <3>1 DEF Unreferenced
    <3> QED
      BY <2>3, <3>1, <3>2, <3>3
  <2> QED
    BY <2>1, <2>4, <2>5 DEF RowsKeepTheirClient
<1>2. ASSUME NEW k \in Code, NEW c \in Client, NEW offline \in BOOLEAN,
             Authorize(k, c, offline)
      PROVE  RowsKeepTheirClient'
  BY <1>2 DEF Authorize, RowsKeepTheirClient, TypeOK, CodeRow
<1>3. ASSUME NEW k \in Code, ExchangeAuthorizationCode(k)
      PROVE  RowsKeepTheirClient'
  BY <1>3 DEF ExchangeAuthorizationCode, RowsKeepTheirClient, TypeOK, CodeRow
<1>4. ASSUME NEW r \in Refresh, ExchangeRefreshToken(r)
      PROVE  RowsKeepTheirClient'
  BY <1>4 DEF ExchangeRefreshToken, RowsKeepTheirClient, TypeOK, RefreshRow
<1>5. ASSUME NEW t \in Credential, IssueAccessToken(t)
      PROVE  RowsKeepTheirClient'
  BY <1>5 DEF IssueAccessToken, RowsKeepTheirClient, TypeOK, Flight, Idle
<1>6. ASSUME NEW r \in Refresh, IssueRefreshToken(r)
      PROVE  RowsKeepTheirClient'
  BY <1>6 DEF IssueRefreshToken, RowsKeepTheirClient, TypeOK, RefreshRow, Idle
<1>7. ASSUME IssueFails
      PROVE  RowsKeepTheirClient'
  BY <1>7 DEF IssueFails, RowsKeepTheirClient, Idle
<1>8. ASSUME NEW named \in BOOLEAN, NEW oauth \in BOOLEAN, StartOAuth(named, oauth)
      PROVE  RowsKeepTheirClient'
  BY <1>8 DEF StartOAuth, PrunedCodes, PrunedRefresh, RowsKeepTheirClient, TypeOK,
              CodeRow, RefreshRow
<1>9. ASSUME Crash
      PROVE  RowsKeepTheirClient'
  BY <1>9 DEF Crash, RowsKeepTheirClient, Idle
<1>10. CASE UNCHANGED oauthVars
  BY <1>10 DEF oauthVars, RowsKeepTheirClient
<1> QED
  BY <1>1, <1>2, <1>3, <1>4, <1>5, <1>6, <1>7, <1>8, <1>9, <1>10 DEF Next, vars

\* pruneOrphanClients, run by any registration and stopped by an error after
\* any of its statements, never takes the client of a usable code or token.
THEOREM ClientsKept == Spec => []TokensKeepTheirClient
<1>1. Init => TypeOK /\ RowsKeepTheirClient
  BY InitTyped DEF Init, RowsKeepTheirClient, Idle
<1>2. TypeOK /\ RowsKeepTheirClient /\ [Next]_vars => TypeOK' /\ RowsKeepTheirClient'
  BY TypeStep, ClientStep
<1>3. RowsKeepTheirClient => TokensKeepTheirClient
  BY DEF RowsKeepTheirClient, TokensKeepTheirClient, Here
<1> QED
  BY <1>1, <1>2, <1>3, PTL DEF Spec

=============================================================================
