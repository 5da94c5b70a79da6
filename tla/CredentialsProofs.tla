------------------------- MODULE CredentialsProofs -------------------------
(***************************************************************************)
(* Lemmas about Credentials for the modules that build on it: its types,   *)
(* and the invariant about the lineages of credentials.                    *)
(***************************************************************************)
EXTENDS Credentials, TLAPS

(***************************************************************************)
(* Types.                                                                  *)
(***************************************************************************)

\* A credential row is created well typed, and so is its principal.
LEMMA CreateTyped ==
    ASSUME CredentialTypeOK, NEW p \in Principal, NEW d \in Definition,
           NEW c \in Credential, NEW maker \in Maker, NEW expiry \in Nat,
           CreateCredential(p, d, c, maker, expiry)
    PROVE  /\ principals' \in [Principal -> PrincipalRow]
           /\ creds' \in [Credential -> CredentialRow]
    BY DEF CredentialTypeOK, CreateCredential, EnsurePrincipal, PrincipalRow,
           CredentialRow

LEMMA StartTyped ==
    ASSUME CredentialTypeOK, NEW named, NEW oauth, Start(named, oauth)
    PROVE  CredentialTypeOK'
<1>1. /\ principals' \in [Principal -> PrincipalRow]
      /\ creds' \in [Credential -> CredentialRow]
  <2>1. CASE CreateCredential(Owner, OwnerDefinition, BootstrapId, "env", BootstrapExpiry)
    BY <2>1, CreateTyped, CredentialAssumption DEF Maker
  <2>2. CASE UNCHANGED <<principals, creds>>
    BY <2>2 DEF CredentialTypeOK
  <2> QED
    BY <2>1, <2>2 DEF Start, BootstrapCredential
<1> QED
  BY <1>1 DEF CredentialTypeOK, Start

LEMMA SetPrincipalTyped ==
    ASSUME CredentialTypeOK, NEW p \in Principal, NEW enabled \in BOOLEAN,
           SetPrincipalEnabled(p, enabled)
    PROVE  CredentialTypeOK'
    BY DEF CredentialTypeOK, SetPrincipalEnabled, PrincipalRow

LEMMA TickTyped ==
    ASSUME CredentialTypeOK, Tick
    PROVE  CredentialTypeOK'
    BY CredentialAssumption DEF CredentialTypeOK, Tick

LEMMA StopTyped ==
    ASSUME CredentialTypeOK, Stop
    PROVE  CredentialTypeOK'
    BY DEF CredentialTypeOK, Stop

\* What a rotation inserts.
LEMMA SuccessorRow ==
    ASSUME CredentialTypeOK, NEW old \in Credential
    PROVE  /\ Successor(old) \in CredentialRow
           /\ Successor(old).state = "LIVE" /\ Successor(old).root = creds[old].root
           /\ Successor(old).principal = creds[old].principal
<1>1. creds[old] \in CredentialRow
  BY DEF CredentialTypeOK
<1>2. Forever \in Nat
  BY CredentialAssumption DEF Forever
<1> QED
  BY <1>1, <1>2 DEF Successor, CredentialRow, Maker

LEMMA AdminTyped ==
    ASSUME CredentialTypeOK, AdminNext
    PROVE  CredentialTypeOK'
<1>1. ASSUME NEW p \in Principal, NEW d \in Definition, NEW c \in Credential,
             AdminCreate(p, d, c, Forever)
      PROVE  CredentialTypeOK'
  <2>1. Forever \in Nat /\ "admin" \in Maker
    BY CredentialAssumption DEF Forever, Maker
  <2> QED
    BY <1>1, <2>1, CreateTyped DEF AdminCreate, CredentialTypeOK
<1>2. ASSUME NEW old \in Credential, NEW new \in Credential,
             RotateCheck(old, new) \/ RotateCommit(old, new)
      PROVE  CredentialTypeOK'
  <2>1. Rotated(old, new) \in [Credential -> CredentialRow]
    BY SuccessorRow DEF CredentialTypeOK, Rotated, CredentialRow
  <2>2. creds[old].root \in Credential
    BY DEF CredentialTypeOK, CredentialRow
  <2> QED
    BY <1>2, <2>1, <2>2 DEF RotateCheck, RotateCommit, CredentialTypeOK
<1>3. ASSUME NEW c \in Credential, Revoke(c)
      PROVE  CredentialTypeOK'
  BY <1>3 DEF Revoke, CredentialTypeOK, CredentialRow
<1> QED
  BY <1>1, <1>2, <1>3, SetPrincipalTyped DEF AdminNext

(***************************************************************************)
(* Lineages.  OneLiveSuccessor needs to know that a new credential begins  *)
(* a lineage nobody belongs to yet, and that a rotation under way extends  *)
(* one that exists.                                                        *)
(***************************************************************************)

Exists(c) == creds[c].state # "NONE"

LineageInv ==
    /\ \A c \in Credential :
           IF Exists(c)
           THEN Present(creds[c].principal) /\ Exists(creds[c].root)
           ELSE creds[c].root = c
    /\ \A r \in rotations : Exists(r[1]) /\ r[1] # r[2]
    /\ OneLiveSuccessor

LEMMA LineageInit == CredentialInit => LineageInv
BY DEF CredentialInit, LineageInv, Exists, NoCredential, OneLiveSuccessor

LEMMA LineageUnchanged ==
    ASSUME LineageInv, UNCHANGED <<principals, creds, rotations, raced>>
    PROVE  LineageInv'
BY DEF LineageInv, Exists, Present, OneLiveSuccessor

LEMMA LineageCreate ==
    ASSUME CredentialTypeOK, LineageInv, NEW p \in Principal, NEW d \in Definition,
           NEW c \in Credential, NEW maker \in Maker, NEW expiry \in Nat,
           CreateCredential(p, d, c, maker, expiry), UNCHANGED <<rotations, raced>>
    PROVE  LineageInv'
<1>1. /\ ~Exists(c)
      /\ creds' = [creds EXCEPT ![c] =
                      [state |-> "LIVE", principal |-> p, maker |-> maker,
                       expiresAt |-> expiry, root |-> c]]
      /\ principals' = EnsurePrincipal(p, d)
  BY DEF CreateCredential, Exists
<1>2. /\ principals \in [Principal -> PrincipalRow] /\ creds \in [Credential -> CredentialRow]
      /\ \A e \in Credential : creds[e].root \in Credential /\ creds[e].principal \in Principal
      /\ \A r \in rotations : r[1] \in Credential
  BY DEF CredentialTypeOK, CredentialRow
<1>3. /\ Present(p)'
      /\ \A q \in Principal : Present(q) => Present(q)'
  BY <1>1, <1>2, CredentialAssumption DEF EnsurePrincipal, Present
<1>4. /\ Exists(c)' /\ creds'[c].root = c /\ creds'[c].principal = p
      /\ \A e \in Credential \ {c} : creds'[e] = creds[e]
  BY <1>1, <1>2 DEF Exists
<1>5. \A e \in Credential : Exists(e) => Exists(e)'
  BY <1>4 DEF Exists
<1>6. \A e \in Credential \ {c} : Exists(e) => creds[e].root # c
  BY <1>1 DEF LineageInv
<1>7. \A e \in Credential : IF Exists(e)' THEN Present(creds[e].principal)' /\ Exists(creds[e].root)'
                            ELSE creds'[e].root = e
  <2> SUFFICES ASSUME NEW e \in Credential
               PROVE  IF Exists(e)' THEN Present(creds[e].principal)' /\ Exists(creds[e].root)'
                      ELSE creds'[e].root = e
    OBVIOUS
  <2>1. CASE e = c
    BY <1>3, <1>4, <2>1 DEF Exists, Present
  <2>2. CASE e # c
    <3>1. creds'[e] = creds[e]
      BY <1>4, <2>2
    <3>2. CASE Exists(e)
      <4>1. Present(creds[e].principal) /\ Exists(creds[e].root)
        BY <3>2 DEF LineageInv
      <4>2. Present(creds[e].principal)' /\ Exists(creds[e].root)'
        BY <1>2, <1>3, <1>5, <3>1, <4>1 DEF Present, Exists
      <4> QED
        BY <3>1, <3>2, <4>2 DEF Exists
    <3>3. CASE ~Exists(e)
      BY <3>1, <3>3 DEF LineageInv, Exists
    <3> QED
      BY <3>2, <3>3
  <2> QED
    BY <2>1, <2>2
<1>8. OneLiveSuccessor'
  <2> SUFFICES ASSUME NEW e \in Credential, NEW f \in Credential,
                      creds'[e].state = "LIVE", creds'[f].state = "LIVE",
                      creds'[e].root = creds'[f].root, e # f
               PROVE  creds'[e].root \in raced'
    BY DEF OneLiveSuccessor
  <2>1. e # c /\ f # c
    BY <1>4, <1>6 DEF Exists
  <2> QED
    BY <1>4, <2>1 DEF LineageInv, OneLiveSuccessor
<1>9. \A r \in rotations' : Exists(r[1])' /\ r[1] # r[2]
  BY <1>2, <1>5 DEF LineageInv
<1> QED
  BY <1>7, <1>8, <1>9 DEF LineageInv

LEMMA LineageStart ==
    ASSUME CredentialTypeOK, LineageInv, NEW named, NEW oauth, Start(named, oauth)
    PROVE  LineageInv'
<1>1. CASE CreateCredential(Owner, OwnerDefinition, BootstrapId, "env", BootstrapExpiry)
  BY <1>1, LineageCreate, CredentialAssumption DEF Maker, Start
<1>2. CASE UNCHANGED <<principals, creds>>
  BY <1>2, LineageUnchanged DEF Start
<1> QED
  BY <1>1, <1>2 DEF Start, BootstrapCredential

\* A rotation takes the place of its old credential, or the lineage is raced.
LEMMA LineageRotate ==
    ASSUME CredentialTypeOK, LineageInv, NEW old \in Credential, NEW new \in Credential,
           RotateCommit(old, new)
    PROVE  LineageInv'
<1>1. /\ creds \in [Credential -> CredentialRow]
      /\ \A e \in Credential : creds[e].root \in Credential
      /\ \A r \in rotations : r[1] \in Credential
  BY DEF CredentialTypeOK, CredentialRow
<1>2. Exists(old) /\ old # new
  BY DEF RotateCommit, LineageInv
<1>3. rotations' \subseteq rotations /\ principals' = principals
  BY DEF RotateCommit
<1>4. CASE Exists(new)
  BY <1>3, <1>4 DEF RotateCommit, LineageInv, Exists, Present, OneLiveSuccessor
<1>5. CASE ~Exists(new)
  <2>1. /\ creds' = Rotated(old, new)
        /\ raced' = IF creds[old].state = "LIVE" THEN raced ELSE raced \cup {creds[old].root}
    BY <1>5 DEF RotateCommit, Exists
  <2>2. /\ creds'[new].state = "LIVE" /\ creds'[new].root = creds[old].root
        /\ creds'[new].principal = creds[old].principal
        /\ creds'[old].state = "REVOKED" /\ creds'[old].root = creds[old].root
        /\ creds'[old].principal = creds[old].principal
        /\ \A e \in Credential \ {old, new} : creds'[e] = creds[e]
    BY <1>1, <1>2, <2>1, SuccessorRow DEF Rotated, CredentialRow
  <2>3. \A e \in Credential : Exists(e) => Exists(e)'
    BY <2>2 DEF Exists
  <2>4. ASSUME NEW e \in Credential
        PROVE  IF Exists(e)' THEN Present(creds[e].principal)' /\ Exists(creds[e].root)'
               ELSE creds'[e].root = e
    <3>1. Present(creds[old].principal) /\ Exists(creds[old].root)
      BY <1>2 DEF LineageInv
    <3>2. CASE e \in {old, new}
      BY <1>1, <1>3, <2>2, <2>3, <3>1, <3>2 DEF Present, Exists
    <3>3. CASE e \notin {old, new}
      <4>1. creds'[e] = creds[e]
        BY <2>2, <3>3
      <4>2. Exists(creds[e].root) => Exists(creds[e].root)'
        BY <1>1, <2>3, <4>1 DEF Exists
      <4> QED
        BY <1>3, <4>1, <4>2 DEF LineageInv, Exists, Present
    <3> QED
      BY <3>2, <3>3
  <2>5. ASSUME NEW e \in Credential, NEW f \in Credential,
               creds'[e].state = "LIVE", creds'[f].state = "LIVE",
               creds'[e].root = creds'[f].root, e # f
        PROVE  creds'[e].root \in raced'
    <3>1. e # old /\ f # old
      BY <2>2, <2>5
    <3>2. CASE e # new /\ f # new
      BY <2>1, <2>2, <2>5, <3>1, <3>2 DEF LineageInv, OneLiveSuccessor
    <3>3. CASE e = new \/ f = new
      <4>1. creds'[e].root = creds[old].root
        BY <2>2, <2>5, <3>3
      <4>2. CASE creds[old].state # "LIVE"
        BY <2>1, <4>1, <4>2
      <4>3. CASE creds[old].state = "LIVE"
        <5>1. PICK g \in {e, f} : g # new
          BY <2>5
        <5>2. creds[g].state = "LIVE" /\ creds[g].root = creds[old].root /\ g # old
          BY <2>2, <2>5, <3>1, <4>1, <5>1
        <5>3. creds[old].root \in raced
          BY <4>3, <5>2 DEF LineageInv, OneLiveSuccessor
        <5> QED
          BY <2>1, <4>1, <4>3, <5>3
      <4> QED
        BY <4>2, <4>3
    <3> QED
      BY <3>2, <3>3
  <2>6. \A r \in rotations' : Exists(r[1])' /\ r[1] # r[2]
    BY <1>1, <1>3, <2>3 DEF LineageInv
  <2> QED
    BY <2>4, <2>5, <2>6 DEF LineageInv, OneLiveSuccessor
<1> QED
  BY <1>4, <1>5

LEMMA LineageAdmin ==
    ASSUME CredentialTypeOK, LineageInv, AdminNext
    PROVE  LineageInv'
<1>1. ASSUME NEW p \in Principal, NEW d \in Definition, NEW c \in Credential,
             AdminCreate(p, d, c, Forever)
      PROVE  LineageInv'
  <2>1. Forever \in Nat /\ "admin" \in Maker
    BY CredentialAssumption DEF Forever, Maker
  <2> QED
    BY <1>1, <2>1, LineageCreate DEF AdminCreate
<1>2. ASSUME NEW old \in Credential, NEW new \in Credential, RotateCheck(old, new)
      PROVE  LineageInv'
  BY <1>2 DEF RotateCheck, LineageInv, Exists, Present, OneLiveSuccessor
<1>3. ASSUME NEW c \in Credential, Revoke(c)
      PROVE  LineageInv'
  <2>1. /\ \A e \in Credential : /\ creds'[e].root = creds[e].root
                                 /\ creds'[e].principal = creds[e].principal
                                 /\ creds'[e].state = "LIVE" => creds[e].state = "LIVE"
                                 /\ Exists(e)' <=> Exists(e)
        /\ UNCHANGED <<principals, rotations, raced>>
    BY <1>3 DEF Revoke, CredentialTypeOK, CredentialRow, Exists
  <2>2. /\ \A e \in Credential : creds[e].root \in Credential
        /\ \A r \in rotations : r[1] \in Credential
    BY DEF CredentialTypeOK, CredentialRow
  <2> QED
    BY <2>1, <2>2 DEF LineageInv, Exists, Present, OneLiveSuccessor
<1>4. ASSUME NEW p \in Principal, NEW enabled \in BOOLEAN, SetPrincipalEnabled(p, enabled)
      PROVE  LineageInv'
  <2>1. \A q \in Principal : Present(q)' <=> Present(q)
    BY <1>4 DEF SetPrincipalEnabled, Present, CredentialTypeOK, PrincipalRow
  <2>2. \A e \in Credential : creds[e].principal \in Principal
    BY DEF CredentialTypeOK, CredentialRow
  <2>3. UNCHANGED <<creds, rotations, raced>>
    BY <1>4 DEF SetPrincipalEnabled
  <2> QED
    BY <2>1, <2>2, <2>3 DEF LineageInv, Exists, Present, OneLiveSuccessor
<1> QED
  BY <1>1, <1>2, <1>3, <1>4, LineageRotate DEF AdminNext

=============================================================================
