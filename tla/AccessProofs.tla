---------------------------- MODULE AccessProofs ----------------------------
(***************************************************************************)
(* Proofs about Access: the lineages of credentials, that only the         *)
(* operator lets a credential in again, and the bounds of the limiters.    *)
(***************************************************************************)
EXTENDS Access, CredentialsProofs, FiniteSetTheorems, TLAPS

CredentialInv == CredentialTypeOK /\ LineageInv

LEMMA CredentialInvInit == Init => CredentialInv
<1> SUFFICES ASSUME Init PROVE CredentialInv
  OBVIOUS
<1>1. CredentialTypeOK
  BY CredentialAssumption DEF Init, CredentialInit, CredentialTypeOK, NoPrincipal, PrincipalRow,
                              NoCredential, CredentialRow, Maker
<1> QED
  BY <1>1, LineageInit DEF Init, CredentialInv

LEMMA CredentialInvStep == CredentialInv /\ [Next]_vars => CredentialInv'
<1> SUFFICES ASSUME CredentialInv, [Next]_vars PROVE CredentialInv'
  OBVIOUS
<1> USE DEF CredentialInv
<1>1. CASE UNCHANGED credVars
  BY <1>1, LineageUnchanged DEF credVars, CredentialTypeOK
<1>2. ASSUME NEW named \in BOOLEAN, NEW oauth \in BOOLEAN, StartAgent(named, oauth)
      PROVE  CredentialInv'
  BY <1>2, StartTyped, LineageStart DEF StartAgent
<1>3. CASE StopAgent
  BY <1>3, StopTyped, LineageUnchanged DEF StopAgent, Stop
<1>4. CASE Admin
  BY <1>4, AdminTyped, LineageAdmin DEF Admin
<1>5. CASE Clock
  BY <1>5, TickTyped, LineageUnchanged DEF Clock, Tick
<1> QED
  BY <1>1, <1>2, <1>3, <1>4, <1>5 DEF Next, FailAuthentication, Authenticate, vars

LEMMA Invariance == Spec => []CredentialInv
BY CredentialInvInit, CredentialInvStep, PTL DEF Spec

\* Of a credential and all it was rotated into, one at most is live, however
\* rotations and revocations of several auth-admin processes interleave, unless
\* a rotation came after the revocation of its old credential.
THEOREM OneSuccessor == Spec => []OneLiveSuccessor
<1>1. CredentialInv => OneLiveSuccessor
  BY DEF CredentialInv, LineageInv
<1> QED
  BY <1>1, Invariance, PTL

\* The steps of the agent and of time bring no credential back.
LEMMA NothingRevived ==
    ASSUME CredentialInv, [Next]_vars, NEW c \in Credential,
           creds[c].state # "NONE", ~Usable(c), Usable(c)'
    PROVE  AdminNext
<1>1. /\ creds \in [Credential -> CredentialRow] /\ principals \in [Principal -> PrincipalRow]
      /\ creds[c].principal \in Principal /\ Present(creds[c].principal)
      /\ now \in Nat /\ creds[c].expiresAt \in Nat
  BY DEF CredentialInv, CredentialTypeOK, CredentialRow, LineageInv, Exists
<1>2. CASE UNCHANGED <<principals, creds>> /\ now' \in {now, now + 1}
  BY <1>1, <1>2 DEF Usable
<1>3. ASSUME NEW named \in BOOLEAN, NEW oauth \in BOOLEAN, StartAgent(named, oauth)
      PROVE  FALSE
  <2>1. CASE CreateCredential(Owner, OwnerDefinition, BootstrapId, "env", BootstrapExpiry)
    <3>1. /\ creds[BootstrapId].state = "NONE"
          /\ creds' = [creds EXCEPT ![BootstrapId] =
                          [state |-> "LIVE", principal |-> Owner, maker |-> "env",
                           expiresAt |-> BootstrapExpiry, root |-> BootstrapId]]
          /\ principals' = EnsurePrincipal(Owner, OwnerDefinition)
      BY <2>1 DEF CreateCredential
    <3>2. creds'[c] = creds[c]
      BY <1>1, <3>1
    <3>3. principals'[creds[c].principal] = principals[creds[c].principal]
      BY <1>1, <3>1 DEF EnsurePrincipal, Present
    <3>4. now' = now
      BY <1>3 DEF StartAgent, Start
    <3> QED
      BY <3>2, <3>3, <3>4 DEF Usable
  <2>2. CASE UNCHANGED <<principals, creds>>
    BY <1>2, <1>3, <2>2 DEF StartAgent, Start, Usable
  <2> QED
    BY <1>3, <2>1, <2>2 DEF StartAgent, Start, BootstrapCredential
<1>4. CASE UNCHANGED vars
  BY <1>2, <1>4 DEF vars, credVars
<1>5. CASE StopAgent \/ Clock
  BY <1>2, <1>5 DEF StopAgent, Stop, Clock, Tick
<1>6. CASE UNCHANGED credVars
  BY <1>2, <1>6 DEF credVars
<1>7. CASE Admin
  BY <1>7 DEF Admin
<1> QED
  BY <1>3, <1>4, <1>5, <1>6, <1>7 DEF Next, FailAuthentication, Authenticate

\* Only the operator lets a credential in again: a start with the same
\* environment does not, for any principals, credentials and limits.
THEOREM OnlyAdminRevives == Spec => AgentRevivesNothing
<1>1. CredentialInv /\ [Next]_vars =>
          [(\E c \in Credential : creds[c].state # "NONE" /\ ~Usable(c) /\ Usable(c)')
               => AdminNext]_vars
  BY NothingRevived
<1> QED
  BY <1>1, Invariance, PTL DEF Spec, AgentRevivesNothing

(***************************************************************************)
(* Two facts about data.  A set of naturals that has an element has a      *)
(* least one: otherwise adding one would map the finitely many numbers     *)
(* below the whole set into those of them that are not zero.               *)
(***************************************************************************)

\* Min of FiniteSetsExt, a CHOOSE, is what its name says.
LEMMA Least ==
    ASSUME NEW S, S \subseteq Nat, S # {}
    PROVE  Min(S) \in S /\ \A i \in S : Min(S) <= i
<1>1. \E m \in S : \A i \in S : m <= i
  <2> SUFFICES ASSUME \A m \in S : \E i \in S : i < m PROVE FALSE
    OBVIOUS
  <2> PICK s \in S : TRUE
    OBVIOUS
  <2> DEFINE T == {x \in 0 .. s : \A i \in S : x < i}
             f == [x \in T |-> x + 1]
  <2>1. 0 \in T /\ \A x \in T : x + 1 \in T
    <3>1. 0 \notin S
      OBVIOUS
    <3>2. ASSUME NEW x \in T PROVE x + 1 \notin S
      OBVIOUS
    <3> QED
      BY <3>1, <3>2
  <2>2. IsFiniteSet(T)
    <3>1. IsFiniteSet(0 .. s) /\ T \subseteq 0 .. s
      BY FS_Interval
    <3> QED
      BY <3>1, FS_Subset
  <2>3. /\ IsFiniteSet(T \ {0})
        /\ Cardinality(T \ {0}) = Cardinality(T) - 1
        /\ Cardinality(T) \in Nat
    <3> HIDE DEF T
    <3> QED
      BY <2>1, <2>2, FS_RemoveElement, FS_CardinalityType
  <2>4. f \in [T -> T \ {0}]
    BY <2>1
  <2>5. \E x, y \in T : x # y /\ f[x] = f[y]
    <3> HIDE DEF T, f
    <3> QED
      BY <2>2, <2>3, <2>4, FS_PigeonHole
  <2> QED
    BY <2>5
<1> QED
  BY <1>1 DEF Min

\* What RemoveAt of SequencesExt returns.
LEMMA Removal ==
    ASSUME NEW E, NEW s \in Seq(E), NEW i \in DOMAIN s
    PROVE  /\ RemoveAt(s, i) \in Seq(E)
           /\ Len(RemoveAt(s, i)) = Len(s) - 1
           /\ \A j \in 1 .. Len(s) - 1 :
                 RemoveAt(s, i)[j] = IF j < i THEN s[j] ELSE s[j + 1]
<1> DEFINE a == SubSeq(s, 1, i - 1)  b == SubSeq(s, i + 1, Len(s))
<1>1. a \in Seq(E) /\ Len(a) = i - 1 /\ \A j \in 1 .. i - 1 : a[j] = s[j]
  OBVIOUS
<1>2. b \in Seq(E) /\ Len(b) = Len(s) - i /\ \A j \in 1 .. Len(s) - i : b[j] = s[i + j]
  OBVIOUS
<1>3. RemoveAt(s, i) = a \o b
  BY DEF RemoveAt
<1> HIDE DEF a, b
<1>4. /\ a \o b \in Seq(E) /\ Len(a \o b) = Len(s) - 1
      /\ \A j \in 1 .. Len(s) - 1 :
            (a \o b)[j] = IF j < i THEN a[j] ELSE b[j - (i - 1)]
  BY <1>1, <1>2, SMTT(30)
<1>5. ASSUME NEW j \in 1 .. Len(s) - 1
      PROVE  (a \o b)[j] = IF j < i THEN s[j] ELSE s[j + 1]
  <2>1. CASE j < i
    BY <1>1, <1>4, <2>1
  <2>2. CASE ~ (j < i)
    <3>1. j - (i - 1) \in 1 .. Len(s) - i /\ i + (j - (i - 1)) = j + 1
      BY <2>2
    <3> QED
      BY <1>2, <1>4, <2>2, <3>1
  <2> QED
    BY <2>1, <2>2
<1> QED
  BY <1>3, <1>4, <1>5

(***************************************************************************)
(* The limiters.  An entry explains what its key was let through: since    *)
(* the start of its window no more than its count, in the ticks before     *)
(* less than the limit, and the sums of an outdated entry are too old to   *)
(* matter.  A key without an entry is below the limit and was let through  *)
(* nothing in this tick: it may start a window of its own at any time.     *)
(***************************************************************************)

\* What a key was let through in the last n + 1 ticks, by n.
Sums == [0 .. Window - 1 -> Nat]

\* The sums an entry explains.
Counts(sums, entry, limit, t) ==
    \A n \in 0 .. Window - 1 :
        /\ sums[n] < entry.count + limit
        /\ entry.startedAt + n <= t => sums[n] <= entry.count
        /\ entry.startedAt + n < t => sums[n] < entry.count
        /\ entry.startedAt + n + Window <= t => sums[n] = 0

\* The sums of a key without an entry.
Rests(sums, limit) == sums[0] = 0 /\ \A n \in 0 .. Window - 1 : sums[n] < limit

\* An entry of a limiter.
Entry(K, limit, t) == [key : K, startedAt : 0 .. t, count : 1 .. limit]

\* One entry a key at most, and the sums h of all keys are explained.
Accounted(table, K, limit, t, h) ==
    /\ table \in Seq(Entry(K, limit, t))
    /\ \A i, j \in DOMAIN table : table[i].key = table[j].key => i = j
    /\ \A k \in K : h[k] \in Sums
    /\ \A i \in DOMAIN table : Counts(h[table[i].key], table[i], limit, t)
    /\ \A k \in K \ KeysOf(table) : Rests(h[k], limit)

\* The sums g differ from h for this key only.
Differ(h, g, K, key) == \A k \in K \ {key} : g[k] = h[k]

\* They fit an entry, or a key without one.
Fits(g, entry, limit, t) ==
    g[entry.key] \in Sums /\ Counts(g[entry.key], entry, limit, t)

Clear(g, key, limit) == g[key] \in Sums /\ Rests(g[key], limit)

\* The fields of an entry.
LEMMA Typed ==
    ASSUME NEW table, NEW K, NEW limit \in Nat \ {0}, NEW t \in Nat,
           table \in Seq(Entry(K, limit, t)), NEW i \in DOMAIN table
    PROVE  table[i].key \in K /\ table[i].startedAt \in 0 .. t /\ table[i].count \in 1 .. limit
<1>1. table[i] \in Entry(K, limit, t)
  OBVIOUS
<1> QED
  BY <1>1 DEF Entry

\* The clock advances and the sums age.
LEMMA Ticks ==
    ASSUME NEW table, NEW K, NEW limit \in Nat \ {0}, NEW t \in Nat, NEW h, NEW g,
           Accounted(table, K, limit, t, h), \A k \in K : g[k] = Aged(h[k])
    PROVE  Accounted(table, K, limit, t + 1, g)
<1> USE AccessAssumption
<1>1. table \in Seq(Entry(K, limit, t + 1))
  <2>1. Entry(K, limit, t) \subseteq Entry(K, limit, t + 1)
    BY DEF Entry
  <2> QED
    BY <2>1 DEF Accounted
<1>2. \A k \in K : /\ g[k] \in Sums /\ g[k][0] = 0
                   /\ \A n \in 0 .. Window - 1 : n # 0 => g[k][n] = h[k][n - 1]
  <2> SUFFICES ASSUME NEW k \in K
               PROVE  /\ g[k] \in Sums /\ g[k][0] = 0
                      /\ \A n \in 0 .. Window - 1 : n # 0 => g[k][n] = h[k][n - 1]
    OBVIOUS
  <2>1. g[k] = Aged(h[k]) /\ h[k] \in Sums /\ Window \in Nat \ {0}
    BY DEF Accounted
  <2> QED
    BY <2>1 DEF Aged, Sums
<1>3. ASSUME NEW i \in DOMAIN table PROVE Counts(g[table[i].key], table[i], limit, t + 1)
  <2>1. table[i].key \in K /\ table[i].startedAt \in 0 .. t /\ table[i].count \in 1 .. limit
    BY Typed DEF Accounted
  <2>2. Counts(h[table[i].key], table[i], limit, t) /\ h[table[i].key] \in Sums
    BY <2>1 DEF Accounted
  <2> SUFFICES ASSUME NEW n \in 0 .. Window - 1
               PROVE  LET sums == g[table[i].key]  entry == table[i] IN
                      /\ sums[n] < entry.count + limit
                      /\ entry.startedAt + n <= t + 1 => sums[n] <= entry.count
                      /\ entry.startedAt + n < t + 1 => sums[n] < entry.count
                      /\ entry.startedAt + n + Window <= t + 1 => sums[n] = 0
    BY DEF Counts
  <2>3. CASE n = 0
    BY <1>2, <2>1, <2>3
  <2>4. CASE n # 0
    <3>1. n - 1 \in 0 .. Window - 1 /\ g[table[i].key][n] = h[table[i].key][n - 1]
      BY <1>2, <2>1, <2>4, AccessAssumption
    <3> DEFINE m == n - 1  past == h[table[i].key][m]
    <3>2. past \in Nat /\ m \in Nat /\ n = m + 1
      BY <2>2, <3>1 DEF Sums
    <3>3. /\ past < table[i].count + limit
          /\ table[i].startedAt + m <= t => past <= table[i].count
          /\ table[i].startedAt + m < t => past < table[i].count
          /\ table[i].startedAt + m + Window <= t => past = 0
      BY <2>2, <3>1 DEF Counts
    <3>4. g[table[i].key][n] = past
      BY <3>1
    <3> HIDE DEF past, m
    <3> QED
      BY <2>1, <3>2, <3>3, <3>4, AccessAssumption
  <2> QED
    BY <2>3, <2>4
<1>4. ASSUME NEW k \in K \ KeysOf(table) PROVE Rests(g[k], limit)
  <2>1. Rests(h[k], limit)
    BY DEF Accounted
  <2>2. ASSUME NEW n \in 0 .. Window - 1 PROVE g[k][n] < limit
    <3>1. CASE n = 0
      BY <1>2, <3>1
    <3>2. CASE n # 0
      BY <1>2, <2>1, <3>2 DEF Rests
    <3> QED
      BY <3>1, <3>2
  <2> QED
    BY <1>2, <2>2 DEF Rests
<1> QED
  BY <1>1, <1>2, <1>3, <1>4 DEF Accounted

\* Only the sums of the keys of the limiter count.
LEMMA Agree ==
    ASSUME NEW table, NEW K, NEW limit \in Nat \ {0}, NEW t \in Nat, NEW h, NEW g,
           Accounted(table, K, limit, t, h), \A k \in K : g[k] = h[k]
    PROVE  Accounted(table, K, limit, t, g)
<1>1. \A i \in DOMAIN table : table[i].key \in K
  BY Typed DEF Accounted
<1> QED
  BY <1>1 DEF Accounted

\* The i-th entry can be removed if the sums of its key can do without it.
MayGo(table, i, K, limit, h, g) ==
    /\ Accounted(table, K, limit, now, h) /\ i \in DOMAIN table
    /\ Clear(g, table[i].key, limit) /\ Differ(h, g, K, table[i].key)

\* An entry is removed: by isBlocked or by prune.
LEMMA Removes ==
    ASSUME NEW table, NEW K, NEW limit \in Nat \ {0}, now \in Nat, NEW h, NEW g, NEW i,
           MayGo(table, i, K, limit, h, g)
    PROVE  /\ Accounted(RemoveAt(table, i), K, limit, now, g)
           /\ KeysOf(RemoveAt(table, i)) = KeysOf(table) \ {table[i].key}
<1> USE DEF MayGo, Clear, Differ
<1> DEFINE rest == RemoveAt(table, i)
<1>1. table \in Seq(Entry(K, limit, now))
  BY DEF Accounted
<1>2. /\ rest \in Seq(Entry(K, limit, now)) /\ Len(rest) = Len(table) - 1
      /\ \A j \in 1 .. Len(table) - 1 :
            rest[j] = IF j < i THEN table[j] ELSE table[j + 1]
  BY <1>1, Removal
<1> HIDE DEF rest
<1>3. \A j \in DOMAIN rest : \E m \in DOMAIN table :
          m # i /\ rest[j] = table[m] /\ m = IF j < i THEN j ELSE j + 1
  BY <1>1, <1>2
<1>4. \A m \in DOMAIN table \ {i} : \E j \in DOMAIN rest : rest[j] = table[m]
  <2> SUFFICES ASSUME NEW m \in DOMAIN table, m # i
               PROVE  \E j \in DOMAIN rest : rest[j] = table[m]
    OBVIOUS
  <2>1. CASE m < i
    <3>1. m \in DOMAIN rest /\ rest[m] = table[m]
      BY <1>1, <1>2, <2>1
    <3> QED
      BY <3>1
  <2>2. CASE m > i
    <3>1. m - 1 \in 1 .. Len(table) - 1 /\ ~ (m - 1 < i) /\ m - 1 + 1 = m
      BY <1>1, <2>2
    <3>2. m - 1 \in DOMAIN rest /\ rest[m - 1] = table[m]
      BY <1>2, <3>1
    <3> QED
      BY <3>2
  <2> QED
    BY <1>1, <2>1, <2>2
<1>5. \A j, l \in DOMAIN rest : rest[j].key = rest[l].key => j = l
  <2> SUFFICES ASSUME NEW j \in DOMAIN rest, NEW l \in DOMAIN rest, rest[j].key = rest[l].key
               PROVE  j = l
    OBVIOUS
  <2>1. PICK m \in DOMAIN table : rest[j] = table[m] /\ m = IF j < i THEN j ELSE j + 1
    BY <1>3
  <2>2. PICK n \in DOMAIN table : rest[l] = table[n] /\ n = IF l < i THEN l ELSE l + 1
    BY <1>3
  <2>3. m = n
    BY <2>1, <2>2 DEF Accounted
  <2> QED
    BY <1>1, <1>2, <2>1, <2>2, <2>3
<1>6. ASSUME NEW j \in DOMAIN rest PROVE Counts(g[rest[j].key], rest[j], limit, now)
  <2>1. PICK m \in DOMAIN table : m # i /\ rest[j] = table[m]
    BY <1>3
  <2>2. table[m].key \in K /\ table[m].key # table[i].key
    BY <1>1, <2>1, Typed DEF Accounted
  <2> QED
    BY <2>1, <2>2 DEF Accounted
<1>7. ASSUME NEW k \in K \ KeysOf(rest) PROVE Rests(g[k], limit)
  <2>1. CASE k = table[i].key
    BY <2>1
  <2>2. CASE k # table[i].key
    <3>1. k \notin KeysOf(table)
      BY <1>4, <2>2 DEF KeysOf
    <3> QED
      BY <2>2, <3>1 DEF Accounted
  <2> QED
    BY <2>1, <2>2
<1>8. \A k \in K : g[k] \in Sums
  BY DEF Accounted
<1>9. KeysOf(rest) = KeysOf(table) \ {table[i].key}
  <2>1. \A m \in DOMAIN table : m # i => table[m].key # table[i].key
    BY DEF Accounted
  <2> QED
    BY <1>3, <1>4, <2>1 DEF KeysOf
<1>10. Accounted(rest, K, limit, now, g)
  BY <1>2, <1>5, <1>6, <1>7, <1>8 DEF Accounted
<1> QED
  BY <1>9, <1>10 DEF rest

\* The key of an expired entry can do without it.
LEMMA Outdated ==
    ASSUME NEW sums \in Sums, NEW K, NEW limit \in Nat \ {0}, NEW t \in Nat,
           NEW entry, entry.startedAt \in 0 .. t, entry.count \in 1 .. limit,
           Expired(entry, t), Counts(sums, entry, limit, t)
    PROVE  Rests(sums, limit)
<1>1. entry.startedAt + Window <= t
  BY AccessAssumption DEF Expired
<1>2. ASSUME NEW n \in 0 .. Window - 1 PROVE sums[n] < limit
  <2>1. entry.startedAt + n < t => sums[n] < entry.count
    BY DEF Counts
  <2> QED
    BY <1>1, <2>1, AccessAssumption DEF Sums
<1>3. sums[0] = 0
  <2>1. 0 \in 0 .. Window - 1
    BY AccessAssumption
  <2>2. entry.startedAt + 0 + Window <= t => sums[0] = 0
    BY <2>1 DEF Counts
  <2> QED
    BY <1>1, <2>2, AccessAssumption
<1> QED
  BY <1>2, <1>3 DEF Rests

\* isBlocked removes an expired entry only.
LEMMA Forgets ==
    ASSUME NEW table, NEW K, NEW limit \in Nat \ {0}, now \in Nat,
           Accounted(table, K, limit, now, hits), Len(table) <= MaxKeys, NEW key \in K
    PROVE  LET asked == AfterIsBlocked(table, key, now) IN
           Accounted(asked, K, limit, now, hits) /\ Len(asked) <= MaxKeys
<1> USE AccessAssumption
<1> DEFINE stale == At(table, key) \ Running(table, key, now)  i == Min(stale)
<1>1. table \in Seq(Entry(K, limit, now))
  BY DEF Accounted
<1>2. CASE stale = {}
  BY <1>2 DEF AfterIsBlocked
<1>3. CASE stale # {}
  <2>1. i \in stale
    <3>1. stale \subseteq Nat
      BY <1>1 DEF At
    <3> HIDE DEF stale
    <3> QED
      BY <1>3, <3>1, Least
  <2>2. i \in DOMAIN table /\ Expired(table[i], now)
    BY <2>1 DEF At, Running
  <2> HIDE DEF i, stale
  <2>3. Rests(hits[table[i].key], limit) /\ hits[table[i].key] \in Sums
    BY <1>1, <2>2, Outdated, Typed DEF Accounted
  <2>4. Accounted(RemoveAt(table, i), K, limit, now, hits)
    <3>1. MayGo(table, i, K, limit, hits, hits)
      BY <2>2, <2>3 DEF MayGo, Clear, Differ
    <3> QED
      BY <3>1, Removes
  <2>5. Len(RemoveAt(table, i)) <= MaxKeys
    BY <1>1, <2>2, Removal
  <2> QED
    BY <1>3, <2>4, <2>5 DEF AfterIsBlocked, i, stale
<1> QED
  BY <1>2, <1>3

\* One more is let through and a window starts with it ...
LEMMA Starts ==
    ASSUME NEW sums \in Sums, NEW more, NEW limit \in Nat \ {0}, NEW t \in Nat, NEW key,
           Rests(sums, limit), more = [n \in DOMAIN sums |-> sums[n] + 1]
    PROVE  /\ more \in Sums
           /\ Counts(more, [key |-> key, startedAt |-> t, count |-> 1], limit, t)
BY AccessAssumption DEF Sums, Rests, Counts

\* ... or it is counted in the window that runs.
LEMMA GoesOn ==
    ASSUME NEW sums \in Sums, NEW more, NEW K, NEW limit \in Nat \ {0}, NEW t \in Nat,
           NEW entry \in Entry(K, limit, t), ~Expired(entry, t), entry.count < limit,
           Counts(sums, entry, limit, t), more = [n \in DOMAIN sums |-> sums[n] + 1]
    PROVE  /\ more \in Sums
           /\ Counts(more, [entry EXCEPT !.count = @ + 1], limit, t)
           /\ [entry EXCEPT !.count = @ + 1] \in Entry(K, limit, t)
<1> DEFINE next == [entry EXCEPT !.count = @ + 1]
<1>1. /\ entry.count \in 1 .. limit /\ entry.startedAt \in 0 .. t
      /\ next.count = entry.count + 1 /\ next.startedAt = entry.startedAt
      /\ next \in Entry(K, limit, t)
  BY DEF Entry
<1>2. entry.startedAt + Window > t
  BY <1>1, AccessAssumption DEF Expired
<1>3. more \in Sums /\ \A n \in 0 .. Window - 1 : more[n] = sums[n] + 1
  BY DEF Sums
<1> HIDE DEF next
<1>4. ASSUME NEW n \in 0 .. Window - 1
      PROVE  /\ more[n] < next.count + limit
             /\ next.startedAt + n <= t => more[n] <= next.count
             /\ next.startedAt + n < t => more[n] < next.count
             /\ ~ (next.startedAt + n + Window <= t)
  <2>1. sums[n] \in Nat
    BY DEF Sums
  <2>2. /\ sums[n] < entry.count + limit
        /\ entry.startedAt + n <= t => sums[n] <= entry.count
        /\ entry.startedAt + n < t => sums[n] < entry.count
    BY DEF Counts
  <2> QED
    BY <1>1, <1>2, <1>3, <2>1, <2>2, AccessAssumption
<1>5. Counts(more, next, limit, t)
  BY <1>4 DEF Counts
<1> QED
  BY <1>1, <1>3, <1>5 DEF next

\* The entry of a key is replaced by one that explains the new sums.
LEMMA Replaces ==
    ASSUME NEW table, NEW K, NEW limit \in Nat \ {0}, now \in Nat, NEW g,
           Accounted(table, K, limit, now, hits), NEW i \in DOMAIN table,
           NEW e \in Entry(K, limit, now), e.key = table[i].key,
           Fits(g, e, limit, now), Differ(hits, g, K, e.key)
    PROVE  LET after == [table EXCEPT ![i] = e] IN
           /\ Accounted(after, K, limit, now, g)
           /\ Len(after) = Len(table) /\ KeysOf(after) = KeysOf(table)
<1> USE DEF Fits, Differ
<1> DEFINE after == [table EXCEPT ![i] = e]
<1>1. table \in Seq(Entry(K, limit, now))
  BY DEF Accounted
<1>2. /\ after \in Seq(Entry(K, limit, now)) /\ Len(after) = Len(table)
      /\ DOMAIN after = DOMAIN table /\ after[i] = e
      /\ \A j \in DOMAIN table : j # i => after[j] = table[j]
  BY <1>1
<1> HIDE DEF after
<1>3. \A j \in DOMAIN table : after[j].key = table[j].key /\ table[j].key \in K
  BY <1>1, <1>2, Typed
<1>4. KeysOf(after) = KeysOf(table)
  BY <1>2, <1>3 DEF KeysOf
<1>5. ASSUME NEW j \in DOMAIN after PROVE Counts(g[after[j].key], after[j], limit, now)
  <2>1. CASE j = i
    BY <1>2, <2>1
  <2>2. CASE j # i
    <3>1. after[j] = table[j] /\ table[j].key # e.key /\ table[j].key \in K
      BY <1>2, <1>3, <2>2 DEF Accounted
    <3> QED
      BY <1>2, <3>1 DEF Accounted
  <2> QED
    BY <2>1, <2>2
<1>6. \A k \in K \ KeysOf(after) : k # e.key
  BY <1>2 DEF KeysOf
<1>7. \A k \in K \ KeysOf(after) : Rests(g[k], limit)
  BY <1>4, <1>6 DEF Accounted
<1>8. \A k \in K : g[k] \in Sums
  BY DEF Accounted
<1>9. \A j, l \in DOMAIN after : after[j].key = after[l].key => j = l
  BY <1>2, <1>3 DEF Accounted
<1>10. Accounted(after, K, limit, now, g)
  BY <1>2, <1>5, <1>7, <1>8, <1>9 DEF Accounted
<1> QED
  BY <1>2, <1>4, <1>10 DEF after

\* An entry is inserted for a key that had none.
LEMMA Inserts ==
    ASSUME NEW table, NEW K, NEW limit \in Nat \ {0}, now \in Nat, NEW g,
           Accounted(table, K, limit, now, hits), NEW e \in Entry(K, limit, now),
           e.key \notin KeysOf(table),
           Fits(g, e, limit, now), Differ(hits, g, K, e.key)
    PROVE  /\ Accounted(Append(table, e), K, limit, now, g)
           /\ KeysOf(Append(table, e)) = KeysOf(table) \cup {e.key}
<1> USE DEF Fits, Differ
<1> DEFINE after == Append(table, e)
<1>1. table \in Seq(Entry(K, limit, now))
  BY DEF Accounted
<1>2. /\ after \in Seq(Entry(K, limit, now))
      /\ DOMAIN after = DOMAIN table \cup {Len(table) + 1}
      /\ after[Len(table) + 1] = e /\ Len(table) + 1 \notin DOMAIN table
      /\ \A j \in DOMAIN table : after[j] = table[j]
  BY <1>1
<1> HIDE DEF after
<1>3. \A j \in DOMAIN table : table[j].key # e.key /\ table[j].key \in K
  BY <1>1, Typed DEF KeysOf
<1>4. ASSUME NEW j \in DOMAIN after PROVE Counts(g[after[j].key], after[j], limit, now)
  <2>1. CASE j = Len(table) + 1
    BY <1>2, <2>1
  <2>2. CASE j \in DOMAIN table
    BY <1>2, <1>3, <2>2 DEF Accounted
  <2> QED
    BY <1>2, <2>1, <2>2
<1>5. \A k \in K \ KeysOf(after) : k # e.key /\ k \notin KeysOf(table)
  BY <1>2 DEF KeysOf
<1>6. \A k \in K \ KeysOf(after) : Rests(g[k], limit)
  BY <1>5 DEF Accounted
<1>7. \A k \in K : g[k] \in Sums
  BY DEF Accounted
<1>8. \A j, l \in DOMAIN after : after[j].key = after[l].key => j = l
  BY <1>2, <1>3 DEF Accounted
<1>9. Accounted(after, K, limit, now, g)
  BY <1>2, <1>4, <1>6, <1>7, <1>8 DEF Accounted
<1>10. KeysOf(after) = KeysOf(table) \cup {e.key}
  BY <1>2 DEF KeysOf
<1> QED
  BY <1>9, <1>10 DEF after

\* consume, in all its cases: no entry, with and without an eviction by prune;
\* an expired one; a running one below its limit and at it.
LEMMA Consumes ==
    ASSUME NEW table, NEW K, K \subseteq DOMAIN hits, NEW limit \in Nat \ {0}, now \in Nat,
           Accounted(table, K, limit, now, hits), Len(table) <= MaxKeys, NEW key \in K
    PROVE  /\ Accounted(AfterConsume(table, key, limit, now), K, limit, now,
                       Counted(table, key, limit))
           /\ Len(AfterConsume(table, key, limit, now)) <= MaxKeys
           /\ \A k \in DOMAIN hits \ K : Counted(table, key, limit)[k] = hits[k]
<1> USE AccessAssumption
<1> DEFINE after == AfterConsume(table, key, limit, now)
           sums == Counted(table, key, limit)
           fresh == [key |-> key, startedAt |-> now, count |-> 1]
           more == [n \in DOMAIN hits[key] |-> hits[key][n] + 1]
           evicted == {k \in KeysOf(table) \ KeysOf(after) : Running(table, k, now) # {}}
           admits == Admits(table, key, limit, now)
           Goal == /\ Accounted(after, K, limit, now, sums)
                   /\ Len(after) <= MaxKeys
                   /\ \A k \in DOMAIN hits \ K : sums[k] = hits[k]
<1>1. /\ table \in Seq(Entry(K, limit, now)) /\ hits[key] \in Sums
      /\ \A i \in DOMAIN table : table[i].key \in K
      /\ KeysOf(table) \subseteq K
  <2>1. table \in Seq(Entry(K, limit, now)) /\ hits[key] \in Sums
    BY DEF Accounted
  <2>2. \A i \in DOMAIN table : table[i].key \in K
    BY <2>1, Typed
  <2> QED
    BY <2>1, <2>2 DEF KeysOf
<1>2. ASSUME key \notin evicted
      PROVE  \A k \in DOMAIN hits :
                sums[k] = IF k \in evicted THEN Untouched
                          ELSE IF k = key /\ admits THEN more ELSE hits[k]
  BY <1>2 DEF Counted
<1>3. fresh \in Entry(K, limit, now) /\ ~Expired(fresh, now) /\ fresh.key = key
  BY DEF Entry, Expired
<1>4. ASSUME Rests(hits[key], limit)
      PROVE  more \in Sums /\ Counts(more, fresh, limit, now)
  BY <1>1, <1>4, Starts
<1>5. evicted \subseteq K
  BY <1>1
<1>6. KeysOf(table) \subseteq KeysOf(after) => evicted = {}
  OBVIOUS
<1> DEFINE half == [k \in K |-> IF k = key THEN more ELSE hits[k]]
<1>7. half[key] = more /\ \A k \in K \ {key} : half[k] = hits[k]
  OBVIOUS
<1> HIDE DEF sums, evicted, more, admits, half
<1>8. ASSUME evicted = {}, admits, Accounted(after, K, limit, now, half), Len(after) <= MaxKeys
      PROVE  Goal
  <2>1. \A k \in K : sums[k] = half[k]
    BY <1>2, <1>7, <1>8
  <2>2. Accounted(after, K, limit, now, sums)
    <3> HIDE DEF after
    <3> QED
      BY <1>8, <2>1, Agree
  <2> QED
    BY <1>2, <1>8, <2>2
<1> HIDE DEF Goal
<1>9. ASSUME At(table, key) = {} PROVE Goal
  <2> DEFINE long == Append(table, fresh)
  <2>1. after = Prune(long, now) /\ admits
    BY <1>9 DEF AfterConsume, Admits, Running, admits
  <2>2. key \notin KeysOf(table)
    BY <1>9 DEF At, KeysOf
  <2>3. Rests(hits[key], limit)
    BY <2>2 DEF Accounted
  <2> HIDE DEF fresh
  <2>4. Accounted(long, K, limit, now, half) /\ KeysOf(long) = KeysOf(table) \cup {key}
    <3>1. /\ Fits(half, fresh, limit, now) /\ Differ(hits, half, K, fresh.key)
          /\ fresh.key \notin KeysOf(table)
      BY <1>3, <1>4, <1>7, <2>2, <2>3 DEF Fits, Differ
    <3> QED
      <4>1. /\ Accounted(Append(table, fresh), K, limit, now, half)
            /\ KeysOf(Append(table, fresh)) = KeysOf(table) \cup {fresh.key}
        BY <1>3, <3>1, Inserts
      <4> QED
        BY <1>3, <4>1
  <2>5. /\ long \in Seq(Entry(K, limit, now)) /\ Len(long) = Len(table) + 1
        /\ Len(table) \in Nat /\ DOMAIN long = 1 .. Len(table) + 1
        /\ long[Len(table) + 1] = fresh
        /\ \A j \in 1 .. Len(table) : j \in DOMAIN table /\ long[j] = table[j]
    BY <1>1, <1>3
  <2> HIDE DEF after, long
  <2>6. CASE Len(long) <= MaxKeys
    <3>1. after = long
      BY <2>1, <2>6 DEF Prune
    <3>2. evicted = {}
      BY <1>6, <2>4, <3>1
    <3> QED
      BY <1>8, <2>1, <2>4, <2>6, <3>1, <3>2
  <2>7. CASE Len(long) > MaxKeys
    <3> DEFINE stale == {i \in DOMAIN long : Expired(long[i], now)}
               v == IF stale = {} THEN 1 ELSE Min(stale)
    <3>1. after = RemoveAt(long, v)
      BY <2>1, <2>7 DEF Prune
    <3>2. stale # {} => v \in stale
      <4>1. stale \subseteq Nat
        BY <2>5
      <4> HIDE DEF stale
      <4> QED
        BY <4>1, Least
    <3>3. Len(table) + 1 \notin stale
      BY <1>3, <2>5
    <3>4. v \in 1 .. Len(table)
      BY <2>5, <2>7, <3>2, <3>3
    <3>5. v \in DOMAIN long /\ v \in DOMAIN table /\ long[v] = table[v]
      BY <2>5, <3>4
    <3>6. v \notin stale => ~Expired(table[v], now)
      BY <3>5
    <3>7. v \in stale => Expired(table[v], now)
      BY <3>5
    <3> HIDE DEF v, stale
    <3> DEFINE out == table[v].key
    <3>8. out \in K /\ out # key /\ out \in KeysOf(table)
      BY <1>1, <2>2, <3>5 DEF KeysOf
    <3>9. \A i \in DOMAIN table : table[i].key = out => i = v
      BY <3>5 DEF Accounted
    <3>10. Len(after) <= MaxKeys
      BY <2>5, <3>1, <3>5, Removal
    <3>11. ASSUME Rests(sums[out], limit), sums[out] \in Sums,
                  \A k \in K \ {out} : sums[k] = half[k]
           PROVE  /\ Accounted(after, K, limit, now, sums)
                  /\ KeysOf(after) = KeysOf(long) \ {out}
      <4>1. MayGo(long, v, K, limit, half, sums)
        BY <2>4, <3>5, <3>11 DEF MayGo, Clear, Differ
      <4>2. Accounted(RemoveAt(long, v), K, limit, now, sums)
        BY <4>1, Removes
      <4>3. KeysOf(RemoveAt(long, v)) = KeysOf(long) \ {long[v].key}
        BY <4>1, Removes
      <4> QED
        BY <3>1, <3>5, <4>2, <4>3
    <3>12. KeysOf(after) = KeysOf(long) \ {out}
      <4> DEFINE g == [k \in K |-> IF k = out THEN Untouched ELSE half[k]]
      <4>1. g[out] = Untouched /\ \A k \in K \ {out} : g[k] = half[k]
        BY <3>8
      <4>2. Untouched \in Sums /\ Rests(Untouched, limit)
        BY DEF Untouched, Sums, Rests
      <4> HIDE DEF g
      <4> QED
        <5>1. MayGo(long, v, K, limit, half, g)
          BY <2>4, <3>5, <4>1, <4>2 DEF MayGo, Clear, Differ
        <5>2. KeysOf(RemoveAt(long, v)) = KeysOf(long) \ {long[v].key}
          BY <5>1, Removes
        <5> QED
          BY <3>1, <3>5, <5>2
    <3>13. evicted \subseteq {out} /\ key \notin evicted
      BY <2>4, <3>8, <3>12 DEF evicted
    <3>14. (out \in evicted) <=> ~Expired(table[v], now)
      <4>1. Running(table, out, now) = IF Expired(table[v], now) THEN {} ELSE {v}
        BY <3>5, <3>9 DEF Running, At
      <4> QED
        BY <3>8, <3>12, <4>1 DEF evicted
    <3>15. Rests(sums[out], limit) /\ sums[out] \in Sums
      <4>1. CASE Expired(table[v], now)
        <5>1. sums[out] = hits[out]
          BY <1>2, <3>8, <3>13, <3>14, <4>1
        <5>2. hits[out] \in Sums /\ Counts(hits[out], table[v], limit, now)
          BY <3>5, <3>8 DEF Accounted
        <5>3. table[v].startedAt \in 0 .. now /\ table[v].count \in 1 .. limit
          BY <1>1, <3>5, Typed
        <5> QED
          BY <4>1, <5>1, <5>2, <5>3, Outdated
      <4>2. CASE ~Expired(table[v], now)
        <5>1. sums[out] = Untouched
          BY <1>2, <3>8, <3>13, <3>14, <4>2
        <5> QED
          BY <5>1 DEF Untouched, Sums, Rests
      <4> QED
        BY <4>1, <4>2
    <3>16. \A k \in K \ {out} : sums[k] = half[k]
      BY <1>2, <1>7, <2>1, <3>13
    <3>17. \A k \in DOMAIN hits \ K : sums[k] = hits[k]
      BY <1>2, <1>5, <3>13
    <3> QED
      BY <3>10, <3>11, <3>15, <3>16, <3>17 DEF Goal
  <2> QED
    BY <2>5, <2>6, <2>7
<1>10. ASSUME NEW i \in DOMAIN table, table[i].key = key, Expired(table[i], now) PROVE Goal
  <2>1. \A j \in DOMAIN table : table[j].key = key <=> j = i
    BY <1>10 DEF Accounted
  <2>2. Running(table, key, now) = {} /\ At(table, key) # {}
    BY <1>10, <2>1 DEF Running, At
  <2>3. after = [table EXCEPT ![i] = fresh] /\ admits
    BY <1>1, <2>1, <2>2 DEF AfterConsume, admits, Admits
  <2>4. Rests(hits[key], limit)
    <3>1. table[i].startedAt \in 0 .. now /\ table[i].count \in 1 .. limit
      BY <1>1, Typed
    <3>2. Counts(hits[key], table[i], limit, now)
      BY <1>10 DEF Accounted
    <3> QED
      BY <1>1, <1>10, <3>1, <3>2, Outdated
  <2> HIDE DEF fresh, after
  <2>5. /\ Accounted(after, K, limit, now, half)
        /\ Len(after) = Len(table) /\ KeysOf(after) = KeysOf(table)
    <3>1. /\ Fits(half, fresh, limit, now) /\ Differ(hits, half, K, fresh.key)
          /\ fresh.key = table[i].key
      BY <1>3, <1>4, <1>7, <1>10, <2>4 DEF Fits, Differ
    <3> QED
      <4>1. /\ Accounted([table EXCEPT ![i] = fresh], K, limit, now, half)
            /\ Len([table EXCEPT ![i] = fresh]) = Len(table)
            /\ KeysOf([table EXCEPT ![i] = fresh]) = KeysOf(table)
        BY <1>3, <3>1, Replaces
      <4> QED
        BY <2>3, <4>1
  <2> QED
    BY <1>6, <1>8, <2>3, <2>5
<1>11. ASSUME NEW i \in DOMAIN table, table[i].key = key, ~Expired(table[i], now) PROVE Goal
  <2>1. \A j \in DOMAIN table : table[j].key = key <=> j = i
    BY <1>11 DEF Accounted
  <2>2. Running(table, key, now) = {i} /\ At(table, key) # {}
    BY <1>11, <2>1 DEF Running, At
  <2>3. admits <=> table[i].count < limit
    BY <2>2 DEF admits, Admits
  <2>4. after = [j \in DOMAIN table |->
                   IF table[j].key = key /\ table[j].count < limit
                   THEN [table[j] EXCEPT !.count = @ + 1] ELSE table[j]]
    BY <2>2 DEF AfterConsume
  <2>5. CASE table[i].count < limit
    <3> DEFINE next == [table[i] EXCEPT !.count = @ + 1]
    <3>1. after = [table EXCEPT ![i] = next]
      BY <1>1, <2>1, <2>4, <2>5
    <3>2. table[i] \in Entry(K, limit, now) /\ Counts(hits[key], table[i], limit, now)
      BY <1>1, <1>11 DEF Accounted
    <3>3. more \in Sums /\ Counts(more, next, limit, now) /\ next \in Entry(K, limit, now)
      BY <1>1, <1>11, <2>5, <3>2, GoesOn DEF more
    <3>4. next.key = key
      BY <1>11, <3>2 DEF Entry
    <3> HIDE DEF next, after
    <3>5. /\ Accounted(after, K, limit, now, half)
          /\ Len(after) = Len(table) /\ KeysOf(after) = KeysOf(table)
      <4>1. /\ Fits(half, next, limit, now) /\ Differ(hits, half, K, next.key)
            /\ next.key = table[i].key
        BY <1>7, <1>11, <3>3, <3>4 DEF Fits, Differ
      <4> QED
        <5>1. /\ Accounted([table EXCEPT ![i] = next], K, limit, now, half)
              /\ Len([table EXCEPT ![i] = next]) = Len(table)
              /\ KeysOf([table EXCEPT ![i] = next]) = KeysOf(table)
          BY <3>3, <4>1, Replaces
        <5> QED
          BY <3>1, <5>1
    <3> QED
      BY <1>6, <1>8, <2>3, <2>5, <3>5
  <2>6. CASE ~(table[i].count < limit)
    <3>1. after = table
      BY <1>1, <2>1, <2>4, <2>6
    <3> HIDE DEF after
    <3>2. evicted = {}
      BY <1>6, <3>1
    <3>3. \A k \in DOMAIN hits : sums[k] = hits[k]
      BY <1>2, <2>3, <2>6, <3>2
    <3>4. Accounted(after, K, limit, now, sums)
      BY <3>1, <3>3, Agree
    <3> QED
      BY <3>1, <3>3, <3>4 DEF Goal
  <2> QED
    BY <2>5, <2>6
<1> QED
  <2>1. At(table, key) # {} => \E i \in DOMAIN table : table[i].key = key
    BY DEF At
  <2>2. Goal
    BY <1>9, <1>10, <1>11, <2>1
  <2> QED
    BY <2>2 DEF Goal, sums

\* The inductive invariant of the limiters.
LimiterInv ==
    /\ hits \in [Source \cup Principal -> Sums]
    /\ Accounted(attempts, Source, AttemptLimit, now, hits) /\ Len(attempts) <= MaxKeys
    /\ Accounted(requests, Principal, RequestLimit, now, hits) /\ Len(requests) <= MaxKeys

\* A limiter that has seen nothing, at the start of the agent.
LEMMA Empty ==
    ASSUME NEW table, table = <<>>, NEW K, NEW limit \in Nat \ {0}, NEW t, NEW h,
           \A k \in K : h[k] = Untouched
    PROVE  Accounted(table, K, limit, t, h) /\ Len(table) <= MaxKeys
<1>1. Untouched \in Sums /\ Rests(Untouched, limit)
  BY AccessAssumption DEF Untouched, Sums, Rests
<1>2. table \in Seq(Entry(K, limit, t)) /\ DOMAIN table = {} /\ Len(table) = 0
  OBVIOUS
<1> QED
  BY <1>1, <1>2, AccessAssumption DEF Accounted

\* No step of the authenticator, the agent, the operator or the clock breaks it.
LEMMA LimiterStep ==
    ASSUME LimiterInv, now \in Nat, \A c \in Credential : creds[c].principal \in Principal,
           [Next]_vars
    PROVE  LimiterInv'
<1> USE AccessAssumption DEF LimiterInv
<1>1. CASE UNCHANGED <<now, attempts, requests, hits>>
  BY <1>1 DEF Accounted, Counts, Rests, KeysOf, Entry, Sums
<1>2. ASSUME NEW s \in Source, FailAuthentication(s) PROVE LimiterInv'
  <2> DEFINE asked == AfterIsBlocked(attempts, s, now)
  <2>1. /\ attempts' = AfterConsume(asked, s, AttemptLimit, now)
        /\ hits' = Counted(asked, s, AttemptLimit)
        /\ requests' = requests /\ now' = now
    BY <1>2 DEF FailAuthentication, credVars
  <2>2. Accounted(asked, Source, AttemptLimit, now, hits) /\ Len(asked) <= MaxKeys
    BY Forgets
  <2> HIDE DEF asked
  <2>3. /\ Accounted(attempts', Source, AttemptLimit, now, hits') /\ Len(attempts') <= MaxKeys
        /\ \A k \in DOMAIN hits \ Source : hits'[k] = hits[k]
    <3>1. Source \subseteq DOMAIN hits /\ s \in Source /\ AttemptLimit \in Nat \ {0}
      OBVIOUS
    <3>2. /\ Accounted(AfterConsume(asked, s, AttemptLimit, now), Source, AttemptLimit, now,
                      Counted(asked, s, AttemptLimit))
          /\ Len(AfterConsume(asked, s, AttemptLimit, now)) <= MaxKeys
          /\ \A k \in DOMAIN hits \ Source : Counted(asked, s, AttemptLimit)[k] = hits[k]
      <4>1. PICK t : t = asked
        OBVIOUS
      <4>2. Accounted(t, Source, AttemptLimit, now, hits) /\ Len(t) <= MaxKeys
        BY <2>2, <4>1
      <4> HIDE DEF LimiterInv
      <4>3. /\ Accounted(AfterConsume(t, s, AttemptLimit, now), Source, AttemptLimit, now,
                        Counted(t, s, AttemptLimit))
            /\ Len(AfterConsume(t, s, AttemptLimit, now)) <= MaxKeys
            /\ \A k \in DOMAIN hits \ Source : Counted(t, s, AttemptLimit)[k] = hits[k]
        BY <3>1, <4>2, Consumes, Z3
      <4> QED
        BY <4>1, <4>3
    <3> QED
      BY <2>1, <3>2
  <2>4. \A k \in Principal : hits'[k] = hits[k]
    BY <2>3
  <2>5. Accounted(requests, Principal, RequestLimit, now, hits')
    BY <2>4, Agree
  <2>6. hits' \in [Source \cup Principal -> Sums]
    <3>1. DOMAIN hits' = Source \cup Principal /\ hits' = [k \in DOMAIN hits' |-> hits'[k]]
      BY <2>1 DEF Counted
    <3>2. \A k \in Source \cup Principal : hits'[k] \in Sums
      BY <2>3, <2>4 DEF Accounted
    <3> QED
      BY <3>1, <3>2
  <2> QED
    BY <2>1, <2>3, <2>5, <2>6
<1>3. ASSUME NEW s \in Source, NEW c \in Credential, Authenticate(s, c) PROVE LimiterInv'
  <2> DEFINE p == creds[c].principal
  <2>1. /\ requests' = AfterConsume(requests, p, RequestLimit, now)
        /\ hits' = Counted(requests, p, RequestLimit)
        /\ attempts' = AfterIsBlocked(attempts, s, now) /\ now' = now /\ p \in Principal
    BY <1>3 DEF Authenticate, credVars
  <2>2. Accounted(attempts', Source, AttemptLimit, now, hits) /\ Len(attempts') <= MaxKeys
    BY <2>1, Forgets
  <2> HIDE DEF p
  <2>3. /\ Accounted(requests', Principal, RequestLimit, now, hits')
        /\ Len(requests') <= MaxKeys
        /\ \A k \in DOMAIN hits \ Principal : hits'[k] = hits[k]
    <3>1. /\ Principal \subseteq DOMAIN hits /\ Len(requests) <= MaxKeys
          /\ Accounted(requests, Principal, RequestLimit, now, hits)
      OBVIOUS
    <3>2. /\ Accounted(AfterConsume(requests, p, RequestLimit, now), Principal, RequestLimit,
                       now, Counted(requests, p, RequestLimit))
          /\ Len(AfterConsume(requests, p, RequestLimit, now)) <= MaxKeys
          /\ \A k \in DOMAIN hits \ Principal : Counted(requests, p, RequestLimit)[k] = hits[k]
      <4> HIDE DEF LimiterInv
      <4> QED
        BY <2>1, <3>1, Consumes
    <3> QED
      BY <2>1, <3>2
  <2>4. \A k \in Source : hits'[k] = hits[k]
    BY <2>3
  <2>5. Accounted(attempts', Source, AttemptLimit, now, hits')
    BY <2>2, <2>4, Agree
  <2>6. hits' \in [Source \cup Principal -> Sums]
    <3>1. DOMAIN hits' = Source \cup Principal /\ hits' = [k \in DOMAIN hits' |-> hits'[k]]
      BY <2>1 DEF Counted
    <3>2. \A k \in Source \cup Principal : hits'[k] \in Sums
      BY <2>3, <2>4 DEF Accounted
    <3> QED
      BY <3>1, <3>2
  <2> QED
    BY <2>1, <2>2, <2>3, <2>5, <2>6
<1>4. ASSUME NEW named, NEW oauth, StartAgent(named, oauth) PROVE LimiterInv'
  <2>1. /\ attempts' = <<>> /\ requests' = <<>>
        /\ hits' = [k \in Source \cup Principal |-> Untouched]
    BY <1>4 DEF StartAgent
  <2>2. hits' \in [Source \cup Principal -> Sums]
    BY <2>1 DEF Untouched, Sums
  <2>3. (\A k \in Source : hits'[k] = Untouched) /\ (\A k \in Principal : hits'[k] = Untouched)
    BY <2>1
  <2> QED
    BY <2>1, <2>2, <2>3, Empty
<1>5. CASE Clock
  <2>1. /\ now' = now + 1 /\ UNCHANGED <<attempts, requests>>
        /\ hits' = [k \in Source \cup Principal |-> Aged(hits[k])]
    BY <1>5 DEF Clock, Tick
  <2>2. /\ \A k \in Source : hits'[k] = Aged(hits[k])
        /\ \A k \in Principal : hits'[k] = Aged(hits[k])
    BY <2>1
  <2>3. /\ Accounted(attempts, Source, AttemptLimit, now + 1, hits')
        /\ Accounted(requests, Principal, RequestLimit, now + 1, hits')
    BY <2>2, Ticks
  <2>4. hits' \in [Source \cup Principal -> Sums]
    BY <2>1, <2>3 DEF Accounted
  <2> QED
    BY <2>1, <2>3, <2>4
<1>6. CASE StopAgent \/ Admin
  <2>1. now' = now
    BY <1>6 DEF StopAgent, Stop, Admin, AdminNext, AdminCreate, RotateCheck, RotateCommit,
                Revoke, SetPrincipalEnabled
  <2> QED
    BY <1>1, <1>6, <2>1 DEF StopAgent, Admin
<1> QED
  BY <1>1, <1>2, <1>3, <1>4, <1>5, <1>6 DEF Next, vars, credVars

\* The window that ends now is explained: less than twice the limit.
LEMMA LimiterHolds == ASSUME LimiterInv, now \in Nat PROVE LimitsHold
<1> USE AccessAssumption
<1>1. ASSUME NEW table, NEW K, NEW limit \in Nat \ {0}, Accounted(table, K, limit, now, hits),
             NEW k \in K
      PROVE  Total(k) < 2 * limit
  <2>1. hits[k] \in Sums /\ Window - 1 \in 0 .. Window - 1
    BY <1>1 DEF Accounted
  <2>2. CASE k \in KeysOf(table)
    <3>1. PICK i \in DOMAIN table : table[i].key = k
      BY <2>2 DEF KeysOf
    <3>2. table[i].count \in 1 .. limit /\ Counts(hits[k], table[i], limit, now)
      BY <1>1, <3>1, Typed DEF Accounted
    <3>3. hits[k][Window - 1] < table[i].count + limit
      BY <2>1, <3>2 DEF Counts
    <3> QED
      BY <2>1, <3>2, <3>3 DEF Total, Sums
  <2>3. CASE k \notin KeysOf(table)
    <3>1. hits[k][Window - 1] < limit
      BY <1>1, <2>1, <2>3 DEF Accounted, Rests
    <3> QED
      BY <2>1, <3>1 DEF Total, Sums
  <2> QED
    BY <2>2, <2>3
<1> QED
  BY <1>1 DEF LimiterInv, LimitsHold

\* A limiter knows of now and of the credentials what CredentialInv says.
LEMMA LimiterInvariance == Spec => []LimiterInv
<1>1. Init => LimiterInv
  <2> SUFFICES ASSUME Init PROVE LimiterInv
    OBVIOUS
  <2>1. hits \in [Source \cup Principal -> Sums]
    BY DEF Init, Untouched, Sums
  <2>2. /\ attempts = <<>> /\ \A k \in Source : hits[k] = Untouched
        /\ requests = <<>> /\ \A k \in Principal : hits[k] = Untouched
    BY DEF Init
  <2>3. Accounted(attempts, Source, AttemptLimit, now, hits) /\ Len(attempts) <= MaxKeys
    BY <2>2, Empty, AccessAssumption
  <2>4. Accounted(requests, Principal, RequestLimit, now, hits) /\ Len(requests) <= MaxKeys
    BY <2>2, Empty, AccessAssumption
  <2> QED
    BY <2>1, <2>3, <2>4 DEF LimiterInv
<1>2. CredentialInv /\ LimiterInv /\ [Next]_vars => LimiterInv'
  <2> SUFFICES ASSUME CredentialInv, LimiterInv, [Next]_vars PROVE LimiterInv'
    OBVIOUS
  <2>1. now \in Nat /\ \A c \in Credential : creds[c].principal \in Principal
    BY DEF CredentialInv, CredentialTypeOK, CredentialRow
  <2> QED
    BY <2>1, LimiterStep
<1> QED
  BY <1>1, <1>2, Invariance, PTL DEF Spec

\* In any Window ticks in a row a source fails, and a principal is served, less
\* often than twice the limit, and the tables stay bounded: for every window,
\* every limit and every size of the tables, whatever the clock, the evictions
\* of prune and the restarts of the agent do in between.
THEOREM LimitsAreKept == Spec => []LimitsHold
<1>1. CredentialInv => now \in Nat
  BY DEF CredentialInv, CredentialTypeOK
<1>2. CredentialInv /\ LimiterInv => LimitsHold
  BY <1>1, LimiterHolds
<1> QED
  BY <1>2, Invariance, LimiterInvariance, PTL

=============================================================================
