---------------------------- MODULE Grants_proofs ----------------------------
(***************************************************************************)
(* What was issued can be used only while what it rests on stands, for     *)
(* every choice of the constants.                                          *)
(*                                                                         *)
(* GInv is the inductive invariant: the store is sound, and Kept -- what   *)
(* is unrevoked is linked to an open session or an unrevoked family        *)
(* (Links), was issued on the account, client and policy as they are       *)
(* (Good), through a consent that was not withdrawn since (Withdrawn),     *)
(* once per code and per request (Lines), under keys that were drawn       *)
(* (AllDrawn).  A handler is a composition of store methods, so the proof  *)
(* follows it method by method: Leads(d, e, t, W) says that the method     *)
(* that made e of d kept all of it and moved no record back (Follows), and *)
(* Leads composes.  Between the two halves of a Write that withdraws       *)
(* consents W, those consents are excepted.                                *)
(***************************************************************************)
EXTENDS Provider_proofs

(***************************************************************************)
(* The inductive invariant, over and above a sound store with its links.   *)
(***************************************************************************)
UserNow(d, u, cred) == UserActive(d, u) /\ d.users[u].cred = cred
ClientNow(d, c, rev) == c \in DOMAIN d.clients /\ d.clients[c].rev = rev

\* issued on what the account, the client and the policy are now
SessionGood(d, v) == v.ended = 0 => UserNow(d, v.user, v.cred)
CodeGood(d, v) == ~v.revoked => UserNow(d, v.user, v.cred) /\ ClientNow(d, v.client, v.rev)
FamilyGood(d, v) ==
    ~v.revoked => /\ UserNow(d, v.user, v.cred) /\ ClientNow(d, v.client, v.rev)
                  /\ "refresh_token" \in d.policy[v.client]
                  /\ v.retain = v.abs + AccessTokenTTL
TokenGood(d, v) ==
    ~v.revoked => /\ v.user # 0 => UserNow(d, v.user, v.cred)
                  /\ ClientNow(d, v.client, v.rev)
                  /\ v.snap = v.rev
                  /\ v.grant \in {"client_credentials", "password"} => v.grant \in d.policy[v.client]
                  /\ v.grant = "password" => v.user # 0 /\ d.access[v.user]

Good(d) ==
    /\ \A h \in DOMAIN d.sessions : SessionGood(d, d.sessions[h])
    /\ \A k \in DOMAIN d.codes : CodeGood(d, d.codes[k])
    /\ \A f \in DOMAIN d.families : FamilyGood(d, d.families[f])
    /\ \A k \in DOMAIN d.tokens : TokenGood(d, d.tokens[k])

\* code v answers the authorization request t
Answers(v, t) ==
    /\ t.consumed
    /\ v.user = t.user /\ v.op = t.op /\ v.client = t.client
    /\ v.scopes \subseteq t.scopes
    /\ v.auth >= t.reauth
    /\ t.reauth = 0 /\ t.maxAge # NoMaxAge => v.exp - CodeTTL - v.auth <= t.maxAge

\* a request leads to at most one code, a code to at most one exchange
CodeLine(d, v) ==
    /\ v.txn < d.next["txn"]
    /\ v.txn \in DOMAIN d.txns => Answers(v, d.txns[v.txn])
TokenLine(d, v) ==
    v.grant = "authorization_code" =>
        /\ v.code < d.next["code"]
        /\ v.code \in DOMAIN d.codes => d.codes[v.code].consumed

Lines(d) ==
    /\ \A k \in DOMAIN d.codes : CodeLine(d, d.codes[k])
    /\ \A k \in DOMAIN d.tokens : TokenLine(d, d.tokens[k])
    /\ \A j, k \in DOMAIN d.codes : d.codes[j].txn = d.codes[k].txn /\ d.codes[j].txn # 0 => j = k
    /\ \A j, k \in DOMAIN d.tokens :
          /\ d.tokens[j].code = d.tokens[k].code
          /\ d.tokens[j].grant = "authorization_code"
          /\ d.tokens[k].grant = "authorization_code"
          => j = k

\* every key in use was drawn
AllDrawn(d) ==
    /\ \A x \in DOMAIN d.sessions : x < d.next["session"]
    /\ \A x \in DOMAIN d.apps : x < d.next["app"]
    /\ \A x \in DOMAIN d.txns : x < d.next["txn"]
    /\ \A x \in DOMAIN d.codes : x < d.next["code"]
    /\ \A x \in DOMAIN d.tokens : x < d.next["token"]
    /\ \A x \in DOMAIN d.families : x < d.next["family"]
    /\ \A x \in DOMAIN d.refresh : x < d.next["refresh"]

\* consent w, if revoked, leaves nothing that can be used at time t or later
WithdrawnAt(d, t, w) ==
    d.consents[w].revoked =>
        /\ \A f \in DOMAIN d.families :
              d.families[f].user = w[1] /\ d.families[f].client = w[2] => d.families[f].revoked
        /\ \A k \in DOMAIN d.codes :
              d.codes[k].user = w[1] /\ d.codes[k].client = w[2] =>
                  d.codes[k].revoked \/ d.codes[k].consumed \/ d.codes[k].exp <= t
        /\ \A k \in DOMAIN d.tokens :
              d.tokens[k].user = w[1] /\ d.tokens[k].client = w[2] =>
                  d.tokens[k].revoked \/ d.tokens[k].grant = "password" \/ d.tokens[k].exp <= t

\* so for every consent, but those of W that a Write is about to withdraw
Withdrawn(d, t, W) == \A w \in DOMAIN d.consents \ W : WithdrawnAt(d, t, w)

Kept(d, t, W) == Links(d) /\ Good(d) /\ Lines(d) /\ AllDrawn(d) /\ Withdrawn(d, t, W)

Fine(d, t, W) == Sound(d) /\ Kept(d, t, W)

(***************************************************************************)
(* What no step may do to the records.                                     *)
(***************************************************************************)
\* the record under key x is new, or was there and changed as Change allows
EndFollows(m, n, first) ==
    \A x \in DOMAIN n : \/ x >= first
                        \/ x \in DOMAIN m /\ (m[x].ended # 0 => n[x] = m[x])
RevokedFollows(m, n, first) ==
    \A x \in DOMAIN n : \/ x >= first
                        \/ x \in DOMAIN m /\ (m[x].revoked => n[x].revoked)
ConsumedFollows(m, n, first) ==
    \A x \in DOMAIN n : \/ x >= first
                        \/ x \in DOMAIN m /\ (m[x].consumed => n[x].consumed)
ClaimFollows(m, n, first) ==
    \A x \in DOMAIN n : \/ x >= first
                        \/ x \in DOMAIN m /\ (m[x].user # 0 => n[x].user = m[x].user)

\* a new refresh token is of a new family, or no wider than the one it replaces
RefreshFollows(m, n, first, family) ==
    \A q \in DOMAIN n :
        \/ /\ q \in DOMAIN m
           /\ n[q].family = m[q].family /\ n[q].scopes = m[q].scopes
           /\ m[q].consumed => n[q].consumed
        \/ /\ q >= first
           /\ \/ n[q].family >= family
              \/ \E p \in DOMAIN m : /\ ~m[p].consumed
                                     /\ m[p].family = n[q].family
                                     /\ n[q].scopes \subseteq m[p].scopes

Follows(d, e) ==
    /\ \A kind \in Kinds : d.next[kind] <= e.next[kind]
    /\ EndFollows(d.sessions, e.sessions, d.next["session"])
    /\ EndFollows(d.apps, e.apps, d.next["app"])
    /\ RevokedFollows(d.txns, e.txns, d.next["txn"])
    /\ ConsumedFollows(d.txns, e.txns, d.next["txn"])
    /\ ClaimFollows(d.txns, e.txns, d.next["txn"])
    /\ RevokedFollows(d.codes, e.codes, d.next["code"])
    /\ ConsumedFollows(d.codes, e.codes, d.next["code"])
    /\ RevokedFollows(d.tokens, e.tokens, d.next["token"])
    /\ RevokedFollows(d.families, e.families, d.next["family"])
    /\ RefreshFollows(d.refresh, e.refresh, d.next["refresh"], d.next["family"])

\* the store d was changed into e
Leads(d, e, t, W) == Fine(e, t, W) /\ Follows(d, e)

\* The counters are numbers, and so are the keys.
LEMMA Counters ==
    ASSUME NEW d, StoreOK(d)
    PROVE  /\ \A kind \in Kinds : d.next[kind] \in Nat \ {0}
           /\ \A x \in DOMAIN d.sessions \cup DOMAIN d.apps \cup DOMAIN d.txns
                       \cup DOMAIN d.codes \cup DOMAIN d.tokens
                       \cup DOMAIN d.families \cup DOMAIN d.refresh : x \in Nat
           /\ {"session", "app", "txn", "code", "token", "family", "refresh"} \subseteq Kinds
BY DEF StoreOK, IsMap, Id, Kinds

\* One change after another, of records that end,
LEMMA EndTwice ==
    ASSUME NEW m, NEW n, NEW o, NEW i \in Nat, NEW j \in Nat, i <= j,
           \A x \in DOMAIN o : x \in Nat,
           EndFollows(m, n, i), EndFollows(n, o, j)
    PROVE  EndFollows(m, o, i)
<1>1. \A x \in DOMAIN o : x >= j => x >= i
  OBVIOUS
<1> QED BY <1>1 DEF EndFollows

\* are revoked,
LEMMA RevokedTwice ==
    ASSUME NEW m, NEW n, NEW o, NEW i \in Nat, NEW j \in Nat, i <= j,
           \A x \in DOMAIN o : x \in Nat,
           RevokedFollows(m, n, i), RevokedFollows(n, o, j)
    PROVE  RevokedFollows(m, o, i)
<1>1. \A x \in DOMAIN o : x >= j => x >= i
  OBVIOUS
<1> QED BY <1>1 DEF RevokedFollows

\* consumed
LEMMA ConsumedTwice ==
    ASSUME NEW m, NEW n, NEW o, NEW i \in Nat, NEW j \in Nat, i <= j,
           \A x \in DOMAIN o : x \in Nat,
           ConsumedFollows(m, n, i), ConsumedFollows(n, o, j)
    PROVE  ConsumedFollows(m, o, i)
<1>1. \A x \in DOMAIN o : x >= j => x >= i
  OBVIOUS
<1> QED BY <1>1 DEF ConsumedFollows

\* or claimed.
LEMMA ClaimTwice ==
    ASSUME NEW m, NEW n, NEW o, NEW i \in Nat, NEW j \in Nat, i <= j,
           \A x \in DOMAIN o : x \in Nat,
           ClaimFollows(m, n, i), ClaimFollows(n, o, j)
    PROVE  ClaimFollows(m, o, i)
<1>1. \A x \in DOMAIN o : x >= j => x >= i
  OBVIOUS
<1> QED BY <1>1 DEF ClaimFollows

\* The same of refresh tokens.
LEMMA RefreshFollowsTwice ==
    ASSUME NEW m, NEW n, NEW o, NEW i \in Nat, NEW j \in Nat, i <= j,
           NEW f \in Nat, NEW g \in Nat, f <= g,
           \A x \in DOMAIN o : x \in Nat /\ o[x].family \in Nat,
           RefreshFollows(m, n, i, f), RefreshFollows(n, o, j, g)
    PROVE  RefreshFollows(m, o, i, f)
<1>1. SUFFICES ASSUME NEW q \in DOMAIN o
               PROVE  \/ /\ q \in DOMAIN m
                         /\ o[q].family = m[q].family /\ o[q].scopes = m[q].scopes
                         /\ m[q].consumed => o[q].consumed
                      \/ /\ q >= i
                         /\ \/ o[q].family >= f
                            \/ \E p \in DOMAIN m : /\ ~m[p].consumed
                                                   /\ m[p].family = o[q].family
                                                   /\ o[q].scopes \subseteq m[p].scopes
  BY DEF RefreshFollows
<1>2. CASE /\ q \in DOMAIN n
           /\ o[q].family = n[q].family /\ o[q].scopes = n[q].scopes
           /\ n[q].consumed => o[q].consumed
  BY <1>2 DEF RefreshFollows
<1>3. CASE q >= j /\ o[q].family >= g
  BY <1>3
<1>4. CASE /\ q >= j
           /\ \E p \in DOMAIN n : /\ ~n[p].consumed /\ n[p].family = o[q].family
                                  /\ o[q].scopes \subseteq n[p].scopes
  <2>1. q >= i
    BY <1>4
  <2>2. PICK p \in DOMAIN n : /\ ~n[p].consumed /\ n[p].family = o[q].family
                              /\ o[q].scopes \subseteq n[p].scopes
    BY <1>4
  <2>3. \/ p \in DOMAIN m /\ n[p].family = m[p].family /\ n[p].scopes = m[p].scopes
              /\ (m[p].consumed => n[p].consumed)
        \/ n[p].family >= f
        \/ \E r \in DOMAIN m : /\ ~m[r].consumed /\ m[r].family = n[p].family
                               /\ n[p].scopes \subseteq m[r].scopes
    BY <2>2 DEF RefreshFollows
  <2> QED BY <2>1, <2>2, <2>3
<1> QED BY <1>2, <1>3, <1>4 DEF RefreshFollows

\* One change after another.
LEMMA FollowsTwice ==
    ASSUME NEW d, StoreOK(d), NEW e, StoreOK(e), NEW g, StoreOK(g),
           Follows(d, e), Follows(e, g)
    PROVE  Follows(d, g)
<1>1. \A kind \in Kinds : /\ d.next[kind] \in Nat /\ e.next[kind] \in Nat
                          /\ g.next[kind] \in Nat
                          /\ d.next[kind] <= e.next[kind] /\ e.next[kind] <= g.next[kind]
  BY Counters DEF Follows
<1>2. \A kind \in Kinds : d.next[kind] <= g.next[kind]
  BY <1>1
<1>3. /\ \A x \in DOMAIN g.sessions : x \in Nat
      /\ \A x \in DOMAIN g.apps : x \in Nat
      /\ \A x \in DOMAIN g.txns : x \in Nat
      /\ \A x \in DOMAIN g.codes : x \in Nat
      /\ \A x \in DOMAIN g.tokens : x \in Nat
      /\ \A x \in DOMAIN g.families : x \in Nat
      /\ \A x \in DOMAIN g.refresh : x \in Nat /\ g.refresh[x].family \in Nat
  BY Counters, Records DEF RefreshToken, Id
<1>4. \A kind \in {"session", "app", "txn", "code", "token", "family", "refresh"} :
         /\ d.next[kind] \in Nat /\ e.next[kind] \in Nat /\ d.next[kind] <= e.next[kind]
  BY <1>1 DEF Kinds
<1>5. EndFollows(d.sessions, g.sessions, d.next["session"])
  <2>1. /\ d.next["session"] \in Nat /\ e.next["session"] \in Nat
        /\ d.next["session"] <= e.next["session"]
    BY <1>4
  <2>2. \A x \in DOMAIN g.sessions : x \in Nat
    BY <1>3
  <2>3. /\ EndFollows(d.sessions, e.sessions, d.next["session"])
        /\ EndFollows(e.sessions, g.sessions, e.next["session"])
    BY DEF Follows
  <2> QED BY <2>1, <2>2, <2>3, EndTwice
<1>6. EndFollows(d.apps, g.apps, d.next["app"])
  <2>1. /\ d.next["app"] \in Nat /\ e.next["app"] \in Nat
        /\ d.next["app"] <= e.next["app"]
    BY <1>4
  <2>2. \A x \in DOMAIN g.apps : x \in Nat
    BY <1>3
  <2>3. /\ EndFollows(d.apps, e.apps, d.next["app"])
        /\ EndFollows(e.apps, g.apps, e.next["app"])
    BY DEF Follows
  <2> QED BY <2>1, <2>2, <2>3, EndTwice
<1>7. /\ RevokedFollows(d.txns, g.txns, d.next["txn"])
      /\ ConsumedFollows(d.txns, g.txns, d.next["txn"])
      /\ ClaimFollows(d.txns, g.txns, d.next["txn"])
  <2>1. /\ d.next["txn"] \in Nat /\ e.next["txn"] \in Nat
        /\ d.next["txn"] <= e.next["txn"]
    BY <1>4
  <2>2. \A x \in DOMAIN g.txns : x \in Nat
    BY <1>3
  <2>3. /\ RevokedFollows(d.txns, e.txns, d.next["txn"])
        /\ RevokedFollows(e.txns, g.txns, e.next["txn"])
        /\ ConsumedFollows(d.txns, e.txns, d.next["txn"])
        /\ ConsumedFollows(e.txns, g.txns, e.next["txn"])
        /\ ClaimFollows(d.txns, e.txns, d.next["txn"])
        /\ ClaimFollows(e.txns, g.txns, e.next["txn"])
    BY DEF Follows
  <2> QED BY <2>1, <2>2, <2>3, RevokedTwice, ConsumedTwice, ClaimTwice
<1>8. /\ RevokedFollows(d.codes, g.codes, d.next["code"])
      /\ ConsumedFollows(d.codes, g.codes, d.next["code"])
  <2>1. /\ d.next["code"] \in Nat /\ e.next["code"] \in Nat
        /\ d.next["code"] <= e.next["code"]
    BY <1>4
  <2>2. \A x \in DOMAIN g.codes : x \in Nat
    BY <1>3
  <2>3. /\ RevokedFollows(d.codes, e.codes, d.next["code"])
        /\ RevokedFollows(e.codes, g.codes, e.next["code"])
        /\ ConsumedFollows(d.codes, e.codes, d.next["code"])
        /\ ConsumedFollows(e.codes, g.codes, e.next["code"])
    BY DEF Follows
  <2> QED BY <2>1, <2>2, <2>3, RevokedTwice, ConsumedTwice
<1>9. RevokedFollows(d.tokens, g.tokens, d.next["token"])
  <2>1. /\ d.next["token"] \in Nat /\ e.next["token"] \in Nat
        /\ d.next["token"] <= e.next["token"]
    BY <1>4
  <2>2. \A x \in DOMAIN g.tokens : x \in Nat
    BY <1>3
  <2>3. /\ RevokedFollows(d.tokens, e.tokens, d.next["token"])
        /\ RevokedFollows(e.tokens, g.tokens, e.next["token"])
    BY DEF Follows
  <2> QED BY <2>1, <2>2, <2>3, RevokedTwice
<1>10. RevokedFollows(d.families, g.families, d.next["family"])
  <2>1. /\ d.next["family"] \in Nat /\ e.next["family"] \in Nat
        /\ d.next["family"] <= e.next["family"]
    BY <1>4
  <2>2. \A x \in DOMAIN g.families : x \in Nat
    BY <1>3
  <2>3. /\ RevokedFollows(d.families, e.families, d.next["family"])
        /\ RevokedFollows(e.families, g.families, e.next["family"])
    BY DEF Follows
  <2> QED BY <2>1, <2>2, <2>3, RevokedTwice
<1>11. RefreshFollows(d.refresh, g.refresh, d.next["refresh"], d.next["family"])
  <2>1. /\ d.next["refresh"] \in Nat /\ e.next["refresh"] \in Nat
        /\ d.next["refresh"] <= e.next["refresh"]
        /\ d.next["family"] \in Nat /\ e.next["family"] \in Nat
        /\ d.next["family"] <= e.next["family"]
    BY <1>4
  <2>2. \A x \in DOMAIN g.refresh : x \in Nat /\ g.refresh[x].family \in Nat
    BY <1>3
  <2>3. /\ RefreshFollows(d.refresh, e.refresh, d.next["refresh"], d.next["family"])
        /\ RefreshFollows(e.refresh, g.refresh, e.next["refresh"], e.next["family"])
    BY DEF Follows
  <2> QED BY <2>1, <2>2, <2>3, RefreshFollowsTwice
<1> QED BY <1>2, <1>5, <1>6, <1>7, <1>8, <1>9, <1>10, <1>11 DEF Follows

\* Doing nothing.
LEMMA MapsSame ==
    ASSUME NEW m, NEW i
    PROVE  /\ EndFollows(m, m, i) /\ RevokedFollows(m, m, i)
           /\ ConsumedFollows(m, m, i) /\ ClaimFollows(m, m, i)
           /\ \A f : RefreshFollows(m, m, i, f)
BY DEF EndFollows, RevokedFollows, ConsumedFollows, ClaimFollows, RefreshFollows

\* A store that fades follows.
LEMMA FadesFollows ==
    ASSUME NEW d, Sound(d), NEW e, Fades(d, e)
    PROVE  Follows(d, e)
<1>1. \A kind \in Kinds : d.next[kind] <= e.next[kind]
  BY Counters DEF Fades, Sound
<1>2. /\ EndFollows(d.sessions, e.sessions, d.next["session"])
      /\ EndFollows(d.apps, e.apps, d.next["app"])
  BY DEF Fades, EndsOnce, EndFollows
<1>3. /\ RevokedFollows(d.txns, e.txns, d.next["txn"])
      /\ ConsumedFollows(d.txns, e.txns, d.next["txn"])
      /\ ClaimFollows(d.txns, e.txns, d.next["txn"])
      /\ RevokedFollows(d.codes, e.codes, d.next["code"])
      /\ ConsumedFollows(d.codes, e.codes, d.next["code"])
      /\ RevokedFollows(d.tokens, e.tokens, d.next["token"])
      /\ RevokedFollows(d.families, e.families, d.next["family"])
  BY CutFields DEF Fades, Sound, RevokedFollows, ConsumedFollows, ClaimFollows
<1>4. RefreshFollows(d.refresh, e.refresh, d.next["refresh"], d.next["family"])
  BY DEF Fades, OnlyDrops, RefreshFollows
<1> QED BY <1>1, <1>2, <1>3, <1>4 DEF Follows

\* Leads is transitive.
LEMMA LeadsTwice ==
    ASSUME NEW d, Sound(d), NEW e, NEW g, NEW t, NEW V, NEW W,
           Leads(d, e, t, V), Leads(e, g, t, W)
    PROVE  Leads(d, g, t, W)
BY FollowsTwice DEF Leads, Fine, Sound

(***************************************************************************)
(* Revoking, ending and dropping.                                          *)
(***************************************************************************)
\* Fading keeps all but what the accounts, clients and policies are part of.
LEMMA FadesKeeps ==
    ASSUME NEW d, NEW e, NEW t, NEW W, Fine(d, t, W), Fades(d, e)
    PROVE  Links(e) /\ Lines(e) /\ AllDrawn(e) /\ Withdrawn(e, t, W)
<1>1. /\ StoreOK(d) /\ StoreOK(e) /\ e.next = d.next
      /\ OnlyCuts(d.txns, e.txns) /\ OnlyCuts(d.codes, e.codes)
      /\ OnlyCuts(d.tokens, e.tokens) /\ OnlyCuts(d.families, e.families)
      /\ OnlyDrops(d.consents, e.consents)
  BY DEF Fine, Sound, Fades
<1>2. Links(e)
  BY DEF Fades, Fine, Kept
<1>3. AllDrawn(e)
  <2>1. /\ DOMAIN e.sessions \subseteq DOMAIN d.sessions /\ DOMAIN e.apps \subseteq DOMAIN d.apps
        /\ DOMAIN e.txns \subseteq DOMAIN d.txns /\ DOMAIN e.codes \subseteq DOMAIN d.codes
        /\ DOMAIN e.tokens \subseteq DOMAIN d.tokens
        /\ DOMAIN e.families \subseteq DOMAIN d.families
        /\ DOMAIN e.refresh \subseteq DOMAIN d.refresh
    BY DEF Fades, EndsOnce, OnlyCuts, OnlyDrops
  <2> QED BY <1>1, <2>1 DEF Fine, Kept, AllDrawn
<1>4. \A k \in DOMAIN e.codes : LET v == d.codes[k] w == e.codes[k] IN
         /\ k \in DOMAIN d.codes
         /\ w.txn = v.txn /\ w.op = v.op /\ w.client = v.client
         /\ w.user = v.user /\ w.scopes = v.scopes
         /\ w.auth = v.auth /\ w.exp = v.exp /\ w.consumed = v.consumed
         /\ v.revoked => w.revoked
  BY <1>1, CutFields
<1>5. \A k \in DOMAIN e.tokens : LET v == d.tokens[k] w == e.tokens[k] IN
         /\ k \in DOMAIN d.tokens
         /\ w.code = v.code /\ w.client = v.client /\ w.user = v.user
         /\ w.grant = v.grant /\ w.exp = v.exp
         /\ v.revoked => w.revoked
  BY <1>1, CutFields
<1>6. \A k \in DOMAIN e.txns : LET v == d.txns[k] w == e.txns[k] IN
         /\ k \in DOMAIN d.txns
         /\ w.op = v.op /\ w.client = v.client /\ w.user = v.user
         /\ w.scopes = v.scopes /\ w.maxAge = v.maxAge /\ w.reauth = v.reauth
         /\ w.consumed = v.consumed
  BY <1>1, CutFields
<1>7. Lines(e)
  <2>1. Lines(d)
    BY DEF Fine, Kept
  <2>2. ASSUME NEW k \in DOMAIN e.codes PROVE CodeLine(e, e.codes[k])
    <3>1. CodeLine(d, d.codes[k])
      BY <1>4, <2>1 DEF Lines
    <3> QED BY SMTT(30), <1>1, <1>4, <1>6, <3>1 DEF CodeLine, Answers
  <2>3. ASSUME NEW k \in DOMAIN e.tokens PROVE TokenLine(e, e.tokens[k])
    <3>1. TokenLine(d, d.tokens[k])
      BY <1>5, <2>1 DEF Lines
    <3> QED BY <1>1, <1>4, <1>5, <3>1 DEF TokenLine
  <2> QED BY <1>4, <1>5, <2>1, <2>2, <2>3 DEF Lines
<1>8. ASSUME NEW w \in DOMAIN e.consents \ W PROVE WithdrawnAt(e, t, w)
  <2>1. w \in DOMAIN d.consents \ W /\ e.consents[w] = d.consents[w]
    BY <1>1 DEF OnlyDrops
  <2>2. WithdrawnAt(d, t, w)
    BY <2>1 DEF Fine, Kept, Withdrawn
  <2>3. \A f \in DOMAIN e.families : /\ f \in DOMAIN d.families
                                     /\ e.families[f].user = d.families[f].user
                                     /\ e.families[f].client = d.families[f].client
                                     /\ d.families[f].revoked => e.families[f].revoked
    BY <1>1, CutFields
  <2> QED BY <1>4, <1>5, <2>1, <2>2, <2>3 DEF WithdrawnAt
<1> QED BY <1>2, <1>3, <1>7, <1>8 DEF Withdrawn

\* what was good stays good when an account, a client, a policy or an
\* entitlement changes, if what was issued on it is cut off
StillGood(d, e) ==
    /\ \A u \in Users : (\A cred : UserNow(d, u, cred) => UserNow(e, u, cred)) \/ UserCut(e, u)
    /\ \A c \in Clients : \/ /\ \A rev : ClientNow(d, c, rev) => ClientNow(e, c, rev)
                             /\ d.policy[c] \subseteq e.policy[c]
                          \/ ClientCut(e, c)
    /\ \A u \in Users :
          \/ d.access[u] => e.access[u]
          \/ \A k \in DOMAIN e.tokens : e.tokens[k].user = u => e.tokens[k].revoked

\* Fading, when a changed account, client or policy is cut off, keeps what is
\* left good.
LEMMA FadesGood ==
    ASSUME NEW d, NEW e, Sound(d), Fades(d, e), Good(d), StillGood(d, e)
    PROVE  Good(e)
<1>1. /\ StoreOK(d) /\ StoreOK(e)
      /\ OnlyCuts(d.codes, e.codes)
      /\ OnlyCuts(d.tokens, e.tokens) /\ OnlyCuts(d.families, e.families)
      /\ EndsOnce(d.sessions, e.sessions)
  BY DEF Sound, Fades
<1>2. ASSUME NEW h \in DOMAIN e.sessions PROVE SessionGood(e, e.sessions[h])
  <2>1. SUFFICES ASSUME e.sessions[h].ended = 0
                 PROVE  UserNow(e, e.sessions[h].user, e.sessions[h].cred)
    BY DEF SessionGood
  <2>2. h \in DOMAIN d.sessions /\ e.sessions[h] = d.sessions[h] /\ e.sessions[h].user \in Users
    BY <1>1, <2>1, Records DEF EndsOnce, Session
  <2>3. UserNow(d, e.sessions[h].user, e.sessions[h].cred)
    BY <2>1, <2>2 DEF Good, SessionGood
  <2> QED BY <2>1, <2>2, <2>3 DEF StillGood, UserCut
<1>3. ASSUME NEW k \in DOMAIN e.codes PROVE CodeGood(e, e.codes[k])
  <2> DEFINE v == e.codes[k]
  <2>1. SUFFICES ASSUME ~v.revoked
                 PROVE  UserNow(e, v.user, v.cred) /\ ClientNow(e, v.client, v.rev)
    BY DEF CodeGood
  <2>2. k \in DOMAIN d.codes /\ v = d.codes[k]
    BY <1>1, <2>1, CutFields
  <2>3. v.user \in Users /\ v.client \in Clients
    BY <1>1, Records DEF AuthorizationCode
  <2>4. UserNow(d, v.user, v.cred) /\ ClientNow(d, v.client, v.rev)
    BY <2>1, <2>2 DEF Good, CodeGood
  <2>5. ~UserCut(e, v.user) /\ ~ClientCut(e, v.client)
    BY DEF UserCut, ClientCut
  <2> QED BY <2>3, <2>4, <2>5 DEF StillGood
<1>4. ASSUME NEW k \in DOMAIN e.families PROVE FamilyGood(e, e.families[k])
  <2> DEFINE v == e.families[k]
  <2>1. SUFFICES ASSUME ~v.revoked PROVE FamilyGood(e, v)
    BY DEF FamilyGood
  <2>2. k \in DOMAIN d.families /\ v = d.families[k]
    BY <1>1, <2>1, CutFields
  <2>3. v.user \in Users /\ v.client \in Clients
    BY <1>1, Records DEF RefreshFamily
  <2>4. FamilyGood(d, v)
    BY <2>1, <2>2 DEF Good
  <2>5. ~UserCut(e, v.user) /\ ~ClientCut(e, v.client)
    BY <2>1 DEF UserCut, ClientCut
  <2> HIDE DEF v
  <2> QED BY <2>1, <2>3, <2>4, <2>5 DEF StillGood, FamilyGood
<1>5. ASSUME NEW k \in DOMAIN e.tokens PROVE TokenGood(e, e.tokens[k])
  <2> DEFINE v == e.tokens[k]
  <2>1. SUFFICES ASSUME ~v.revoked PROVE TokenGood(e, v)
    BY DEF TokenGood
  <2>2. k \in DOMAIN d.tokens /\ v = d.tokens[k]
    BY <1>1, <2>1, CutFields
  <2>3. v.user \in Users \cup {0} /\ v.client \in Clients
    BY <1>1, Records DEF AccessToken
  <2>4. TokenGood(d, v)
    BY <2>1, <2>2 DEF Good
  <2>5. ~UserCut(e, v.user) /\ ~ClientCut(e, v.client)
    BY <2>1 DEF UserCut, ClientCut
  <2>6. ~(\A j \in DOMAIN e.tokens : e.tokens[j].user = v.user => e.tokens[j].revoked)
    BY <2>1
  <2> HIDE DEF v
  <2> QED BY <2>1, <2>3, <2>4, <2>5, <2>6 DEF StillGood, TokenGood
<1> QED BY <1>2, <1>3, <1>4, <1>5 DEF Good

\* Fading with the accounts, clients and policies changed.
LEMMA FadesLeads ==
    ASSUME NEW d, NEW e, NEW t, NEW W, Fine(d, t, W), Fades(d, e), StillGood(d, e)
    PROVE  Leads(d, e, t, W)
BY FadesKeeps, FadesGood, FadesFollows DEF Leads, Fine, Kept, Fades

\* Withering, with them unchanged.
LEMMA WithersLeads ==
    ASSUME NEW d, NEW e, NEW t, NEW W, Fine(d, t, W), Withers(d, e)
    PROVE  Leads(d, e, t, W)
<1>1. StillGood(d, e)
  BY DEF Withers, Steady, StillGood, UserNow, ClientNow, UserActive
<1> QED BY <1>1, FadesLeads DEF Withers

(***************************************************************************)
(* Account, client, policy and access changes.                             *)
(***************************************************************************)
\* the invariant
GInv == Inv /\ Kept(db, now, {})

Goes == Leads(db, db', now, {})

\* The invariant makes the store fine and the time a time.
LEMMA FineNow == ASSUME GInv PROVE Fine(db, now, {}) /\ Sound(db) /\ now \in Nat \ {0}
BY DEF GInv, Inv, Fine

\* An administrator changes an account.
LEMMA UpdateUserGoes ==
    ASSUME GInv, NEW u \in Users, NEW cred \in Nat, NEW active \in BOOLEAN, NEW role \in Roles,
           UpdateUser(u, cred, active, role)
    PROVE  Goes
<1> DEFINE new == [cred |-> cred, active |-> active, role |-> role]
           d1  == IF new # db.users[u] THEN DeleteUserSessions(db, u, now) ELSE db
           e   == SaveUser(d1, u, new, now)
<1>1. new \in User
  BY DEF User
<1>2. db' = e /\ u \in DOMAIN db.users
  BY DEF UpdateUser
<1> HIDE DEF new
<1>3. Withers(db, d1) /\ Sound(d1) /\ (new # db.users[u] => UserCut(d1, u))
  BY FineNow, DeleteUserSessionsWithers, WithersSelf DEF Withers, Fades
<1> HIDE DEF d1
<1>4. /\ Fades(d1, e)
      /\ e.users = Put(d1.users, u, new)
      /\ e.clients = d1.clients /\ e.policy = d1.policy /\ e.access = d1.access
      /\ UserCut(d1, u) => UserCut(e, u)
  BY <1>1, <1>3, FineNow, SaveUserFades
<1> HIDE DEF e
<1>5. Fades(db, e)
  BY <1>3, <1>4, FadesTwice DEF Withers
<1>6. /\ e.users = Put(db.users, u, new) /\ e.clients = db.clients
      /\ e.policy = db.policy /\ e.access = db.access
  BY <1>3, <1>4 DEF Withers, Steady
<1>7. \A v \in Users : (\A c : UserNow(db, v, c) => UserNow(e, v, c)) \/ UserCut(e, v)
  BY <1>2, <1>3, <1>4, <1>6 DEF UserNow, UserActive, Put
<1>8. StillGood(db, e)
  BY <1>6, <1>7 DEF StillGood, ClientNow
<1> QED BY <1>2, <1>5, <1>8, FineNow, FadesLeads DEF Goes

\* A user changes the e-mail address or the password.
LEMMA CredentialsGoes ==
    ASSUME GInv, NEW h, NEW cred, UpdateProfile(h) \/ ChangePassword(h, cred)
    PROVE  Goes
<1> DEFINE u   == db.sessions[h].user
           new == NewCred(u)
           e   == SaveUser(db, u, new, now)
           g   == DeleteUserSessions(e, u, now)
<1>1. u \in DOMAIN db.users /\ (db' = e \/ db' = g)
  BY DEF UpdateProfile, ChangePassword, Principal, UserActive
<1>2. u \in Users /\ new \in User /\ db.users[u] # new
  <2>1. u \in Users /\ db.users[u] \in User /\ new \in User
    BY <1>1, UserRecord DEF GInv
  <2>2. new.cred = db.users[u].cred + 1 /\ db.users[u].cred \in Nat
    BY <2>1 DEF NewCred, User
  <2> QED BY <2>1, <2>2
<1> HIDE DEF new, u
<1>3. /\ Fades(db, e) /\ Sound(e) /\ e.users = Put(db.users, u, new)
      /\ e.clients = db.clients /\ e.policy = db.policy /\ e.access = db.access
      /\ UserCut(e, u)
  BY <1>1, <1>2, FineNow, SaveUserFades DEF Fades
<1> HIDE DEF e
<1>4. Withers(e, g) /\ UserCut(g, u)
  BY <1>3, FineNow, DeleteUserSessionsWithers
<1> HIDE DEF g
<1>5. Fades(db, db')
  BY <1>1, <1>3, <1>4, FadesTwice DEF Withers
<1>6. /\ db'.users = Put(db.users, u, new) /\ db'.clients = db.clients
      /\ db'.policy = db.policy /\ db'.access = db.access /\ UserCut(db', u)
  BY <1>1, <1>3, <1>4 DEF Withers, Steady
<1>7. \A v \in Users : (\A c : UserNow(db, v, c) => UserNow(db', v, c)) \/ UserCut(db', v)
  BY <1>6 DEF UserNow, UserActive, Put
<1>8. StillGood(db, db')
  BY <1>6, <1>7 DEF StillGood, ClientNow
<1> QED BY <1>5, <1>8, FineNow, FadesLeads DEF Goes

\* An administrator deletes an account.
LEMMA RemoveUserGoes ==
    ASSUME GInv, NEW u \in Users, RemoveUser(u)
    PROVE  Goes
<1>1. /\ Fades(db, db')
      /\ db'.users = Drop(db.users, {u})
      /\ \A v \in Users \ {u} : db'.access[v] = db.access[v]
      /\ db'.clients = db.clients /\ db'.policy = db.policy
      /\ UserCut(db', u)
  <2> DEFINE e == DeleteUser(db, u, now)
  <2>1. /\ Fades(db, e)
        /\ e.users = Drop(db.users, {u})
        /\ \A v \in Users \ {u} : e.access[v] = db.access[v]
        /\ e.clients = db.clients /\ e.policy = db.policy
        /\ UserCut(e, u)
    BY FineNow, DeleteUserFades
  <2>2. db' = e
    BY DEF RemoveUser
  <2> HIDE DEF e
  <2> QED BY <2>1, <2>2
<1>2. \A v \in Users : (\A c : UserNow(db, v, c) => UserNow(db', v, c)) \/ UserCut(db', v)
  BY <1>1 DEF UserNow, UserActive, Drop
<1>3. \A v \in Users :
          \/ db.access[v] => db'.access[v]
          \/ \A k \in DOMAIN db'.tokens : db'.tokens[k].user = v => db'.tokens[k].revoked
  BY <1>1 DEF UserCut
<1>4. StillGood(db, db')
  BY <1>1, <1>2, <1>3 DEF StillGood, ClientNow
<1> QED BY <1>1, <1>4, FineNow, FadesLeads DEF Goes

\* An administrator grants or withdraws the OAuth entitlement.
LEMMA SetOAuthAccessGoes ==
    ASSUME GInv, NEW u \in Users, NEW allowed \in BOOLEAN, SetOAuthAccess(u, allowed)
    PROVE  Goes
<1>1. /\ Fades(db, db')
      /\ \A v \in Users \ {u} : db'.access[v] = db.access[v]
      /\ db'.users = db.users /\ db'.clients = db.clients /\ db'.policy = db.policy
      /\ \A k \in DOMAIN db'.tokens : db'.tokens[k].user = u => db'.tokens[k].revoked
  <2> DEFINE e == SaveOAuthAccess(db, u, allowed, now)
  <2>1. /\ Fades(db, e)
        /\ \A v \in Users \ {u} : e.access[v] = db.access[v]
        /\ e.users = db.users /\ e.clients = db.clients /\ e.policy = db.policy
        /\ \A k \in DOMAIN e.tokens : e.tokens[k].user = u => e.tokens[k].revoked
    BY FineNow, SaveOAuthAccessFades
  <2>2. db' = e
    BY DEF SetOAuthAccess
  <2> HIDE DEF e
  <2> QED BY <2>1, <2>2
<1>2. StillGood(db, db')
  BY <1>1 DEF StillGood, ClientNow, UserNow, UserActive
<1> QED BY <1>1, <1>2, FineNow, FadesLeads DEF Goes

\* An administrator changes, removes or restricts a client.
LEMMA ClientGoes ==
    ASSUME GInv, NEW c \in Clients,
           \/ UpdateClient(c)
           \/ RemoveClient(c)
           \/ \E p \in SUBSET PolicyGrants : SetOAuthPolicy(c, p)
    PROVE  Goes
<1>1. /\ Fades(db, db') /\ db'.users = db.users /\ db'.access = db.access
      /\ \A b \in Clients \ {c} : /\ \A rev : ClientNow(db, b, rev) => ClientNow(db', b, rev)
                                  /\ db'.policy[b] = db.policy[b]
      /\ ClientCut(db', c)
  <2>1. CASE UpdateClient(c)
    <3> DEFINE e == SaveClient(db, c, now)
    <3>1. db' = e /\ c \in DOMAIN db.clients
      BY <2>1 DEF UpdateClient
    <3>2. /\ Fades(db, e) /\ ClientCut(e, c)
          /\ e.clients = Put(db.clients, c, [rev |-> db.clients[c].rev + 1])
          /\ e.users = db.users /\ e.policy = db.policy /\ e.access = db.access
      BY <3>1, FineNow, SaveClientFades
    <3> HIDE DEF e
    <3> QED BY <3>1, <3>2 DEF ClientNow, Put
  <2>2. CASE RemoveClient(c)
    <3> DEFINE e == DeleteClient(db, c, now)
    <3>1. db' = e
      BY <2>2 DEF RemoveClient
    <3>2. /\ Fades(db, e)
          /\ e.clients = Drop(db.clients, {c})
          /\ \A b \in Clients \ {c} : e.policy[b] = db.policy[b]
          /\ e.users = db.users /\ e.access = db.access
          /\ ClientCut(e, c)
      <4>1. Sound(db) /\ now \in Nat \ {0}
        BY FineNow
      <4> QED BY <4>1, DeleteClientFades
    <3> HIDE DEF e
    <3> QED BY <3>1, <3>2 DEF ClientNow, Drop
  <2>3. CASE \E p \in SUBSET PolicyGrants : SetOAuthPolicy(c, p)
    <3>1. PICK p \in SUBSET PolicyGrants : SetOAuthPolicy(c, p)
      BY <2>3
    <3> DEFINE e == SaveOAuthPolicy(db, c, p, now)
    <3>2. db' = e
      BY <3>1 DEF SetOAuthPolicy
    <3>3. /\ Fades(db, e)
          /\ \A b \in Clients \ {c} : e.policy[b] = db.policy[b]
          /\ e.users = db.users /\ e.clients = db.clients /\ e.access = db.access
          /\ ClientCut(e, c)
      <4>1. Sound(db) /\ now \in Nat \ {0}
        BY FineNow
      <4> QED BY <4>1, SaveOAuthPolicyFades
    <3> HIDE DEF e
    <3> QED BY <3>2, <3>3 DEF ClientNow
  <2> QED BY <2>1, <2>2, <2>3
<1>2. StillGood(db, db')
  BY <1>1 DEF StillGood, UserNow, UserActive
<1> QED BY <1>1, <1>2, FineNow, FadesLeads DEF Goes

\* Every administration step.
LEMMA AdminStepGoes == ASSUME GInv, AdminStep PROVE Goes
<1>0. MaxRev \in Nat
  BY ProviderAssumption DEF ProviderAssumption
<1>1. ASSUME NEW u \in Users, NEW cred \in 0..MaxRev, NEW active \in BOOLEAN, NEW role \in Roles,
             UpdateUser(u, cred, active, role)
      PROVE  Goes
  BY <1>0, <1>1, UpdateUserGoes
<1>2. ASSUME NEW h, NEW cred, UpdateProfile(h) \/ ChangePassword(h, cred) PROVE Goes
  BY <1>2, CredentialsGoes
<1> QED BY <1>1, <1>2, RemoveUserGoes, SetOAuthAccessGoes, ClientGoes DEF AdminStep

(***************************************************************************)
(* Ending sessions and revoking grants.                                    *)
(***************************************************************************)
\* A Write that only revokes, ends and drops.
LEMMA WithersGoes == ASSUME GInv, Withers(db, db') PROVE Goes
BY FineNow, WithersLeads DEF Goes

\* Logout, the device list, sign-out everywhere, the end of one application's
\* session, and the sweep.
LEMMA EndingGoes ==
    ASSUME GInv,
           \/ \E h : Logout(h)
           \/ \E id, offline : EndOPSession(id, offline)
           \/ \E u, keep, offline : EndUserSessions(u, keep, offline)
           \/ \E a, offline : EndAppSession(a, offline)
           \/ Sweep
    PROVE  Goes
<1>0. Sound(db) /\ now \in Nat \ {0}
  BY FineNow
<1>1. ASSUME NEW I PROVE LET e == EndSessions(db, I, now) IN Withers(db, e) /\ Sound(e)
  BY <1>0, EndSessionsWithers DEF Withers, Fades
<1>2. ASSUME NEW I PROVE LET e == EndAppSessions(db, I, now) IN Withers(db, e) /\ Sound(e)
  BY <1>0, EndAppSessionsWithers DEF Withers, Fades
<1>3. ASSUME NEW e, Withers(db, e), Sound(e), NEW x
      PROVE  /\ Withers(db, RevokeFamilies(e, x))
             /\ Withers(db, RevokeAccessTokensForUser(e, x))
  <2>1. Withers(e, RevokeFamilies(e, x)) /\ Withers(e, RevokeAccessTokensForUser(e, x))
    BY <1>3, RevokeFamiliesWithers, RevocationWithers
  <2> QED BY <1>3, <2>1, WithersTwice
<1>4. Withers(db, db')
  <2>1. CASE \E h : Logout(h)
    BY <1>1, <2>1 DEF Logout, EndSession
  <2>2. CASE \E id, offline : EndOPSession(id, offline)
    BY <1>1, <1>3, <2>2 DEF EndOPSession, EndSession
  <2>3. CASE \E u, keep, offline : EndUserSessions(u, keep, offline)
    BY <1>1, <1>3, <2>3 DEF EndUserSessions
  <2>4. CASE \E a, offline : EndAppSession(a, offline)
    BY <1>2, <1>3, <2>4 DEF EndAppSession
  <2>5. CASE Sweep
    BY <1>0, <2>5, PruneLogoutStateWithers DEF Sweep
  <2> QED BY <2>1, <2>2, <2>3, <2>4, <2>5
<1> QED BY <1>4, WithersGoes

\* A replay and /revoke revoke what descends from the code, the family or the
\* token presented.
LEMMA RevokingGoes ==
    ASSUME GInv, NEW x, NEW c, NEW snap,
           \/ ReplayCode(x, c, snap) \/ ReplayRefresh(x, c, snap)
           \/ RevokeToken(x, c, snap) \/ RevokeRefresh(x, c, snap)
           \/ RevokeActiveRefresh(x) \/ RevokeActiveToken(x)
    PROVE  Goes
<1>1. Withers(db, db')
  BY FineNow, RevocationWithers DEF ReplayCode, ReplayRefresh, RevokeToken, RevokeRefresh,
     RevokeActiveRefresh, RevokeActiveToken
<1> QED BY <1>1, WithersGoes

\* revokeCode, on a set of codes: those that can be exchanged no longer can.
LEMMA RevokeCodesWithers ==
    ASSUME NEW d, Sound(d), NEW K
    PROVE  LET e == RevokeCodes(d, K) IN
           /\ Withers(d, e) /\ e.consents = d.consents
           /\ \A k \in DOMAIN e.codes : k \in ActiveCodes(d, K) => e.codes[k].revoked
<1> DEFINE A  == ActiveCodes(d, K)
           T  == {t \in DOMAIN d.tokens : d.tokens[t].code \in A /\ now < d.tokens[t].exp}
           co == Revoke(d.codes, A)
           to == Revoke(d.tokens, T)
           N  == {}
           tx == Revoke(d.txns, N)
           d1 == RevokeBoth(d, N, A)
           e  == [d1 EXCEPT !.tokens = Revoke(d1.tokens, T)]
           g  == [d EXCEPT !.codes = co, !.tokens = to]
<1> HIDE DEF A, T, N
<1>1. /\ Withers(d, d1) /\ Sound(d1) /\ d1.consents = d.consents /\ d1.tokens = d.tokens
      /\ \A k \in DOMAIN d1.codes : k \in A => d1.codes[k].revoked
  <2>1. /\ Withers(d, d1) /\ d1.consents = d.consents /\ d1.tokens = d.tokens
        /\ \A k \in DOMAIN d1.codes : k \in A => d1.codes[k].revoked
    BY RevokeBothWithers
  <2> HIDE DEF d1
  <2> QED BY <2>1 DEF Withers, Fades
<1>2. /\ Withers(d1, e) /\ e.consents = d1.consents /\ e.codes = d1.codes
  <2> HIDE DEF d1
  <2> QED BY <1>1, RevokeTokensWithers
<1>3. Withers(d, e)
  <2> HIDE DEF e, d1
  <2> QED BY <1>1, <1>2, WithersTwice
<1>4. e = g
  <2>1. tx = d.txns
    BY Records DEF Revoke, Sound, StoreOK, IsMap, N
  <2>2. to = Revoke(d1.tokens, T)
    BY <1>1
  <2>4. d1 = [d EXCEPT !.txns = tx, !.codes = co]
    BY DEF RevokeBoth
  <2> HIDE DEF tx, co, to, d1
  <2>3. FieldsOf(d)
    BY StoreFields DEF Sound
  <2> QED BY <2>1, <2>2, <2>3, <2>4 DEF FieldsOf
<1>5. RevokeCodes(d, K) = g
  BY DEF RevokeCodes, A, T
<1> HIDE DEF e, d1, g
<1> QED BY <1>1, <1>2, <1>3, <1>4, <1>5 DEF A

\* The activity page revokes codes and authorization requests.
LEMMA RevokeActiveGoes ==
    ASSUME GInv, NEW x, RevokeActiveCode(x) \/ RevokeActiveTxn(x)
    PROVE  Goes
<1>1. Sound(db)
  BY FineNow
<1>2. CASE RevokeActiveCode(x)
  BY <1>1, <1>2, RevokeCodesWithers, WithersGoes DEF RevokeActiveCode
<1>3. CASE RevokeActiveTxn(x)
  <2> DEFINE d1 == [db EXCEPT !.txns = Revoke(db.txns, {x})]
             K  == {k \in DOMAIN db.codes : db.codes[k].txn = x}
  <2>1. Withers(db, d1) /\ Sound(d1)
    BY <1>1, RevokeTxnsWithers DEF Withers, Fades
  <2>2. db' = RevokeCodes(d1, K)
    BY <1>3 DEF RevokeActiveTxn
  <2> HIDE DEF d1, K
  <2>3. Withers(d1, db')
    BY <2>1, <2>2, RevokeCodesWithers
  <2> QED BY <2>1, <2>3, WithersTwice, WithersGoes
<1> QED BY <1>2, <1>3

(***************************************************************************)
(* Consents.                                                               *)
(***************************************************************************)
PutConsent(d, w, new) == [d EXCEPT !.consents = Put(d.consents, w, new)]

\* Good is a matter of the record and of what Steady leaves alone.
LEMMA SteadyGood ==
    ASSUME NEW d, NEW e, Steady(d, e), NEW v
    PROVE  /\ SessionGood(d, v) => SessionGood(e, v)
           /\ CodeGood(d, v) => CodeGood(e, v)
           /\ FamilyGood(d, v) => FamilyGood(e, v)
           /\ TokenGood(d, v) => TokenGood(e, v)
<1>1. /\ \A u, cred : UserNow(d, u, cred) => UserNow(e, u, cred)
      /\ \A c, rev : ClientNow(d, c, rev) => ClientNow(e, c, rev)
      /\ e.policy = d.policy /\ e.access = d.access
  BY DEF UserNow, ClientNow, UserActive, Steady
<1>2. SessionGood(d, v) => SessionGood(e, v)
  BY <1>1 DEF SessionGood
<1>3. CodeGood(d, v) => CodeGood(e, v)
  BY <1>1 DEF CodeGood
<1>4. FamilyGood(d, v) => FamilyGood(e, v)
  BY <1>1 DEF FamilyGood
<1>5. TokenGood(d, v) => TokenGood(e, v)
  BY <1>1 DEF TokenGood
<1> QED BY <1>2, <1>3, <1>4, <1>5

\* Saving a consent, to be withdrawn in the same Write when it is a revoked one.
LEMMA PutConsentLeads ==
    ASSUME NEW d, NEW t, Fine(d, t, {}), NEW w \in Users \X Clients, NEW new \in Consent
    PROVE  LET e == PutConsent(d, w, new) IN
           /\ Leads(d, e, t, {w})
           /\ ~new.revoked => Leads(d, e, t, {})
           /\ e.sessions = d.sessions /\ e.apps = d.apps /\ e.txns = d.txns
           /\ e.codes = d.codes /\ e.tokens = d.tokens /\ e.families = d.families
           /\ e.consents = Put(d.consents, w, new)
           /\ Steady(d, e) /\ e.next = d.next
<1> DEFINE cs == Put(d.consents, w, new)
           e  == [d EXCEPT !.consents = cs]
<1>1. IsMap(cs, Users \X Clients, Consent)
  BY PutMap DEF Fine, Sound, StoreOK
<1>2. /\ cs[w] = new /\ DOMAIN cs = DOMAIN d.consents \cup {w}
      /\ \A x \in DOMAIN d.consents : x # w => cs[x] = d.consents[x]
  BY DEF Put
<1> HIDE DEF cs
<1>3. Sound(e)
  BY <1>1, SetConsents DEF Fine
<1>4. /\ Steady(d, e) /\ e.next = d.next
      /\ e.sessions = d.sessions /\ e.apps = d.apps /\ e.txns = d.txns
      /\ e.codes = d.codes /\ e.tokens = d.tokens /\ e.families = d.families
      /\ e.refresh = d.refresh /\ e.consents = cs
  BY StoreFields DEF Fine, Sound, FieldsOf, Steady
<1>5. e = PutConsent(d, w, new)
  BY DEF PutConsent, cs
<1> HIDE DEF e
<1>6. Kept(d, t, {}) /\ StoreOK(d)
  BY DEF Fine, Sound
<1>7. Links(e)
  BY <1>4, <1>6, SameLinks DEF Kept
<1>8. Good(e)
  BY <1>4, <1>6, SteadyGood DEF Kept, Good
<1>9. Lines(e) /\ AllDrawn(e)
  BY <1>4, <1>6 DEF Kept, Lines, CodeLine, TokenLine, AllDrawn
<1>10. \A x \in DOMAIN d.consents : x # w => WithdrawnAt(e, t, x)
  BY <1>2, <1>4, <1>6 DEF Kept, Withdrawn, WithdrawnAt
<1>11. ~new.revoked => WithdrawnAt(e, t, w)
  BY <1>2, <1>4 DEF WithdrawnAt
<1>12. Withdrawn(e, t, {w}) /\ (~new.revoked => Withdrawn(e, t, {}))
  BY <1>2, <1>4, <1>10, <1>11 DEF Withdrawn
<1>13. Follows(d, e)
  <2>1. \A kind \in Kinds : d.next[kind] <= e.next[kind]
    BY <1>4, <1>6, Counters
  <2> QED BY <1>4, <2>1, MapsSame DEF Follows
<1> QED BY <1>3, <1>4, <1>5, <1>7, <1>8, <1>9, <1>12, <1>13 DEF Leads, Fine, Kept, cs

\* A consent whose grants are withdrawn needs no exception.
LEMMA WithdrawnLeads ==
    ASSUME NEW d, NEW e, NEW t, NEW w, Leads(d, e, t, {w}), WithdrawnAt(e, t, w)
    PROVE  Leads(d, e, t, {})
BY DEF Leads, Fine, Kept, Withdrawn

\* What a revoked consent was saved with stays withdrawn.
LEMMA ConsentRevoked ==
    ASSUME GInv, NEW u \in Users, NEW c \in Clients, NEW new \in Consent, new.revoked
    PROVE  LET e == SaveConsent(db, u, c, new, now) IN
           /\ Leads(db, e, now, {<<u, c>>}) /\ Sound(e)
           /\ \A f \in DOMAIN e.families :
                 e.families[f].user = u /\ e.families[f].client = c => e.families[f].revoked
<1> DEFINE w  == <<u, c>>
           d0 == Unconsent(db, u, c, now)
           e  == PutConsent(d0, w, new)
<1>1. /\ Withers(db, d0)
      /\ \A f \in DOMAIN d0.families :
            d0.families[f].user = u /\ d0.families[f].client = c => d0.families[f].revoked
  BY FineNow, UnconsentWithers
<1>2. SaveConsent(db, u, c, new, now) = e
  BY SaveConsentSaves DEF PutConsent
<1> HIDE DEF d0
<1>3. Leads(db, d0, now, {}) /\ Fine(d0, now, {})
  BY <1>1, FineNow, WithersLeads DEF Leads
<1>4. w \in Users \X Clients
  OBVIOUS
<1> HIDE DEF w
<1>5. Leads(d0, e, now, {w}) /\ e.families = d0.families
  BY <1>3, <1>4, PutConsentLeads
<1> HIDE DEF e
<1>6. Leads(db, e, now, {w})
  BY <1>3, <1>5, FineNow, LeadsTwice
<1> QED BY <1>1, <1>2, <1>5, <1>6 DEF Leads, Fine, w

\* What was withdrawn of user u at client c stays so while the store withers.
LEMMA StaysWithdrawn ==
    ASSUME NEW d, Sound(d), NEW e, Withers(d, e), NEW u, NEW c, NEW t
    PROVE  /\ (\A f \in DOMAIN d.families :
                  d.families[f].user = u /\ d.families[f].client = c => d.families[f].revoked)
              => \A f \in DOMAIN e.families :
                  e.families[f].user = u /\ e.families[f].client = c => e.families[f].revoked
           /\ (\A k \in DOMAIN d.codes :
                  d.codes[k].user = u /\ d.codes[k].client = c =>
                      d.codes[k].revoked \/ d.codes[k].consumed \/ d.codes[k].exp <= t)
              => \A k \in DOMAIN e.codes :
                  e.codes[k].user = u /\ e.codes[k].client = c =>
                      e.codes[k].revoked \/ e.codes[k].consumed \/ e.codes[k].exp <= t
<1>1. OnlyCuts(d.families, e.families) /\ OnlyCuts(d.codes, e.codes) /\ StoreOK(d)
  BY DEF Withers, Fades, Sound
<1>2. \A f \in DOMAIN e.families : /\ f \in DOMAIN d.families
                                   /\ e.families[f].user = d.families[f].user
                                   /\ e.families[f].client = d.families[f].client
                                   /\ d.families[f].revoked => e.families[f].revoked
  BY <1>1, CutFields
<1>3. \A f \in DOMAIN e.codes : /\ f \in DOMAIN d.codes
                                /\ e.codes[f].user = d.codes[f].user
                                /\ e.codes[f].client = d.codes[f].client
                                /\ e.codes[f].consumed = d.codes[f].consumed
                                /\ e.codes[f].exp = d.codes[f].exp
                                /\ d.codes[f].revoked => e.codes[f].revoked
  BY <1>1, CutFields
<1> QED BY <1>2, <1>3

\* The user withdraws what one application was given.
LEMMA EndClientAccessGoes ==
    ASSUME GInv, NEW u \in Users, NEW c \in Clients, EndClientAccess(u, c)
    PROVE  Goes
<1> DEFINE mine(m) == {x \in DOMAIN m : m[x].user = u /\ m[x].client = c}
           w   == <<u, c>>
           new == [db.consents[<<u, c>>] EXCEPT !.revoked = TRUE]
           d1  == SaveConsent(db, u, c, new, now)
           X   == mine(d1.txns)
           K   == mine(d1.codes)
           d2  == RevokeBoth(d1, X, K)
           d3  == EndAppSessions(d2, mine(d2.apps), now)
           T   == mine(d3.tokens)
           e   == [d3 EXCEPT !.tokens = Revoke(d3.tokens, T)]
<1>1. db' = e
  BY DEF EndClientAccess, RevokeBoth
<1>2. new \in Consent /\ new.revoked
  <2>1. db.consents[<<u, c>>] \in Consent
    BY FineNow, Records DEF Sound, EndClientAccess
  <2> QED BY <2>1 DEF Consent
<1> HIDE DEF new
<1>3. /\ Leads(db, d1, now, {w}) /\ Sound(d1)
      /\ \A f \in DOMAIN d1.families :
            d1.families[f].user = u /\ d1.families[f].client = c => d1.families[f].revoked
  BY <1>2, ConsentRevoked
<1>4. \A k \in DOMAIN d1.codes : d1.codes[k].user = u /\ d1.codes[k].client = c => k \in K
  OBVIOUS
<1> HIDE DEF d1, X, K
<1>5. Withers(d1, d2) /\ \A k \in DOMAIN d2.codes : k \in K => d2.codes[k].revoked
  BY <1>3, RevokeBothWithers
<1> HIDE DEF d2
<1>6. Sound(d2)
  BY <1>5 DEF Withers, Fades
<1>7. \A k \in DOMAIN d2.codes :
         d2.codes[k].user = u /\ d2.codes[k].client = c => d2.codes[k].revoked
  <2>1. \A k \in DOMAIN d2.codes : /\ k \in DOMAIN d1.codes
                                   /\ d2.codes[k].user = d1.codes[k].user
                                   /\ d2.codes[k].client = d1.codes[k].client
    BY <1>3, <1>5, CutFields DEF Withers, Fades, Sound
  <2> QED BY <1>4, <1>5, <2>1
<1>8. Withers(d2, d3) /\ Sound(d3)
  BY <1>6, FineNow, EndAppSessionsWithers DEF Withers, Fades
<1>9. \A k \in DOMAIN d3.tokens : d3.tokens[k].user = u /\ d3.tokens[k].client = c => k \in T
  OBVIOUS
<1> HIDE DEF d3, T
<1>10. Withers(d3, e) /\ \A k \in DOMAIN e.tokens : k \in T => e.tokens[k].revoked
  BY <1>8, RevokeTokensWithers
<1> HIDE DEF e
<1>11. \A k \in DOMAIN e.tokens :
          e.tokens[k].user = u /\ e.tokens[k].client = c => e.tokens[k].revoked
  <2>1. \A k \in DOMAIN e.tokens : /\ k \in DOMAIN d3.tokens
                                   /\ e.tokens[k].user = d3.tokens[k].user
                                   /\ e.tokens[k].client = d3.tokens[k].client
    BY <1>8, <1>10, CutFields DEF Withers, Fades, Sound
  <2> QED BY <1>9, <1>10, <2>1
<1>12. Withers(d2, e) /\ Withers(d1, e)
  BY <1>5, <1>8, <1>10, WithersTwice
<1>13. WithdrawnAt(e, now, w)
  <2>1. \A f \in DOMAIN e.families :
           e.families[f].user = u /\ e.families[f].client = c => e.families[f].revoked
    BY <1>3, <1>12, StaysWithdrawn
  <2>2. \A k \in DOMAIN e.codes :
           e.codes[k].user = u /\ e.codes[k].client = c =>
               e.codes[k].revoked \/ e.codes[k].consumed \/ e.codes[k].exp <= now
    BY <1>6, <1>7, <1>12, StaysWithdrawn
  <2> QED BY <1>11, <2>1, <2>2 DEF WithdrawnAt
<1>14. Leads(d1, e, now, {w})
  BY <1>3, <1>12, WithersLeads DEF Leads
<1>15. Leads(db, e, now, {w})
  BY <1>3, <1>14, FineNow, LeadsTwice
<1> QED BY <1>1, <1>13, <1>15, WithdrawnLeads DEF Goes

\* The activity page revokes a consent, with the codes that can be exchanged
\* and the tokens that can be used.
LEMMA RevokeActiveConsentGoes ==
    ASSUME GInv, NEW u \in Users, NEW c \in Clients, RevokeActiveConsent(u, c)
    PROVE  Goes
<1> DEFINE mine(m) == {x \in DOMAIN m : m[x].user = u /\ m[x].client = c}
           w   == <<u, c>>
           new == [db.consents[<<u, c>>] EXCEPT !.revoked = TRUE]
           d1  == SaveConsent(db, u, c, new, now)
           X   == {x \in mine(d1.txns) : ActiveTxn(d1, x)}
           dx  == [d1 EXCEPT !.txns = Revoke(d1.txns, X)]
           K   == mine(d1.codes)
           d2  == RevokeCodes(dx, K)
           T   == {k \in mine(d2.tokens) : now < d2.tokens[k].exp}
           e   == [d2 EXCEPT !.tokens = Revoke(d2.tokens, T)]
<1>1. db' = e
  BY DEF RevokeActiveConsent
<1>2. new \in Consent /\ new.revoked
  <2>1. db.consents[<<u, c>>] \in Consent
    BY FineNow, Records DEF Sound, RevokeActiveConsent
  <2> QED BY <2>1 DEF Consent
<1> HIDE DEF new
<1>3. /\ Leads(db, d1, now, {w}) /\ Sound(d1)
      /\ \A f \in DOMAIN d1.families :
            d1.families[f].user = u /\ d1.families[f].client = c => d1.families[f].revoked
  BY <1>2, ConsentRevoked
<1>4. \A k \in DOMAIN d1.codes : d1.codes[k].user = u /\ d1.codes[k].client = c => k \in K
  OBVIOUS
<1> HIDE DEF d1, X, K
<1>5. Withers(d1, dx) /\ Sound(dx) /\ dx.codes = d1.codes
  BY <1>3, RevokeTxnsWithers DEF Withers, Fades
<1> HIDE DEF dx
<1>6. /\ Withers(dx, d2) /\ Sound(d2)
      /\ \A k \in DOMAIN d2.codes : k \in ActiveCodes(dx, K) => d2.codes[k].revoked
  BY <1>5, RevokeCodesWithers DEF Withers, Fades
<1>7. \A k \in DOMAIN d2.codes :
         d2.codes[k].user = u /\ d2.codes[k].client = c =>
             d2.codes[k].revoked \/ d2.codes[k].consumed \/ d2.codes[k].exp <= now
  <2> HIDE DEF d2
  <2>1. \A k \in DOMAIN d2.codes : /\ k \in DOMAIN dx.codes
                                   /\ d2.codes[k].user = dx.codes[k].user
                                   /\ d2.codes[k].client = dx.codes[k].client
                                   /\ d2.codes[k].consumed = dx.codes[k].consumed
                                   /\ d2.codes[k].exp = dx.codes[k].exp
                                   /\ dx.codes[k].revoked => d2.codes[k].revoked
    BY <1>5, <1>6, CutFields DEF Withers, Fades, Sound
  <2>2. now \in Nat /\ \A k \in DOMAIN dx.codes : dx.codes[k].exp \in Nat
    BY <1>5, FineNow, Records DEF Sound, AuthorizationCode, Time
  <2>3. \A k \in DOMAIN dx.codes : dx.codes[k].user = u /\ dx.codes[k].client = c =>
           \/ dx.codes[k].revoked \/ dx.codes[k].consumed \/ dx.codes[k].exp <= now
           \/ k \in ActiveCodes(dx, K)
    BY <1>4, <1>5, <2>2 DEF ActiveCodes
  <2> QED BY <1>6, <2>1, <2>3
<1>8. \A k \in DOMAIN d2.tokens : /\ d2.tokens[k].user = u /\ d2.tokens[k].client = c
                                  /\ now < d2.tokens[k].exp
                                  => k \in T
  OBVIOUS
<1> HIDE DEF d2, T
<1>9. Withers(d2, e) /\ \A k \in DOMAIN e.tokens : k \in T => e.tokens[k].revoked
  BY <1>6, RevokeTokensWithers
<1> HIDE DEF e
<1>10. \A k \in DOMAIN e.tokens :
          e.tokens[k].user = u /\ e.tokens[k].client = c =>
              e.tokens[k].revoked \/ e.tokens[k].exp <= now
  <2>1. \A k \in DOMAIN e.tokens : /\ k \in DOMAIN d2.tokens
                                   /\ e.tokens[k].user = d2.tokens[k].user
                                   /\ e.tokens[k].client = d2.tokens[k].client
                                   /\ e.tokens[k].exp = d2.tokens[k].exp
    BY <1>6, <1>9, CutFields DEF Withers, Fades, Sound
  <2>2. now \in Nat /\ \A k \in DOMAIN d2.tokens : d2.tokens[k].exp \in Nat
    BY <1>6, FineNow, Records DEF Sound, AccessToken, Time
  <2> QED BY <1>8, <1>9, <2>1, <2>2
<1>11. Withers(d2, e) /\ Withers(d1, e)
  BY <1>5, <1>6, <1>9, WithersTwice
<1>12. WithdrawnAt(e, now, w)
  <2>1. \A f \in DOMAIN e.families :
           e.families[f].user = u /\ e.families[f].client = c => e.families[f].revoked
    BY <1>3, <1>11, StaysWithdrawn
  <2>2. \A k \in DOMAIN e.codes :
           e.codes[k].user = u /\ e.codes[k].client = c =>
               e.codes[k].revoked \/ e.codes[k].consumed \/ e.codes[k].exp <= now
    BY <1>6, <1>7, <1>11, StaysWithdrawn
  <2> QED BY <1>10, <2>1, <2>2 DEF WithdrawnAt
<1>13. Leads(d1, e, now, {w})
  BY <1>3, <1>11, WithersLeads DEF Leads
<1>14. Leads(db, e, now, {w})
  BY <1>3, <1>13, FineNow, LeadsTwice
<1> QED BY <1>1, <1>12, <1>14, WithdrawnLeads DEF Goes

(***************************************************************************)
(* Issuing.                                                                *)
(***************************************************************************)
\* n is m and perhaps more records, under keys drawn from i on and before j
More(m, n, i, j) ==
    /\ DOMAIN m \subseteq DOMAIN n
    /\ \A x \in DOMAIN m : n[x] = m[x]
    /\ \A x \in DOMAIN n \ DOMAIN m : i <= x /\ x < j

\* from d to e records were added, and nothing else
Adds(d, e) ==
    /\ Steady(d, e) /\ e.sessions = d.sessions /\ e.consents = d.consents
    /\ \A kind \in Kinds : d.next[kind] <= e.next[kind]
    /\ More(d.apps, e.apps, d.next["app"], e.next["app"])
    /\ More(d.txns, e.txns, d.next["txn"], e.next["txn"])
    /\ More(d.codes, e.codes, d.next["code"], e.next["code"])
    /\ More(d.tokens, e.tokens, d.next["token"], e.next["token"])
    /\ More(d.families, e.families, d.next["family"], e.next["family"])
    /\ More(d.refresh, e.refresh, d.next["refresh"], e.next["refresh"])

\* no consent that stays withdrawn is of user u for client c
Granted(d, u, c, W) ==
    \A w \in DOMAIN d.consents \ W : d.consents[w].revoked => ~(w[1] = u /\ w[2] = c)

\* what a new record needs
CodeFits(d, e, W, k) == LET v == e.codes[k] IN
    /\ CodeLinks(e, v) /\ CodeGood(e, v) /\ CodeLine(e, v)
    /\ Granted(d, v.user, v.client, W)
    /\ \A j \in DOMAIN e.codes : e.codes[j].txn = v.txn /\ v.txn # 0 => j = k

TokenFits(d, e, W, k) == LET v == e.tokens[k] IN
    /\ TokenLinks(e, v) /\ TokenGood(e, v) /\ TokenLine(e, v)
    /\ v.grant = "password" \/ Granted(d, v.user, v.client, W)
    /\ v.grant = "authorization_code" =>
          \A j \in DOMAIN e.tokens :
              e.tokens[j].code = v.code /\ e.tokens[j].grant = "authorization_code" => j = k

FamilyFits(d, e, W, f) == LET v == e.families[f] IN
    /\ FamilyLinks(e, v) /\ FamilyGood(e, v)
    /\ Granted(d, v.user, v.client, W)
    /\ \E r : Turn(e, f, r)

Fits(d, e, W) ==
    /\ \A k \in DOMAIN e.codes \ DOMAIN d.codes : CodeFits(d, e, W, k)
    /\ \A k \in DOMAIN e.tokens \ DOMAIN d.tokens : TokenFits(d, e, W, k)
    /\ \A f \in DOMAIN e.families \ DOMAIN d.families : FamilyFits(d, e, W, f)
    /\ \A r \in DOMAIN e.refresh \ DOMAIN d.refresh :
          e.refresh[r].family \in DOMAIN e.families \ DOMAIN d.families

\* Added records follow.
LEMMA MoreFollows ==
    ASSUME NEW m, NEW n, NEW i, NEW j, More(m, n, i, j), \A x \in DOMAIN n : x \in Nat, i \in Nat
    PROVE  /\ EndFollows(m, n, i) /\ RevokedFollows(m, n, i)
           /\ ConsumedFollows(m, n, i) /\ ClaimFollows(m, n, i)
BY DEF More, EndFollows, RevokedFollows, ConsumedFollows, ClaimFollows

\* Issuing moves no record.
LEMMA AddsFollows ==
    ASSUME NEW d, Sound(d), NEW e, Sound(e), Adds(d, e), NEW W, Fits(d, e, W)
    PROVE  Follows(d, e)
<1>1. /\ \A kind \in Kinds : d.next[kind] \in Nat
      /\ \A x \in DOMAIN e.apps : x \in Nat
      /\ \A x \in DOMAIN e.txns : x \in Nat
      /\ \A x \in DOMAIN e.codes : x \in Nat
      /\ \A x \in DOMAIN e.tokens : x \in Nat
      /\ \A x \in DOMAIN e.families : x \in Nat
      /\ \A x \in DOMAIN e.refresh : x \in Nat
  BY Counters DEF Sound
<1>2. /\ d.next["app"] \in Nat /\ d.next["txn"] \in Nat /\ d.next["code"] \in Nat
      /\ d.next["token"] \in Nat /\ d.next["family"] \in Nat /\ d.next["refresh"] \in Nat
  BY <1>1 DEF Kinds
<1>3. \A kind \in Kinds : d.next[kind] <= e.next[kind]
  BY DEF Adds
<1>4. EndFollows(d.sessions, e.sessions, d.next["session"])
  BY MapsSame DEF Adds
<1>5. EndFollows(d.apps, e.apps, d.next["app"])
  BY <1>1, <1>2, MoreFollows DEF Adds
<1>6. /\ RevokedFollows(d.txns, e.txns, d.next["txn"])
      /\ ConsumedFollows(d.txns, e.txns, d.next["txn"])
      /\ ClaimFollows(d.txns, e.txns, d.next["txn"])
  BY <1>1, <1>2, MoreFollows DEF Adds
<1>7. /\ RevokedFollows(d.codes, e.codes, d.next["code"])
      /\ ConsumedFollows(d.codes, e.codes, d.next["code"])
  BY <1>1, <1>2, MoreFollows DEF Adds
<1>8. RevokedFollows(d.tokens, e.tokens, d.next["token"])
  BY <1>1, <1>2, MoreFollows DEF Adds
<1>9. RevokedFollows(d.families, e.families, d.next["family"])
  BY <1>1, <1>2, MoreFollows DEF Adds
<1>10. RefreshFollows(d.refresh, e.refresh, d.next["refresh"], d.next["family"])
  <2>1. ASSUME NEW q \in DOMAIN e.refresh, q \notin DOMAIN d.refresh
        PROVE  q >= d.next["refresh"] /\ e.refresh[q].family >= d.next["family"]
    <3>1. e.refresh[q].family \in DOMAIN e.families \ DOMAIN d.families
      BY <2>1 DEF Fits
    <3>2. d.next["family"] <= e.refresh[q].family /\ d.next["refresh"] <= q
      BY <2>1, <3>1 DEF Adds, More
    <3> QED BY <1>1, <1>2, <3>1, <3>2
  <2>2. \A q \in DOMAIN d.refresh : e.refresh[q] = d.refresh[q]
    BY DEF Adds, More
  <2> QED BY <2>1, <2>2 DEF RefreshFollows
<1> QED BY <1>3, <1>4, <1>5, <1>6, <1>7, <1>8, <1>9, <1>10 DEF Follows

\* The links of what was there hold, and the new records have theirs.
LEMMA AddsLinks ==
    ASSUME NEW d, StoreOK(d), NEW e, Adds(d, e), NEW W, Fits(d, e, W), Links(d)
    PROVE  Links(e)
<1>1. /\ e.sessions = d.sessions
      /\ \A x \in DOMAIN d.apps : x \in DOMAIN e.apps /\ e.apps[x] = d.apps[x]
      /\ \A x \in DOMAIN d.codes : x \in DOMAIN e.codes /\ e.codes[x] = d.codes[x]
      /\ \A x \in DOMAIN d.tokens : x \in DOMAIN e.tokens /\ e.tokens[x] = d.tokens[x]
      /\ \A x \in DOMAIN d.families : x \in DOMAIN e.families /\ e.families[x] = d.families[x]
      /\ \A x \in DOMAIN d.refresh : x \in DOMAIN e.refresh /\ e.refresh[x] = d.refresh[x]
  BY DEF Adds, More
<1>2. ASSUME NEW k \in DOMAIN e.codes PROVE CodeLinks(e, e.codes[k])
  <2>1. CASE k \in DOMAIN d.codes
    <3>1. CodeLinks(d, d.codes[k])
      BY <2>1 DEF Links
    <3> QED BY <1>1, <2>1, <3>1 DEF CodeLinks, OpenSession
  <2>2. CASE k \notin DOMAIN d.codes
    BY <2>2 DEF Fits, CodeFits
  <2> QED BY <2>1, <2>2
<1>3. ASSUME NEW k \in DOMAIN e.tokens PROVE TokenLinks(e, e.tokens[k])
  <2>1. CASE k \in DOMAIN d.tokens
    <3>1. TokenLinks(d, d.tokens[k])
      BY <2>1 DEF Links
    <3> QED BY SMTT(30), <1>1, <2>1, <3>1 DEF TokenLinks
  <2>2. CASE k \notin DOMAIN d.tokens
    BY <2>2 DEF Fits, TokenFits
  <2> QED BY <2>1, <2>2
<1>4. ASSUME NEW k \in DOMAIN e.families
      PROVE  FamilyLinks(e, e.families[k]) /\ \E r : Turn(e, k, r)
  <2>1. CASE k \in DOMAIN d.families
    <3>1. FamilyLinks(d, d.families[k])
      BY <2>1 DEF Links
    <3>2. PICK r : Turn(d, k, r)
      BY <2>1 DEF Links
    <3>3. \A q \in DOMAIN e.refresh : e.refresh[q].family = k => q \in DOMAIN d.refresh
      BY <2>1 DEF Fits
    <3>4. Turn(e, k, r)
      BY <1>1, <3>2, <3>3 DEF Turn
    <3> QED BY <1>1, <2>1, <3>1, <3>4 DEF FamilyLinks
  <2>2. CASE k \notin DOMAIN d.families
    BY <2>2 DEF Fits, FamilyFits
  <2> QED BY <2>1, <2>2
<1>5. ASSUME NEW r \in DOMAIN e.refresh PROVE e.refresh[r].family \in DOMAIN e.families
  <2>1. CASE r \in DOMAIN d.refresh
    BY <1>1, <2>1 DEF Links
  <2>2. CASE r \notin DOMAIN d.refresh
    BY <2>2 DEF Fits
  <2> QED BY <2>1, <2>2
<1> QED BY <1>2, <1>3, <1>4, <1>5 DEF Links

\* Issuing on what the accounts, clients and policies are now.
LEMMA AddsGood ==
    ASSUME NEW d, StoreOK(d), NEW e, Adds(d, e), NEW W, Fits(d, e, W), Good(d)
    PROVE  Good(e)
<1>1. /\ Steady(d, e) /\ e.sessions = d.sessions
      /\ \A x \in DOMAIN d.codes : e.codes[x] = d.codes[x]
      /\ \A x \in DOMAIN d.tokens : e.tokens[x] = d.tokens[x]
      /\ \A x \in DOMAIN d.families : e.families[x] = d.families[x]
  BY DEF Adds, More
<1>2. \A h \in DOMAIN e.sessions : SessionGood(e, e.sessions[h])
  BY <1>1, SteadyGood DEF Good
<1>3. ASSUME NEW k \in DOMAIN e.codes PROVE CodeGood(e, e.codes[k])
  BY <1>1, SteadyGood DEF Good, Fits, CodeFits
<1>4. ASSUME NEW k \in DOMAIN e.families PROVE FamilyGood(e, e.families[k])
  BY <1>1, SteadyGood DEF Good, Fits, FamilyFits
<1>5. ASSUME NEW k \in DOMAIN e.tokens PROVE TokenGood(e, e.tokens[k])
  BY <1>1, SteadyGood DEF Good, Fits, TokenFits
<1> QED BY <1>2, <1>3, <1>4, <1>5 DEF Good

\* Issuing one code to a request and one first token to a code.
LEMMA AddsLines ==
    ASSUME NEW d, StoreOK(d), NEW e, StoreOK(e), Adds(d, e), NEW W, Fits(d, e, W), Lines(d)
    PROVE  Lines(e)
<1>1. /\ d.next["txn"] \in Nat /\ d.next["code"] \in Nat
      /\ e.next["txn"] \in Nat /\ e.next["code"] \in Nat
      /\ d.next["txn"] <= e.next["txn"] /\ d.next["code"] <= e.next["code"]
  BY Counters DEF Adds, Kinds
<1>2. /\ \A x \in DOMAIN d.codes : d.codes[x].txn \in Nat
      /\ \A x \in DOMAIN d.tokens : d.tokens[x].code \in Nat
  BY Records DEF AuthorizationCode, AccessToken, Id
<1>3. /\ \A x \in DOMAIN d.codes : x \in DOMAIN e.codes /\ e.codes[x] = d.codes[x]
      /\ \A x \in DOMAIN d.tokens : x \in DOMAIN e.tokens /\ e.tokens[x] = d.tokens[x]
  BY DEF Adds, More
<1>4. /\ \A x \in DOMAIN e.txns : x < d.next["txn"] => x \in DOMAIN d.txns /\ e.txns[x] = d.txns[x]
      /\ \A x \in DOMAIN e.codes : x < d.next["code"] => x \in DOMAIN d.codes
  <2>1. \A x \in DOMAIN e.txns \cup DOMAIN e.codes : x \in Nat
    BY Counters
  <2> QED BY <1>1, <2>1 DEF Adds, More
<1>5. ASSUME NEW k \in DOMAIN e.codes PROVE CodeLine(e, e.codes[k])
  <2>1. CASE k \in DOMAIN d.codes
    <3>1. CodeLine(d, d.codes[k])
      BY <2>1 DEF Lines
    <3>2. d.codes[k].txn < e.next["txn"]
      BY <1>1, <1>2, <2>1, <3>1 DEF CodeLine
    <3> QED BY <1>3, <1>4, <2>1, <3>1, <3>2 DEF CodeLine
  <2>2. CASE k \notin DOMAIN d.codes
    BY <2>2 DEF Fits, CodeFits
  <2> QED BY <2>1, <2>2
<1>6. ASSUME NEW k \in DOMAIN e.tokens PROVE TokenLine(e, e.tokens[k])
  <2>1. CASE k \in DOMAIN d.tokens
    <3>1. TokenLine(d, d.tokens[k])
      BY <2>1 DEF Lines
    <3>2. d.tokens[k].grant = "authorization_code" => d.tokens[k].code < e.next["code"]
      BY <1>1, <1>2, <2>1, <3>1 DEF TokenLine
    <3> QED BY <1>3, <1>4, <2>1, <3>1, <3>2 DEF TokenLine
  <2>2. CASE k \notin DOMAIN d.tokens
    BY <2>2 DEF Fits, TokenFits
  <2> QED BY <2>1, <2>2
<1>7. ASSUME NEW j \in DOMAIN e.codes, NEW k \in DOMAIN e.codes,
             e.codes[j].txn = e.codes[k].txn, e.codes[j].txn # 0
      PROVE  j = k
  <2>1. CASE j \in DOMAIN d.codes /\ k \in DOMAIN d.codes
    BY <1>3, <1>7, <2>1 DEF Lines
  <2>2. CASE j \notin DOMAIN d.codes
    BY <1>7, <2>2 DEF Fits, CodeFits
  <2>3. CASE k \notin DOMAIN d.codes
    BY <1>7, <2>3 DEF Fits, CodeFits
  <2> QED BY <2>1, <2>2, <2>3
<1>8. ASSUME NEW j \in DOMAIN e.tokens, NEW k \in DOMAIN e.tokens,
             e.tokens[j].code = e.tokens[k].code,
             e.tokens[j].grant = "authorization_code", e.tokens[k].grant = "authorization_code"
      PROVE  j = k
  <2>1. CASE j \in DOMAIN d.tokens /\ k \in DOMAIN d.tokens
    BY <1>3, <1>8, <2>1 DEF Lines
  <2>2. CASE j \notin DOMAIN d.tokens
    BY <1>8, <2>2 DEF Fits, TokenFits
  <2>3. CASE k \notin DOMAIN d.tokens
    BY <1>8, <2>3 DEF Fits, TokenFits
  <2> QED BY <2>1, <2>2, <2>3
<1> QED BY <1>5, <1>6, <1>7, <1>8 DEF Lines

\* New keys are below the new counters.
LEMMA AddsDrawn ==
    ASSUME NEW d, StoreOK(d), NEW e, StoreOK(e), Adds(d, e), AllDrawn(d)
    PROVE  AllDrawn(e)
<1>1. \A kind \in Kinds : /\ d.next[kind] \in Nat /\ e.next[kind] \in Nat
                          /\ d.next[kind] <= e.next[kind]
  BY Counters DEF Adds
<1>2. ASSUME NEW m, NEW n, NEW kind \in Kinds, \A x \in DOMAIN n : x \in Nat,
             More(m, n, d.next[kind], e.next[kind]),
             \A x \in DOMAIN m : x < d.next[kind]
      PROVE  \A x \in DOMAIN n : x < e.next[kind]
  BY <1>1, <1>2 DEF More
<1>3. \A x \in DOMAIN e.sessions \cup DOMAIN e.apps \cup DOMAIN e.txns
               \cup DOMAIN e.codes \cup DOMAIN e.tokens
               \cup DOMAIN e.families \cup DOMAIN e.refresh : x \in Nat
  BY Counters
<1>4. \A x \in DOMAIN e.sessions : x < e.next["session"]
  BY <1>1, <1>3 DEF AllDrawn, Adds, Kinds
<1>5. \A x \in DOMAIN e.apps : x < e.next["app"]
  BY <1>2, <1>3 DEF AllDrawn, Adds, Kinds
<1>6. \A x \in DOMAIN e.txns : x < e.next["txn"]
  BY <1>2, <1>3 DEF AllDrawn, Adds, Kinds
<1>7. \A x \in DOMAIN e.codes : x < e.next["code"]
  BY <1>2, <1>3 DEF AllDrawn, Adds, Kinds
<1>8. \A x \in DOMAIN e.tokens : x < e.next["token"]
  BY <1>2, <1>3 DEF AllDrawn, Adds, Kinds
<1>9. \A x \in DOMAIN e.families : x < e.next["family"]
  BY <1>2, <1>3 DEF AllDrawn, Adds, Kinds
<1>10. \A x \in DOMAIN e.refresh : x < e.next["refresh"]
  BY <1>2, <1>3 DEF AllDrawn, Adds, Kinds
<1> QED BY <1>4, <1>5, <1>6, <1>7, <1>8, <1>9, <1>10 DEF AllDrawn

\* Issuing nothing through a withdrawn consent.
LEMMA AddsWithdrawn ==
    ASSUME NEW d, NEW e, Adds(d, e), NEW t, NEW W, Fits(d, e, W), Withdrawn(d, t, W)
    PROVE  Withdrawn(e, t, W)
<1>1. SUFFICES ASSUME NEW w \in DOMAIN d.consents \ W, d.consents[w].revoked
               PROVE  WithdrawnAt(e, t, w)
  BY DEF Withdrawn, WithdrawnAt, Adds
<1>2. WithdrawnAt(d, t, w)
  BY <1>1 DEF Withdrawn
<1>3. /\ \A x \in DOMAIN d.codes : e.codes[x] = d.codes[x]
      /\ \A x \in DOMAIN d.tokens : e.tokens[x] = d.tokens[x]
      /\ \A x \in DOMAIN d.families : e.families[x] = d.families[x]
  BY DEF Adds, More
<1>4. \A f \in DOMAIN e.families :
         e.families[f].user = w[1] /\ e.families[f].client = w[2] => e.families[f].revoked
  BY <1>1, <1>2, <1>3 DEF WithdrawnAt, Fits, FamilyFits, Granted
<1>5. \A k \in DOMAIN e.codes :
         e.codes[k].user = w[1] /\ e.codes[k].client = w[2] =>
             e.codes[k].revoked \/ e.codes[k].consumed \/ e.codes[k].exp <= t
  BY <1>1, <1>2, <1>3 DEF WithdrawnAt, Fits, CodeFits, Granted
<1>6. \A k \in DOMAIN e.tokens :
         e.tokens[k].user = w[1] /\ e.tokens[k].client = w[2] =>
             e.tokens[k].revoked \/ e.tokens[k].grant = "password" \/ e.tokens[k].exp <= t
  BY <1>1, <1>2, <1>3 DEF WithdrawnAt, Fits, TokenFits, Granted
<1> QED BY <1>4, <1>5, <1>6 DEF WithdrawnAt

\* Issuing what fits.
LEMMA AddsLeads ==
    ASSUME NEW d, NEW e, NEW t, NEW W, Fine(d, t, W), Sound(e), Adds(d, e), Fits(d, e, W)
    PROVE  Leads(d, e, t, W)
<1>1. Sound(d) /\ StoreOK(d) /\ StoreOK(e)
  BY DEF Fine, Sound
<1>2. Links(e)
  BY <1>1, AddsLinks DEF Fine, Kept
<1>3. Good(e)
  BY <1>1, AddsGood DEF Fine, Kept
<1>4. Lines(e)
  BY <1>1, AddsLines DEF Fine, Kept
<1>5. AllDrawn(e)
  BY <1>1, AddsDrawn DEF Fine, Kept
<1>6. Withdrawn(e, t, W)
  BY AddsWithdrawn DEF Fine, Kept
<1>7. Follows(d, e)
  BY <1>1, AddsFollows
<1> QED BY <1>2, <1>3, <1>4, <1>5, <1>6, <1>7 DEF Leads, Fine, Kept

\* A record under the key drawn next.
LEMMA PutMore ==
    ASSUME NEW m, NEW i \in Nat, \A x \in DOMAIN m : x \in Nat /\ x < i, NEW v
    PROVE  LET n == Put(m, i, v) IN
           /\ More(m, n, i, i + 1) /\ i \notin DOMAIN m
           /\ DOMAIN n = DOMAIN m \cup {i} /\ n[i] = v
           /\ \A x \in DOMAIN m : n[x] = m[x]
<1>1. i \notin DOMAIN m
  OBVIOUS
<1> QED BY <1>1 DEF More, Put

\* No record added.
LEMMA SameMore == ASSUME NEW m, NEW i, NEW j PROVE More(m, m, i, j)
BY DEF More

\* The counters after a draw.
LEMMA NextDrawn ==
    ASSUME NEW d, StoreOK(d), NEW kind \in Kinds
    PROVE  LET e == Draw(d, kind) IN
           /\ FieldsOf(e) /\ Steady(d, e)
           /\ e.sessions = d.sessions /\ e.apps = d.apps /\ e.txns = d.txns
           /\ e.codes = d.codes /\ e.tokens = d.tokens /\ e.families = d.families
           /\ e.refresh = d.refresh /\ e.consents = d.consents
           /\ \A k \in Kinds : d.next[k] <= e.next[k] /\ (k # kind => e.next[k] = d.next[k])
           /\ e.next[kind] = d.next[kind] + 1
<1> DEFINE n == [d.next EXCEPT ![kind] = d.next[kind] + 1]
           e == [d EXCEPT !.next = n]
<1>1. \A k \in Kinds : d.next[k] \in Nat
  BY Counters
<1>2. d.next \in [Kinds -> Nat \ {0}]
  BY DEF StoreOK
<1>3. /\ \A k \in Kinds : d.next[k] <= n[k] /\ (k # kind => n[k] = d.next[k])
      /\ n[kind] = d.next[kind] + 1
  BY <1>1, <1>2
<1> HIDE DEF n
<1>4. FieldsOf(d)
  BY StoreFields
<1>5. /\ FieldsOf(e) /\ Steady(d, e)
      /\ e.sessions = d.sessions /\ e.apps = d.apps /\ e.txns = d.txns
      /\ e.codes = d.codes /\ e.tokens = d.tokens /\ e.families = d.families
      /\ e.refresh = d.refresh /\ e.consents = d.consents /\ e.next = n
  BY <1>4 DEF FieldsOf, Steady
<1>6. e = Draw(d, kind)
  BY DEF Draw, n
<1> HIDE DEF e
<1> QED BY <1>3, <1>5, <1>6

\* A new authorization request.
LEMMA AddTxnLeads ==
    ASSUME NEW d, NEW t, NEW W, Fine(d, t, W), NEW v \in AuthzTransaction
    PROVE  Leads(d, AddTxn(d, v), t, W)
<1> DEFINE i  == d.next["txn"]
           n  == Put(d.txns, i, v)
           d1 == Draw(d, "txn")
           e  == [d1 EXCEPT !.txns = n]
<1>1. Sound(d) /\ StoreOK(d) /\ AllDrawn(d)
  BY DEF Fine, Sound, Kept
<1>2. e = AddTxn(d, v)
  BY DEF AddTxn
<1>3. Sound(e)
  BY <1>1, <1>2, AddGrantsSound
<1>4. /\ More(d.txns, n, i, i + 1)
  <2>1. i \in Nat /\ \A x \in DOMAIN d.txns : x \in Nat /\ x < i
    BY <1>1, Counters DEF Kinds, AllDrawn
  <2> QED BY <2>1, PutMore
<1>5. /\ FieldsOf(d1) /\ Steady(d, d1)
      /\ d1.sessions = d.sessions /\ d1.apps = d.apps
      /\ d1.codes = d.codes /\ d1.tokens = d.tokens /\ d1.families = d.families
      /\ d1.refresh = d.refresh /\ d1.consents = d.consents
      /\ \A k \in Kinds : d.next[k] <= d1.next[k]
      /\ d1.next["txn"] = i + 1
  BY <1>1, NextDrawn DEF Kinds
<1> HIDE DEF i, n, d1
<1>6. /\ Steady(d, e)
      /\ e.sessions = d.sessions /\ e.apps = d.apps /\ e.txns = n
      /\ e.codes = d.codes /\ e.tokens = d.tokens /\ e.families = d.families
      /\ e.refresh = d.refresh /\ e.consents = d.consents /\ e.next = d1.next
  BY <1>5 DEF FieldsOf, Steady
<1> HIDE DEF e
<1>7. Adds(d, e)
  BY <1>4, <1>5, <1>6, SameMore DEF Adds, i
<1>8. Fits(d, e, W)
  BY <1>6 DEF Fits
<1> QED BY <1>2, <1>3, <1>7, <1>8, AddsLeads

\* A new code.
LEMMA AddCodeLeads ==
    ASSUME NEW d, NEW t, NEW W, Fine(d, t, W), NEW v \in AuthorizationCode,
           CodeLinks(d, v), CodeGood(d, v), CodeLine(d, v), Granted(d, v.user, v.client, W),
           v.txn # 0 => \A j \in DOMAIN d.codes : d.codes[j].txn # v.txn
    PROVE  Leads(d, AddCode(d, v), t, W)
<1> DEFINE i  == d.next["code"]
           n  == Put(d.codes, i, v)
           d1 == Draw(d, "code")
           e  == [d1 EXCEPT !.codes = n]
<1>1. Sound(d) /\ StoreOK(d) /\ AllDrawn(d)
  BY DEF Fine, Sound, Kept
<1>2. e = AddCode(d, v)
  BY DEF AddCode
<1>3. Sound(e)
  BY <1>1, <1>2, AddGrantsSound
<1>4. /\ More(d.codes, n, i, i + 1) /\ DOMAIN n = DOMAIN d.codes \cup {i} /\ n[i] = v
      /\ \A x \in DOMAIN d.codes : n[x] = d.codes[x]
  <2>1. i \in Nat /\ \A x \in DOMAIN d.codes : x \in Nat /\ x < i
    BY <1>1, Counters DEF Kinds, AllDrawn
  <2> HIDE DEF i
  <2>2. More(d.codes, n, i, i + 1)
    BY <2>1, PutMore
  <2>3. i \notin DOMAIN d.codes
    BY <2>1
  <2> QED BY <2>2, <2>3 DEF Put
<1>5. /\ FieldsOf(d1) /\ Steady(d, d1)
      /\ d1.sessions = d.sessions /\ d1.apps = d.apps /\ d1.txns = d.txns
      /\ d1.tokens = d.tokens /\ d1.families = d.families
      /\ d1.refresh = d.refresh /\ d1.consents = d.consents
      /\ \A k \in Kinds : d.next[k] <= d1.next[k]
      /\ d1.next["code"] = i + 1 /\ d1.next["txn"] = d.next["txn"]
  BY <1>1, NextDrawn DEF Kinds
<1> HIDE DEF i, n, d1
<1>6. /\ Steady(d, e)
      /\ e.sessions = d.sessions /\ e.apps = d.apps /\ e.txns = d.txns
      /\ e.codes = n /\ e.tokens = d.tokens /\ e.families = d.families
      /\ e.refresh = d.refresh /\ e.consents = d.consents /\ e.next = d1.next
  BY <1>5 DEF FieldsOf, Steady
<1> HIDE DEF e
<1>7. Adds(d, e)
  BY <1>4, <1>5, <1>6, SameMore DEF Adds, i
<1>8. Fits(d, e, W)
  <2>1. CodeLinks(e, v) /\ CodeGood(e, v) /\ CodeLine(e, v)
    BY <1>5, <1>6, SteadyGood DEF CodeLinks, OpenSession, CodeLine
  <2>2. CodeFits(d, e, W, i)
    BY <1>4, <1>6, <2>1 DEF CodeFits
  <2> QED BY <1>4, <1>6, <2>2 DEF Fits
<1> QED BY <1>2, <1>3, <1>7, <1>8, AddsLeads

\* A new access token.
LEMMA AddTokenLeads ==
    ASSUME NEW d, NEW t, NEW W, Fine(d, t, W), NEW v \in AccessToken,
           TokenLinks(d, v), TokenGood(d, v), TokenLine(d, v),
           v.grant = "password" \/ Granted(d, v.user, v.client, W),
           v.grant = "authorization_code" =>
               \A j \in DOMAIN d.tokens : d.tokens[j].grant = "authorization_code" =>
                                              d.tokens[j].code # v.code
    PROVE  Leads(d, AddToken(d, v), t, W)
<1> DEFINE i  == d.next["token"]
           n  == Put(d.tokens, i, v)
           d1 == Draw(d, "token")
           e  == [d1 EXCEPT !.tokens = n]
<1>1. Sound(d) /\ StoreOK(d) /\ AllDrawn(d)
  BY DEF Fine, Sound, Kept
<1>2. e = AddToken(d, v)
  BY DEF AddToken
<1>3. Sound(e)
  BY <1>1, <1>2, AddGrantsSound
<1>4. /\ More(d.tokens, n, i, i + 1) /\ DOMAIN n = DOMAIN d.tokens \cup {i} /\ n[i] = v
      /\ \A x \in DOMAIN d.tokens : n[x] = d.tokens[x]
  <2>1. i \in Nat /\ \A x \in DOMAIN d.tokens : x \in Nat /\ x < i
    BY <1>1, Counters DEF Kinds, AllDrawn
  <2> HIDE DEF i
  <2>2. More(d.tokens, n, i, i + 1)
    BY <2>1, PutMore
  <2>3. i \notin DOMAIN d.tokens
    BY <2>1
  <2> QED BY <2>2, <2>3 DEF Put
<1>5. /\ FieldsOf(d1) /\ Steady(d, d1)
      /\ d1.sessions = d.sessions /\ d1.apps = d.apps /\ d1.txns = d.txns
      /\ d1.codes = d.codes /\ d1.families = d.families
      /\ d1.refresh = d.refresh /\ d1.consents = d.consents
      /\ \A k \in Kinds : d.next[k] <= d1.next[k]
      /\ d1.next["token"] = i + 1 /\ d1.next["code"] = d.next["code"]
  BY <1>1, NextDrawn DEF Kinds
<1> HIDE DEF i, n, d1
<1>6. /\ Steady(d, e)
      /\ e.sessions = d.sessions /\ e.apps = d.apps /\ e.txns = d.txns
      /\ e.codes = d.codes /\ e.tokens = n /\ e.families = d.families
      /\ e.refresh = d.refresh /\ e.consents = d.consents /\ e.next = d1.next
  BY <1>5 DEF FieldsOf, Steady
<1> HIDE DEF e
<1>7. Adds(d, e)
  BY <1>4, <1>5, <1>6, SameMore DEF Adds, i
<1>8. Fits(d, e, W)
  <2>1. TokenLinks(e, v) /\ TokenGood(e, v) /\ TokenLine(e, v)
    BY <1>5, <1>6, SteadyGood DEF TokenLinks, TokenLine
  <2>2. TokenFits(d, e, W, i)
    BY <1>4, <1>6, <2>1 DEF TokenFits
  <2> QED BY <1>4, <1>6, <2>2 DEF Fits
<1> QED BY <1>2, <1>3, <1>7, <1>8, AddsLeads

\* A new app session.
LEMMA AddAppLeads ==
    ASSUME NEW d, NEW t, NEW W, Fine(d, t, W), NEW v \in AppSession, OpenSession(d, v.op)
    PROVE  LET e == AddApp(d, v) i == d.next["app"] IN
           /\ Leads(d, e, t, W) /\ Steady(d, e)
           /\ e.apps = Put(d.apps, i, v) /\ i \notin DOMAIN d.apps
           /\ e.sessions = d.sessions /\ e.txns = d.txns /\ e.codes = d.codes
           /\ e.tokens = d.tokens /\ e.families = d.families
           /\ e.refresh = d.refresh /\ e.consents = d.consents
           /\ \A k \in Kinds : k # "app" => e.next[k] = d.next[k]
<1> DEFINE i  == d.next["app"]
           n  == Put(d.apps, i, v)
           d1 == Draw(d, "app")
           e  == [d1 EXCEPT !.apps = n]
<1>1. Sound(d) /\ StoreOK(d) /\ AllDrawn(d)
  BY DEF Fine, Sound, Kept
<1>2. e = AddApp(d, v)
  BY DEF AddApp
<1>3. Sound(e)
  BY <1>1, <1>2, AddAppSound
<1>4. More(d.apps, n, i, i + 1) /\ i \notin DOMAIN d.apps
  <2>1. i \in Nat /\ \A x \in DOMAIN d.apps : x \in Nat /\ x < i
    BY <1>1, Counters DEF Kinds, AllDrawn
  <2> QED BY <2>1, PutMore
<1>5. /\ FieldsOf(d1) /\ Steady(d, d1)
      /\ d1.sessions = d.sessions /\ d1.txns = d.txns
      /\ d1.codes = d.codes /\ d1.tokens = d.tokens /\ d1.families = d.families
      /\ d1.refresh = d.refresh /\ d1.consents = d.consents
      /\ \A k \in Kinds : d.next[k] <= d1.next[k] /\ (k # "app" => d1.next[k] = d.next[k])
      /\ d1.next["app"] = i + 1
  BY <1>1, NextDrawn DEF Kinds
<1> HIDE DEF i, n, d1
<1>6. /\ Steady(d, e)
      /\ e.sessions = d.sessions /\ e.apps = n /\ e.txns = d.txns
      /\ e.codes = d.codes /\ e.tokens = d.tokens /\ e.families = d.families
      /\ e.refresh = d.refresh /\ e.consents = d.consents /\ e.next = d1.next
  BY <1>5 DEF FieldsOf, Steady
<1> HIDE DEF e
<1>7. Adds(d, e)
  BY <1>4, <1>5, <1>6, SameMore DEF Adds, i
<1>8. Fits(d, e, W)
  BY <1>6 DEF Fits
<1>9. Leads(d, e, t, W)
  BY <1>3, <1>7, <1>8, AddsLeads
<1> QED BY <1>2, <1>4, <1>5, <1>6, <1>9 DEF i, n

\* A pending request is saved again, for its claimant or for the first user to
\* claim it; no code answers it yet.
LEMMA PutTxnLeads ==
    ASSUME NEW d, NEW t, NEW W, Fine(d, t, W), NEW x \in DOMAIN d.txns,
           NEW v \in AuthzTransaction, ~d.txns[x].consumed,
           d.txns[x].revoked => v.revoked, ClaimableBy(d.txns[x], v.user)
    PROVE  LET e == SaveTxn(d, x, v) IN
           /\ Leads(d, e, t, W) /\ Steady(d, e)
           /\ e.txns = Put(d.txns, x, v) /\ e.sessions = d.sessions /\ e.codes = d.codes
           /\ e.next = d.next /\ e.consents = d.consents
           /\ \A j \in DOMAIN d.codes : d.codes[j].txn # x
<1> DEFINE n == Put(d.txns, x, v)
           e == [d EXCEPT !.txns = n]
<1>1. Sound(d) /\ StoreOK(d) /\ AllDrawn(d) /\ Kept(d, t, W)
  BY DEF Fine, Sound, Kept
<1>2. e = SaveTxn(d, x, v)
  BY DEF SaveTxn
<1>3. Sound(e)
  BY <1>1, <1>2, SaveTxnSound, Records
<1>4. FieldsOf(d)
  BY <1>1, StoreFields
<1>5. DOMAIN n = DOMAIN d.txns /\ n[x] = v /\ \A y \in DOMAIN d.txns : y # x => n[y] = d.txns[y]
  BY DEF Put
<1> HIDE DEF n
<1>6. /\ Steady(d, e)
      /\ e.sessions = d.sessions /\ e.apps = d.apps /\ e.txns = n
      /\ e.codes = d.codes /\ e.tokens = d.tokens /\ e.families = d.families
      /\ e.refresh = d.refresh /\ e.consents = d.consents /\ e.next = d.next
  BY <1>4 DEF FieldsOf, Steady
<1> HIDE DEF e
<1>7. Links(e)
  BY <1>1, <1>6, SameLinks DEF Kept
<1>8. Good(e)
  BY <1>1, <1>6, SteadyGood DEF Kept, Good
<1>9. \A k \in DOMAIN d.codes : d.codes[k].txn # x
  BY <1>1 DEF Kept, Lines, CodeLine, Answers
<1>10. Lines(e)
  <2>1. \A k \in DOMAIN e.codes : CodeLine(e, e.codes[k])
    BY <1>1, <1>5, <1>6, <1>9 DEF Kept, Lines, CodeLine
  <2>2. \A k \in DOMAIN e.tokens : TokenLine(e, e.tokens[k])
    BY <1>1, <1>6 DEF Kept, Lines, TokenLine
  <2> QED BY <1>1, <1>6, <2>1, <2>2 DEF Kept, Lines
<1>11. AllDrawn(e)
  BY <1>1, <1>5, <1>6 DEF AllDrawn
<1>12. Withdrawn(e, t, W)
  BY <1>1, <1>6 DEF Kept, Withdrawn, WithdrawnAt
<1>13. Follows(d, e)
  <2>1. \A kind \in Kinds : d.next[kind] <= e.next[kind]
    BY <1>1, <1>6, Counters
  <2>2. /\ RevokedFollows(d.txns, e.txns, d.next["txn"])
        /\ ConsumedFollows(d.txns, e.txns, d.next["txn"])
        /\ ClaimFollows(d.txns, e.txns, d.next["txn"])
    BY <1>5, <1>6 DEF RevokedFollows, ConsumedFollows, ClaimFollows, ClaimableBy
  <2> QED BY <1>6, <2>1, <2>2, MapsSame DEF Follows
<1> QED BY <1>2, <1>3, <1>6, <1>7, <1>8, <1>9, <1>10, <1>11, <1>12, <1>13 DEF Leads, Fine, Kept, n

\* the code under key k, consumed and to be kept until r
Used(d, k, r) == [d.codes[k] EXCEPT !.consumed = TRUE, !.retain = r]
PutCode(d, k, v) == [d EXCEPT !.codes = Put(d.codes, k, v)]

\* A code presented for the first time.
LEMMA PutCodeLeads ==
    ASSUME NEW d, NEW t, NEW W, Fine(d, t, W), NEW k \in DOMAIN d.codes,
           ~d.codes[k].consumed, NEW r \in Nat
    PROVE  LET used == Used(d, k, r) e == PutCode(d, k, used) IN
           /\ Leads(d, e, t, W) /\ Steady(d, e)
           /\ e.codes = Put(d.codes, k, used)
           /\ e.sessions = d.sessions /\ e.apps = d.apps /\ e.txns = d.txns
           /\ e.tokens = d.tokens /\ e.families = d.families
           /\ e.refresh = d.refresh /\ e.consents = d.consents
           /\ e.next = d.next
           /\ \A j \in DOMAIN d.tokens : d.tokens[j].grant = "authorization_code" =>
                                            d.tokens[j].code # k
<1> DEFINE old  == d.codes[k]
           used == [old EXCEPT !.consumed = TRUE, !.retain = r]
           n    == Put(d.codes, k, used)
           e    == [d EXCEPT !.codes = n]
<1>1. Sound(d) /\ StoreOK(d) /\ AllDrawn(d) /\ Kept(d, t, W)
  BY DEF Fine, Sound, Kept
<1>2. k \in Id \ {0} /\ old \in AuthorizationCode
  BY <1>1, Records
<1> HIDE DEF old
<1>3. /\ used \in AuthorizationCode
      /\ used.consumed /\ used.retain = r /\ used.txn = old.txn /\ used.op = old.op
      /\ used.client = old.client /\ used.user = old.user /\ used.rev = old.rev
      /\ used.scopes = old.scopes /\ used.auth = old.auth /\ used.exp = old.exp
      /\ used.revoked = old.revoked /\ used.cred = old.cred
  BY <1>2 DEF AuthorizationCode, Time
<1> HIDE DEF used
<1>4. IsMap(n, Id \ {0}, AuthorizationCode)
  BY <1>1, <1>2, <1>3, PutMap DEF StoreOK
<1>5. DOMAIN n = DOMAIN d.codes /\ n[k] = used /\ \A y \in DOMAIN d.codes : y # k => n[y] = d.codes[y]
  BY DEF Put
<1> HIDE DEF n
<1>6. Sound(e)
  BY <1>1, <1>4, SetCodes
<1>7. FieldsOf(d)
  BY <1>1, StoreFields
<1>8. /\ Steady(d, e)
      /\ e.sessions = d.sessions /\ e.apps = d.apps /\ e.txns = d.txns
      /\ e.codes = n /\ e.tokens = d.tokens /\ e.families = d.families
      /\ e.refresh = d.refresh /\ e.consents = d.consents /\ e.next = d.next
  BY <1>7 DEF FieldsOf, Steady
<1> HIDE DEF e
<1>9. ~old.consumed
  BY DEF old
<1>10. Links(e)
  <2>1. ASSUME NEW j \in DOMAIN e.codes PROVE CodeLinks(e, e.codes[j])
    <3>1. CodeLinks(d, d.codes[j])
      BY <1>1, <1>5, <1>8 DEF Kept, Links
    <3> QED BY <1>3, <1>5, <1>8, <3>1 DEF CodeLinks, OpenSession, old
  <2>2. ASSUME NEW j \in DOMAIN e.tokens PROVE TokenLinks(e, e.tokens[j])
    <3>1. TokenLinks(d, d.tokens[j])
      BY <1>1, <1>8 DEF Kept, Links
    <3> QED BY <1>5, <1>8, <1>9, <3>1 DEF TokenLinks, old
  <2>3. ASSUME NEW f \in DOMAIN e.families PROVE FamilyLinks(e, e.families[f])
    <3>1. FamilyLinks(d, d.families[f])
      BY <1>1, <1>8 DEF Kept, Links
    <3> QED BY <1>5, <1>8, <1>9, <3>1 DEF FamilyLinks, old
  <2>4. \A f \in DOMAIN e.families : \E q : Turn(e, f, q)
    BY <1>1, <1>8 DEF Kept, Links, Turn
  <2> QED BY <1>1, <1>8, <2>1, <2>2, <2>3, <2>4 DEF Kept, Links
<1>11. Good(e)
  <2>1. ASSUME NEW j \in DOMAIN e.codes PROVE CodeGood(e, e.codes[j])
    <3>1. CodeGood(e, d.codes[j])
      BY <1>1, <1>5, <1>8, SteadyGood DEF Kept, Good
    <3> QED BY <1>3, <1>5, <1>8, <3>1 DEF CodeGood, old
  <2> QED BY <1>1, <1>8, <2>1, SteadyGood DEF Kept, Good
<1>12. \A j \in DOMAIN d.tokens : d.tokens[j].grant = "authorization_code" => d.tokens[j].code # k
  BY <1>1, <1>9 DEF Kept, Lines, TokenLine, old
<1>13. Lines(e)
  <2>1. ASSUME NEW j \in DOMAIN e.codes PROVE CodeLine(e, e.codes[j])
    <3>1. CodeLine(d, d.codes[j])
      BY <1>1, <1>5, <1>8 DEF Kept, Lines
    <3> QED BY SMTT(30), <1>3, <1>5, <1>8, <3>1 DEF CodeLine, Answers, old
  <2>2. ASSUME NEW j \in DOMAIN e.tokens PROVE TokenLine(e, e.tokens[j])
    <3>1. TokenLine(d, d.tokens[j])
      BY <1>1, <1>8 DEF Kept, Lines
    <3> QED BY <1>5, <1>8, <1>12, <3>1 DEF TokenLine
  <2>3. \A i, j \in DOMAIN e.codes : e.codes[i].txn = e.codes[j].txn /\ e.codes[i].txn # 0 => i = j
    <3>1. \A j \in DOMAIN e.codes : j \in DOMAIN d.codes /\ e.codes[j].txn = d.codes[j].txn
      BY <1>3, <1>5, <1>8 DEF old
    <3> QED BY <1>1, <3>1 DEF Kept, Lines
  <2> QED BY <1>1, <1>8, <2>1, <2>2, <2>3 DEF Kept, Lines
<1>14. AllDrawn(e)
  BY <1>1, <1>5, <1>8 DEF AllDrawn
<1>15. Withdrawn(e, t, W)
  <2>1. \A j \in DOMAIN e.codes : /\ j \in DOMAIN d.codes
                                  /\ e.codes[j].user = d.codes[j].user
                                  /\ e.codes[j].client = d.codes[j].client
                                  /\ e.codes[j].revoked = d.codes[j].revoked
                                  /\ d.codes[j].consumed => e.codes[j].consumed
                                  /\ e.codes[j].exp = d.codes[j].exp
    BY <1>3, <1>5, <1>8 DEF old
  <2> QED BY <1>1, <1>8, <2>1 DEF Kept, Withdrawn, WithdrawnAt
<1>16. Follows(d, e)
  <2>1. \A kind \in Kinds : d.next[kind] <= e.next[kind]
    BY <1>1, <1>8, Counters
  <2>2. /\ RevokedFollows(d.codes, e.codes, d.next["code"])
        /\ ConsumedFollows(d.codes, e.codes, d.next["code"])
    BY <1>3, <1>5, <1>8 DEF RevokedFollows, ConsumedFollows, old
  <2> QED BY <1>8, <2>1, <2>2, MapsSame DEF Follows
<1>17. Leads(d, e, t, W)
  BY <1>6, <1>10, <1>11, <1>13, <1>14, <1>15, <1>16 DEF Leads, Fine, Kept
<1>18. used = Used(d, k, r) /\ e = PutCode(d, k, used)
  BY DEF Used, PutCode, e, n, used, old
<1> QED BY <1>8, <1>12, <1>17, <1>18 DEF n

\* A new refresh family with its first token.
LEMMA InitialRefreshLeads ==
    ASSUME NEW d, NEW t, NEW W, Fine(d, t, W), NEW f \in RefreshFamily,
           FamilyLinks(d, f), FamilyGood(d, f), Granted(d, f.user, f.client, W)
    PROVE  LET e == InitialRefresh(d, f) i == d.next["family"] IN
           /\ Leads(d, e, t, W) /\ Steady(d, e) /\ i \in Nat \ {0}
           /\ e.families = Put(d.families, i, f)
           /\ e.sessions = d.sessions /\ e.apps = d.apps /\ e.txns = d.txns
           /\ e.codes = d.codes /\ e.tokens = d.tokens /\ e.consents = d.consents
           /\ \A k \in Kinds : k \notin {"family", "refresh"} => e.next[k] = d.next[k]
<1> DEFINE i  == d.next["family"]
           n  == Put(d.families, i, f)
           d1 == Draw(d, "family")
           d2 == [d1 EXCEPT !.families = n]
           j  == d2.next["refresh"]
           v  == [family |-> i, scopes |-> f.scopes, consumed |-> FALSE]
           m  == Put(d2.refresh, j, v)
           d3 == Draw(d2, "refresh")
           e  == [d3 EXCEPT !.refresh = m]
<1>1. Sound(d) /\ StoreOK(d) /\ AllDrawn(d) /\ Kept(d, t, W)
  BY DEF Fine, Sound, Kept
<1>2. d2 = AddFamily(d, f) /\ e = InitialRefresh(d, f)
  BY DEF AddFamily, AddRefresh, InitialRefresh
<1>3. i \in Nat \ {0} /\ i \in Id /\ i \notin DOMAIN d.families
  <2>1. i \in Nat \ {0} /\ \A x \in DOMAIN d.families : x \in Nat /\ x < i
    BY <1>1, Counters DEF Kinds, AllDrawn
  <2> QED BY <2>1 DEF Id
<1>4. v \in RefreshToken
  BY <1>3 DEF RefreshToken, RefreshFamily
<1>5. Sound(d2)
  BY <1>1, <1>2, AddGrantsSound
<1>6. Sound(e)
  <2> HIDE DEF d2, v
  <2> QED BY <1>2, <1>4, <1>5, AddGrantsSound DEF InitialRefresh, AddRefresh
<1>7. More(d.families, n, i, i + 1) /\ DOMAIN n = DOMAIN d.families \cup {i} /\ n[i] = f
  <2>1. i \in Nat /\ \A x \in DOMAIN d.families : x \in Nat /\ x < i
    BY <1>1, Counters DEF Kinds, AllDrawn
  <2> HIDE DEF i
  <2>2. More(d.families, n, i, i + 1)
    BY <2>1, PutMore
  <2> QED BY <2>2 DEF Put
<1>8. /\ FieldsOf(d1) /\ Steady(d, d1)
      /\ d1.sessions = d.sessions /\ d1.apps = d.apps /\ d1.txns = d.txns
      /\ d1.codes = d.codes /\ d1.tokens = d.tokens
      /\ d1.refresh = d.refresh /\ d1.consents = d.consents
      /\ \A k \in Kinds : d.next[k] <= d1.next[k] /\ (k # "family" => d1.next[k] = d.next[k])
      /\ d1.next["family"] = i + 1
  BY <1>1, NextDrawn DEF Kinds
<1> HIDE DEF i, n, d1
<1>9. /\ FieldsOf(d2) /\ Steady(d, d2)
      /\ d2.sessions = d.sessions /\ d2.apps = d.apps /\ d2.txns = d.txns
      /\ d2.codes = d.codes /\ d2.tokens = d.tokens /\ d2.families = n
      /\ d2.refresh = d.refresh /\ d2.consents = d.consents /\ d2.next = d1.next
  BY <1>8 DEF FieldsOf, Steady
<1> HIDE DEF d2
<1>10. /\ FieldsOf(d3) /\ Steady(d2, d3)
       /\ d3.sessions = d2.sessions /\ d3.apps = d2.apps /\ d3.txns = d2.txns
       /\ d3.codes = d2.codes /\ d3.tokens = d2.tokens /\ d3.families = d2.families
       /\ d3.consents = d2.consents
       /\ \A k \in Kinds : d2.next[k] <= d3.next[k] /\ (k # "refresh" => d3.next[k] = d2.next[k])
       /\ d3.next["refresh"] = j + 1
  BY <1>5, NextDrawn DEF Sound, Kinds
<1>11. j = d.next["refresh"]
  BY <1>8, <1>9 DEF Kinds
<1>12. /\ More(d.refresh, m, j, j + 1) /\ DOMAIN m = DOMAIN d.refresh \cup {j} /\ m[j] = v
  <2>1. j \in Nat /\ \A x \in DOMAIN d.refresh : x \in Nat /\ x < j
    BY <1>1, <1>11, Counters DEF Kinds, AllDrawn
  <2> HIDE DEF j
  <2>2. More(d.refresh, m, j, j + 1)
    BY <1>9, <2>1, PutMore
  <2> QED BY <1>9, <2>2 DEF Put
<1> HIDE DEF j, m, d3
<1>13. /\ Steady(d, e)
       /\ e.sessions = d.sessions /\ e.apps = d.apps /\ e.txns = d.txns
       /\ e.codes = d.codes /\ e.tokens = d.tokens /\ e.families = n
       /\ e.refresh = m /\ e.consents = d.consents /\ e.next = d3.next
  BY <1>9, <1>10 DEF FieldsOf, Steady
<1> HIDE DEF e
<1>14. \A k \in Kinds : /\ d.next[k] <= e.next[k]
                        /\ k \notin {"family", "refresh"} => e.next[k] = d.next[k]
  <2>1. \A k \in Kinds : d.next[k] \in Nat
    BY <1>1, Counters
  <2> QED BY <1>8, <1>9, <1>10, <1>13, <2>1
<1>15. e.next["family"] = i + 1 /\ e.next["refresh"] = j + 1
  BY <1>8, <1>9, <1>10, <1>13 DEF Kinds
<1>16. Adds(d, e)
  BY <1>7, <1>11, <1>12, <1>13, <1>14, <1>15, SameMore DEF Adds, i
<1>17. Turn(e, i, j)
  <2>1. v.family = i /\ ~v.consumed
    OBVIOUS
  <2>2. \A q \in DOMAIN d.refresh : q \in DOMAIN m /\ m[q] = d.refresh[q]
    BY <1>12 DEF More
  <2>3. \A q \in DOMAIN d.refresh : d.refresh[q].family # i
    BY <1>1, <1>3 DEF Kept, Links
  <2> HIDE DEF v
  <2> QED BY <1>12, <1>13, <2>1, <2>2, <2>3 DEF Turn
<1>18. Fits(d, e, W)
  <2>1. FamilyLinks(e, f) /\ FamilyGood(e, f)
    BY <1>13, SteadyGood DEF FamilyLinks
  <2>2. FamilyFits(d, e, W, i)
    BY <1>7, <1>13, <1>17, <2>1 DEF FamilyFits
  <2>3. \A r \in DOMAIN e.refresh \ DOMAIN d.refresh : e.refresh[r].family = i
    BY <1>12, <1>13
  <2> QED BY <1>3, <1>7, <1>13, <2>2, <2>3 DEF Fits
<1>19. Leads(d, e, t, W)
  BY <1>6, <1>16, <1>18, AddsLeads
<1> QED BY <1>2, <1>3, <1>13, <1>14, <1>19 DEF i, n

\* Only the inactivity deadline of a family moves.
LEMMA IdleFields ==
    ASSUME NEW f \in RefreshFamily, NEW x \in Time
    PROVE  LET g == [f EXCEPT !.idle = x] IN
           /\ g \in RefreshFamily
           /\ g.op = f.op /\ g.app = f.app /\ g.code = f.code /\ g.client = f.client
           /\ g.user = f.user /\ g.rev = f.rev /\ g.abs = f.abs /\ g.retain = f.retain
           /\ g.revoked = f.revoked /\ g.cred = f.cred
BY DEF RefreshFamily

\* family v with another inactivity deadline
Idled(v, x) == [v EXCEPT !.idle = x]

\* the Write of a rotation, up to the access token: refresh token r, of family
\* f, makes way for one of some of its scopes
Turned(d, r, f, idle, scopes) ==
    AddRefresh([d EXCEPT !.refresh = Spend(d.refresh, r),
                         !.families = Put(d.families, f, [d.families[f] EXCEPT !.idle = idle])],
               [family |-> f, scopes |-> scopes, consumed |-> FALSE])

\* What Turned changes.
LEMMA TurnedMaps ==
    ASSUME NEW d, Sound(d), AllDrawn(d), NEW r \in DOMAIN d.refresh,
           NEW f \in DOMAIN d.families, NEW idle \in Time, NEW scopes \in SUBSET Scopes
    PROVE  LET e == Turned(d, r, f, idle, scopes) j == d.next["refresh"] IN
           /\ Sound(e) /\ Steady(d, e)
           /\ e.sessions = d.sessions /\ e.apps = d.apps /\ e.txns = d.txns
           /\ e.codes = d.codes /\ e.tokens = d.tokens /\ e.consents = d.consents
           /\ e.families = Put(d.families, f, Idled(d.families[f], idle))
           /\ DOMAIN e.refresh = DOMAIN d.refresh \cup {j}
           /\ e.refresh[j] = [family |-> f, scopes |-> scopes, consumed |-> FALSE]
           /\ e.refresh[r].consumed /\ e.refresh[r].family = d.refresh[r].family
           /\ e.refresh[r].scopes = d.refresh[r].scopes
           /\ \A q \in DOMAIN d.refresh : q # r => e.refresh[q] = d.refresh[q]
           /\ j \in Nat /\ j \notin DOMAIN d.refresh
           /\ \A k \in Kinds : k # "refresh" => e.next[k] = d.next[k]
           /\ e.next["refresh"] = j + 1
<1> DEFINE old == d.refresh[r]
           sp  == [old EXCEPT !.consumed = TRUE]
           re  == Put(d.refresh, r, sp)
           f2  == [d.families[f] EXCEPT !.idle = idle]
           fa  == Put(d.families, f, f2)
           d0  == [d EXCEPT !.refresh = re]
           d1  == [d EXCEPT !.refresh = re, !.families = fa]
           j   == d.next["refresh"]
           v   == [family |-> f, scopes |-> scopes, consumed |-> FALSE]
           m   == Put(d1.refresh, d1.next["refresh"], v)
           d2  == Draw(d1, "refresh")
           e   == [d2 EXCEPT !.refresh = m]
<1>1. /\ StoreOK(d) /\ FieldsOf(d) /\ r \in Id \ {0} /\ f \in Id \ {0} /\ old \in RefreshToken
      /\ d.families[f] \in RefreshFamily
  BY Records, StoreFields DEF Sound
<1>2. j \in Nat /\ j \notin DOMAIN d.refresh
  <2>1. j \in Nat /\ \A x \in DOMAIN d.refresh : x \in Nat /\ x < j
    BY <1>1, Counters DEF Kinds, AllDrawn
  <2> QED BY <2>1
<1>3. f2 \in RefreshFamily
  BY <1>1, IdleFields
<1> HIDE DEF old
<1>4. sp \in RefreshToken /\ sp.consumed /\ sp.family = old.family /\ sp.scopes = old.scopes
  BY <1>1 DEF RefreshToken
<1>5. v \in RefreshToken
  BY <1>1 DEF RefreshToken, Id
<1>6. Turned(d, r, f, idle, scopes) = e
  BY DEF Turned, Spend, AddRefresh, old
<1> HIDE DEF sp, f2, v
<1>7. IsMap(re, Id \ {0}, RefreshToken) /\ IsMap(fa, Id \ {0}, RefreshFamily)
  BY <1>1, <1>3, <1>4, PutMap DEF StoreOK
<1>8. /\ DOMAIN re = DOMAIN d.refresh /\ re[r] = sp
      /\ \A q \in DOMAIN d.refresh : q # r => re[q] = d.refresh[q]
  BY DEF Put
<1> HIDE DEF re, fa
<1>9. Sound(d0)
  BY <1>7, SetRefresh
<1>10. d1 = [d0 EXCEPT !.families = fa]
  BY <1>1 DEF FieldsOf
<1>11. Sound(d1)
  <2> HIDE DEF d0, d1
  <2> QED BY <1>7, <1>9, <1>10, SetFamilies
<1>12. /\ FieldsOf(d1) /\ Steady(d, d1)
       /\ d1.sessions = d.sessions /\ d1.apps = d.apps /\ d1.txns = d.txns
       /\ d1.codes = d.codes /\ d1.tokens = d.tokens /\ d1.families = fa
       /\ d1.refresh = re /\ d1.consents = d.consents /\ d1.next = d.next
  <2>1. /\ FieldsOf(d0) /\ Steady(d, d0)
        /\ d0.sessions = d.sessions /\ d0.apps = d.apps /\ d0.txns = d.txns
        /\ d0.codes = d.codes /\ d0.tokens = d.tokens
        /\ d0.refresh = re /\ d0.consents = d.consents /\ d0.next = d.next
    BY <1>1 DEF FieldsOf, Steady
  <2> HIDE DEF d0, d1
  <2> QED BY <1>10, <2>1 DEF FieldsOf, Steady
<1> HIDE DEF d0, d1
<1>13. e = AddRefresh(d1, v)
  BY DEF AddRefresh
<1>14. Sound(e)
  <2> HIDE DEF e
  <2> QED BY <1>5, <1>11, <1>13, AddGrantsSound
<1>15. /\ FieldsOf(d2) /\ Steady(d1, d2)
       /\ d2.sessions = d1.sessions /\ d2.apps = d1.apps /\ d2.txns = d1.txns
       /\ d2.codes = d1.codes /\ d2.tokens = d1.tokens /\ d2.families = d1.families
       /\ d2.consents = d1.consents
       /\ \A k \in Kinds : k # "refresh" => d2.next[k] = d1.next[k]
       /\ d2.next["refresh"] = d1.next["refresh"] + 1
  BY <1>11, NextDrawn DEF Sound, Kinds
<1>16. /\ DOMAIN m = DOMAIN re \cup {j} /\ m[j] = v
       /\ \A q \in DOMAIN re : q # j => m[q] = re[q]
  BY <1>12 DEF Put
<1> HIDE DEF m, d2
<1>17. /\ Steady(d, e)
       /\ e.sessions = d.sessions /\ e.apps = d.apps /\ e.txns = d.txns
       /\ e.codes = d.codes /\ e.tokens = d.tokens /\ e.families = fa
       /\ e.refresh = m /\ e.consents = d.consents /\ e.next = d2.next
  BY <1>12, <1>15 DEF FieldsOf, Steady
<1> HIDE DEF e
<1>18. /\ \A k \in Kinds : k # "refresh" => e.next[k] = d.next[k]
       /\ e.next["refresh"] = j + 1
  BY <1>12, <1>15, <1>17
<1> HIDE DEF j
<1>19. /\ DOMAIN e.refresh = DOMAIN d.refresh \cup {j} /\ e.refresh[j] = v
       /\ e.refresh[r] = sp /\ \A q \in DOMAIN d.refresh : q # r => e.refresh[q] = d.refresh[q]
  BY <1>2, <1>8, <1>16, <1>17
<1>20. f2 = Idled(d.families[f], idle)
  BY DEF Idled, f2
<1> QED BY <1>2, <1>4, <1>6, <1>14, <1>17, <1>18, <1>19, <1>20 DEF j, v, fa, old

\* A rotation, up to the access token.
LEMMA TurnedLeads ==
    ASSUME NEW d, NEW t, NEW W, Fine(d, t, W), NEW r \in DOMAIN d.refresh,
           ~d.refresh[r].consumed, NEW idle \in Time, NEW scopes \in SUBSET d.refresh[r].scopes
    PROVE  LET f == d.refresh[r].family e == Turned(d, r, f, idle, scopes) IN
           /\ Leads(d, e, t, W) /\ Steady(d, e)
           /\ e.codes = d.codes /\ e.consents = d.consents
           /\ e.next["code"] = d.next["code"]
           /\ f \in DOMAIN e.families /\ e.families[f].retain = d.families[f].retain
           /\ e.families[f].revoked = d.families[f].revoked
<1> DEFINE f  == d.refresh[r].family
           f2 == Idled(d.families[f], idle)
           v  == [family |-> f, scopes |-> scopes, consumed |-> FALSE]
           j  == d.next["refresh"]
           e  == Turned(d, r, f, idle, scopes)
<1>1. Sound(d) /\ StoreOK(d) /\ AllDrawn(d) /\ Kept(d, t, W)
  BY DEF Fine, Sound, Kept
<1>2. f \in DOMAIN d.families /\ d.families[f] \in RefreshFamily /\ scopes \in SUBSET Scopes
  <2>1. d.refresh[r] \in RefreshToken /\ f \in DOMAIN d.families
    BY <1>1, Records DEF Kept, Links
  <2>2. d.families[f] \in RefreshFamily
    BY <1>1, <2>1, Records
  <2> QED BY <2>1, <2>2 DEF RefreshToken
<1> HIDE DEF f
<1>3. /\ Sound(e) /\ Steady(d, e)
      /\ e.sessions = d.sessions /\ e.apps = d.apps /\ e.txns = d.txns
      /\ e.codes = d.codes /\ e.tokens = d.tokens /\ e.consents = d.consents
      /\ e.families = Put(d.families, f, f2)
      /\ DOMAIN e.refresh = DOMAIN d.refresh \cup {j} /\ e.refresh[j] = v
      /\ e.refresh[r].consumed /\ e.refresh[r].family = d.refresh[r].family
      /\ e.refresh[r].scopes = d.refresh[r].scopes
      /\ \A q \in DOMAIN d.refresh : q # r => e.refresh[q] = d.refresh[q]
      /\ j \in Nat /\ j \notin DOMAIN d.refresh
      /\ \A k \in Kinds : k # "refresh" => e.next[k] = d.next[k]
      /\ e.next["refresh"] = j + 1
  BY <1>1, <1>2, TurnedMaps
<1>4. v.family = f /\ ~v.consumed /\ v.scopes = scopes
  OBVIOUS
<1>5. /\ f2.code = d.families[f].code /\ f2.client = d.families[f].client
      /\ f2.user = d.families[f].user /\ f2.rev = d.families[f].rev
      /\ f2.abs = d.families[f].abs
      /\ f2.retain = d.families[f].retain /\ f2.revoked = d.families[f].revoked
      /\ f2.cred = d.families[f].cred
  BY <1>2, IdleFields DEF Idled
<1> HIDE DEF e, v, f2
<1>6. /\ DOMAIN e.families = DOMAIN d.families /\ e.families[f] = f2
      /\ \A g \in DOMAIN d.families : g # f => e.families[g] = d.families[g]
  BY <1>2, <1>3 DEF Put
<1>7. \A g \in DOMAIN d.families :
         /\ e.families[g].code = d.families[g].code
         /\ e.families[g].client = d.families[g].client
         /\ e.families[g].user = d.families[g].user /\ e.families[g].rev = d.families[g].rev
         /\ e.families[g].abs = d.families[g].abs
         /\ e.families[g].retain = d.families[g].retain
         /\ e.families[g].revoked = d.families[g].revoked
         /\ e.families[g].cred = d.families[g].cred
  BY <1>5, <1>6
<1>8. Links(e)
  <2>1. ASSUME NEW k \in DOMAIN e.codes PROVE CodeLinks(e, e.codes[k])
    BY <1>1, <1>3 DEF Kept, Links, CodeLinks, OpenSession
  <2>2. ASSUME NEW k \in DOMAIN e.tokens PROVE TokenLinks(e, e.tokens[k])
    <3>1. TokenLinks(d, d.tokens[k])
      BY <1>1, <1>3 DEF Kept, Links
    <3> QED BY SMTT(30), <1>3, <1>6, <1>7, <3>1 DEF TokenLinks
  <2>3. ASSUME NEW g \in DOMAIN e.families PROVE FamilyLinks(e, e.families[g])
    <3>1. FamilyLinks(d, d.families[g])
      BY <1>1, <1>6 DEF Kept, Links
    <3> QED BY <1>3, <1>6, <1>7, <3>1 DEF FamilyLinks
  <2>4. \A q \in DOMAIN e.refresh : e.refresh[q].family \in DOMAIN e.families
    BY <1>1, <1>2, <1>3, <1>4, <1>6 DEF Kept, Links, f
  <2>5. ASSUME NEW g \in DOMAIN e.families PROVE \E q : Turn(e, g, q)
    <3>1. PICK q : Turn(d, g, q)
      BY <1>1, <1>6 DEF Kept, Links
    <3>2. CASE g = f
      <4>1. q = r
        BY <3>1, <3>2 DEF Turn, f
      <4>2. Turn(e, g, j)
        BY <1>3, <1>4, <3>1, <3>2, <4>1 DEF Turn
      <4> QED BY <4>2
    <3>3. CASE g # f
      <4>1. q # r
        BY <3>1, <3>3 DEF Turn, f
      <4>2. Turn(e, g, q)
        BY <1>3, <1>4, <3>1, <3>3, <4>1 DEF Turn
      <4> QED BY <4>2
    <3> QED BY <3>2, <3>3
  <2> QED BY <2>1, <2>2, <2>3, <2>4, <2>5 DEF Links
<1>9. Good(e)
  <2>1. ASSUME NEW g \in DOMAIN e.families PROVE FamilyGood(e, e.families[g])
    <3>1. FamilyGood(e, d.families[g])
      BY <1>1, <1>3, <1>6, SteadyGood DEF Kept, Good
    <3> QED BY <1>6, <1>7, <3>1 DEF FamilyGood
  <2> QED BY <1>1, <1>3, <2>1, SteadyGood DEF Kept, Good
<1>10. Lines(e)
  <2>0. e.next["txn"] = d.next["txn"] /\ e.next["code"] = d.next["code"]
    BY <1>3 DEF Kinds
  <2>1. \A k \in DOMAIN e.codes : CodeLine(e, e.codes[k])
    BY <1>1, <1>3, <2>0 DEF Kept, Lines, CodeLine
  <2>2. \A k \in DOMAIN e.tokens : TokenLine(e, e.tokens[k])
    BY <1>1, <1>3, <2>0 DEF Kept, Lines, TokenLine
  <2> QED BY <1>1, <1>3, <2>1, <2>2 DEF Kept, Lines
<1>11. AllDrawn(e)
  <2>1. \A x \in DOMAIN e.refresh : x < e.next["refresh"]
    <3>1. \A x \in DOMAIN d.refresh : x \in Nat /\ x < j
      BY <1>1, Counters DEF AllDrawn
    <3> HIDE DEF j
    <3> QED BY <1>3, <3>1
  <2> QED BY <1>1, <1>3, <1>6, <2>1 DEF AllDrawn, Kinds
<1>12. Withdrawn(e, t, W)
  BY <1>1, <1>3, <1>6, <1>7 DEF Kept, Withdrawn, WithdrawnAt
<1>13. Follows(d, e)
  <2>1. \A kind \in Kinds : d.next[kind] <= e.next[kind]
    <3>1. \A kind \in Kinds : d.next[kind] \in Nat
      BY <1>1, Counters
    <3> QED BY <1>3, <3>1
  <2>2. RevokedFollows(d.families, e.families, d.next["family"])
    BY <1>6, <1>7 DEF RevokedFollows
  <2>3. RefreshFollows(d.refresh, e.refresh, d.next["refresh"], d.next["family"])
    <3>1. ASSUME NEW q \in DOMAIN d.refresh
          PROVE  /\ e.refresh[q].family = d.refresh[q].family
                 /\ e.refresh[q].scopes = d.refresh[q].scopes
                 /\ d.refresh[q].consumed => e.refresh[q].consumed
      BY <1>3
    <3>2. ~d.refresh[r].consumed /\ d.refresh[r].family = e.refresh[j].family
          /\ e.refresh[j].scopes \subseteq d.refresh[r].scopes
      BY <1>3, <1>4 DEF f
    <3>3. j >= d.next["refresh"]
      BY <1>3
    <3> HIDE DEF j
    <3> QED BY <1>3, <3>1, <3>2, <3>3 DEF RefreshFollows
  <2> QED BY <1>3, <2>1, <2>2, <2>3, MapsSame DEF Follows
<1>14. Leads(d, e, t, W)
  BY <1>3, <1>8, <1>9, <1>10, <1>11, <1>12, <1>13 DEF Leads, Fine, Kept
<1>15. e.next["code"] = d.next["code"]
  BY <1>3 DEF Kinds
<1> QED BY <1>2, <1>3, <1>6, <1>7, <1>14, <1>15 DEF e, f

(***************************************************************************)
(* Sign-in.                                                                *)
(***************************************************************************)
\* New sessions, under which everything open is still open.
LEMMA SessionsLead ==
    ASSUME NEW d, NEW t, NEW W, Fine(d, t, W), NEW e, Sound(e), Steady(d, e),
           e.apps = d.apps, e.txns = d.txns, e.codes = d.codes, e.tokens = d.tokens,
           e.families = d.families, e.refresh = d.refresh, e.consents = d.consents,
           \A k \in Kinds : k # "session" => e.next[k] = d.next[k],
           d.next["session"] <= e.next["session"],
           \A h \in DOMAIN e.sessions :
               /\ SessionGood(e, e.sessions[h])
               /\ \/ h >= d.next["session"]
                  \/ h \in DOMAIN d.sessions /\ e.sessions[h] = d.sessions[h],
           \A id : OpenSession(d, id) => OpenSession(e, id)
    PROVE  Leads(d, e, t, W)
<1>1. Sound(d) /\ StoreOK(d) /\ AllDrawn(d) /\ Kept(d, t, W)
  BY DEF Fine, Sound, Kept
<1>2. Links(e)
  <2>1. ASSUME NEW k \in DOMAIN e.codes PROVE CodeLinks(e, e.codes[k])
    BY <1>1 DEF Kept, Links, CodeLinks
  <2>2. ASSUME NEW k \in DOMAIN e.tokens PROVE TokenLinks(e, e.tokens[k])
    BY SMTT(30), <1>1 DEF Kept, Links, TokenLinks
  <2>3. ASSUME NEW f \in DOMAIN e.families
        PROVE  FamilyLinks(e, e.families[f]) /\ \E r : Turn(e, f, r)
    BY <1>1 DEF Kept, Links, FamilyLinks, Turn
  <2> QED BY <1>1, <2>1, <2>2, <2>3 DEF Kept, Links
<1>3. Good(e)
  BY <1>1, SteadyGood DEF Kept, Good
<1>4. Lines(e)
  <2>1. e.next["txn"] = d.next["txn"] /\ e.next["code"] = d.next["code"]
    BY DEF Kinds
  <2> QED BY <1>1, <2>1 DEF Kept, Lines, CodeLine, TokenLine
<1>5. AllDrawn(e)
  <2>1. \A h \in DOMAIN e.sessions : h < e.next["session"]
    BY DEF Sound, KeysDrawn
  <2> QED BY <1>1, <2>1 DEF AllDrawn, Kinds
<1>6. Withdrawn(e, t, W)
  BY <1>1 DEF Kept, Withdrawn, WithdrawnAt
<1>7. Follows(d, e)
  <2>1. \A kind \in Kinds : d.next[kind] <= e.next[kind]
    <3>1. \A kind \in Kinds : d.next[kind] \in Nat
      BY <1>1, Counters
    <3> QED BY <3>1
  <2>2. EndFollows(d.sessions, e.sessions, d.next["session"])
    BY DEF EndFollows
  <2> QED BY <2>1, <2>2, MapsSame DEF Follows
<1> QED BY <1>2, <1>3, <1>4, <1>5, <1>6, <1>7 DEF Leads, Fine, Kept

\* What a new session changes.
LEMMA AddSessionFields ==
    ASSUME NEW d, StoreOK(d), KeysDrawn(d), NEW v
    PROVE  LET e == AddSession(d, v) h == d.next["session"] IN
           /\ Steady(d, e) /\ h \in Nat
           /\ e.apps = d.apps /\ e.txns = d.txns /\ e.codes = d.codes
           /\ e.tokens = d.tokens /\ e.families = d.families
           /\ e.refresh = d.refresh /\ e.consents = d.consents
           /\ \A k \in Kinds : k # "session" => e.next[k] = d.next[k]
           /\ e.next["session"] = h + 1
           /\ DOMAIN e.sessions = DOMAIN d.sessions \cup {h} /\ e.sessions[h] = v
           /\ \A x \in DOMAIN d.sessions : e.sessions[x] = d.sessions[x]
<1> DEFINE h  == d.next["session"]
           n  == Put(d.sessions, h, v)
           d1 == Draw(d, "session")
           e  == [d1 EXCEPT !.sessions = n]
<1>1. e = AddSession(d, v)
  BY DEF AddSession
<1>2. /\ FieldsOf(d1) /\ Steady(d, d1)
      /\ d1.apps = d.apps /\ d1.txns = d.txns
      /\ d1.codes = d.codes /\ d1.tokens = d.tokens /\ d1.families = d.families
      /\ d1.refresh = d.refresh /\ d1.consents = d.consents
      /\ \A k \in Kinds : k # "session" => d1.next[k] = d.next[k]
      /\ d1.next["session"] = h + 1
  BY NextDrawn DEF Kinds
<1>3. /\ h \in Nat /\ DOMAIN n = DOMAIN d.sessions \cup {h} /\ n[h] = v
      /\ \A x \in DOMAIN d.sessions : n[x] = d.sessions[x]
  <2>1. h \in Nat /\ \A x \in DOMAIN d.sessions : x \in Nat /\ x < h
    BY Counters DEF Kinds, KeysDrawn
  <2> HIDE DEF h
  <2>2. h \notin DOMAIN d.sessions
    BY <2>1
  <2> QED BY <2>1, <2>2 DEF Put
<1> HIDE DEF h, n, d1
<1>4. /\ Steady(d, e)
      /\ e.sessions = n /\ e.apps = d.apps /\ e.txns = d.txns
      /\ e.codes = d.codes /\ e.tokens = d.tokens /\ e.families = d.families
      /\ e.refresh = d.refresh /\ e.consents = d.consents /\ e.next = d1.next
  BY <1>2 DEF FieldsOf, Steady
<1> HIDE DEF e
<1> QED BY <1>1, <1>2, <1>3, <1>4 DEF h

\* A sign-in sweeps, may end or drop the session of the cookie presented, and
\* opens one on the account as the password was checked against it.
LEMMA LoginGoes ==
    ASSUME GInv, NEW u \in Users, NEW cred \in Nat, NEW old, NEW at \in ReadTimes,
           Login(u, cred, old, at)
    PROVE  Goes
<1> DEFINE d1   == PruneLogoutState(db, now)
           h    == d1.next["session"]
           live == LiveSession(d1, old)
           same == live /\ d1.sessions[old].user = u /\ at < d1.sessions[old].exp
           id   == IF same THEN d1.sessions[old].id ELSE h
           v    == [id |-> id, user |-> u, auth |-> at, exp |-> at + SessionTTL,
                    ended |-> 0, cred |-> cred]
           dr   == [d1 EXCEPT !.sessions = Drop(d1.sessions, {old})]
           en   == EndSession(d1, d1.sessions[old].id, at)
           d2   == IF same THEN dr ELSE IF live THEN en ELSE d1
           e    == AddSession(d2, v)
<1>1. db' = e /\ LoginRecheck(db, u, cred)
  BY DEF Login
<1>2. Sound(db') /\ at \in Nat \ {0}
  BY LoginSound, ReadTimesAreTimes DEF GInv
<1>3. Withers(db, d1)
  BY FineNow, PruneLogoutStateWithers
<1> HIDE DEF d1
<1>4. Leads(db, d1, now, {}) /\ Fine(d1, now, {}) /\ Sound(d1) /\ Steady(db, d1)
  BY <1>3, FineNow, WithersLeads DEF Leads, Fine, Withers
<1>5. v.user = u /\ v.cred = cred /\ v.ended = 0 /\ v.id = id
  OBVIOUS
<1>6. UserNow(db, u, cred)
  BY <1>1 DEF LoginRecheck, UserNow
<1> HIDE DEF v
<1>7. CASE same
  <2>1. d2 = dr
    BY <1>7
  <2>2. id = d1.sessions[old].id /\ old \in DOMAIN d1.sessions
    BY <1>7 DEF LiveSession
  <2>3. /\ StoreOK(dr) /\ dr.sessions = Drop(d1.sessions, {old}) /\ dr.next = d1.next
        /\ dr.apps = d1.apps /\ dr.txns = d1.txns /\ dr.codes = d1.codes
        /\ dr.tokens = d1.tokens /\ dr.families = d1.families
        /\ dr.refresh = d1.refresh /\ dr.consents = d1.consents /\ Steady(d1, dr)
    <3>1. IsMap(Drop(d1.sessions, {old}), Id \ {0}, Session)
      BY <1>4, DropMap DEF Sound, StoreOK
    <3>2. FieldsOf(d1)
      BY <1>4, StoreFields DEF Sound
    <3>3. StoreOK(dr)
      BY <1>4, <3>1, SetSessions DEF Sound
    <3> QED BY <3>2, <3>3 DEF FieldsOf, Steady
  <2> HIDE DEF dr, id, d2
  <2>4. /\ \A x \in DOMAIN dr.sessions : x \in DOMAIN d1.sessions /\ x # old
                                         /\ dr.sessions[x] = d1.sessions[x]
        /\ \A x \in DOMAIN d1.sessions : x # old => x \in DOMAIN dr.sessions
    BY <2>3 DEF Drop
  <2>5. KeysDrawn(dr)
    BY <1>4, <2>3, <2>4 DEF Sound, KeysDrawn
  <2> DEFINE g == AddSession(dr, v)
  <2>6. /\ Steady(dr, g) /\ h \in Nat
        /\ g.apps = dr.apps /\ g.txns = dr.txns /\ g.codes = dr.codes
        /\ g.tokens = dr.tokens /\ g.families = dr.families
        /\ g.refresh = dr.refresh /\ g.consents = dr.consents
        /\ \A k \in Kinds : k # "session" => g.next[k] = dr.next[k]
        /\ g.next["session"] = h + 1
        /\ DOMAIN g.sessions = DOMAIN dr.sessions \cup {h} /\ g.sessions[h] = v
        /\ \A x \in DOMAIN dr.sessions : g.sessions[x] = dr.sessions[x]
    <3> DEFINE h2 == dr.next["session"]
    <3>1. /\ Steady(dr, g) /\ h2 \in Nat
          /\ g.apps = dr.apps /\ g.txns = dr.txns /\ g.codes = dr.codes
          /\ g.tokens = dr.tokens /\ g.families = dr.families
          /\ g.refresh = dr.refresh /\ g.consents = dr.consents
          /\ \A k \in Kinds : k # "session" => g.next[k] = dr.next[k]
          /\ g.next["session"] = h2 + 1
          /\ DOMAIN g.sessions = DOMAIN dr.sessions \cup {h2} /\ g.sessions[h2] = v
          /\ \A x \in DOMAIN dr.sessions : g.sessions[x] = dr.sessions[x]
      <4>1. StoreOK(dr)
        BY <2>3
      <4> QED BY <2>5, <4>1, AddSessionFields
    <3>2. h2 = h
      BY <2>3
    <3> HIDE DEF h2, h, g
    <3> QED BY <3>1, <3>2
  <2>7. g = db'
    BY <1>1, <2>1
  <2> HIDE DEF g, h
  <2>8. Steady(d1, g) /\ Steady(db, g)
    BY <1>4, <2>3, <2>6 DEF Steady
  <2>9. SessionGood(g, v)
    BY <1>5, <1>6, <2>8 DEF SessionGood, UserNow, UserActive, Steady
  <2>10. \A x \in DOMAIN g.sessions :
            /\ SessionGood(g, g.sessions[x])
            /\ x = h \/ (x \in DOMAIN d1.sessions /\ g.sessions[x] = d1.sessions[x])
    BY <1>4, <2>4, <2>6, <2>8, <2>9, SteadyGood DEF Fine, Kept, Good
  <2>11. ASSUME NEW o, OpenSession(d1, o) PROVE OpenSession(g, o)
    <3>1. PICK x \in DOMAIN d1.sessions : d1.sessions[x].id = o /\ d1.sessions[x].ended = 0
      BY <2>11 DEF OpenSession
    <3>2. CASE x = old
      BY <1>5, <2>2, <2>6, <3>1, <3>2 DEF OpenSession
    <3>3. CASE x # old
      BY <2>4, <2>6, <3>1, <3>3 DEF OpenSession
    <3> QED BY <3>2, <3>3
  <2>12. /\ d1.next["session"] <= g.next["session"] /\ h >= d1.next["session"]
    BY <2>6 DEF h
  <2>13. Leads(d1, g, now, {})
    <3>1. \A x \in DOMAIN g.sessions :
             /\ SessionGood(g, g.sessions[x])
             /\ \/ x >= d1.next["session"]
                \/ x \in DOMAIN d1.sessions /\ g.sessions[x] = d1.sessions[x]
      BY <2>10, <2>12
    <3> QED BY <1>2, <1>4, <2>3, <2>6, <2>7, <2>8, <2>11, <2>12, <3>1, SessionsLead
  <2> QED BY <1>4, <2>7, <2>13, FineNow, LeadsTwice DEF Goes
<1>8. CASE ~same
  <2>1. Withers(d1, d2)
    <3>1. Withers(d1, en) /\ Withers(d1, d1)
      BY <1>2, <1>4, EndSessionsWithers, WithersSelf DEF EndSession
    <3> HIDE DEF en
    <3> QED BY <1>8, <3>1
  <2> HIDE DEF d2
  <2>2. Leads(db, d2, now, {}) /\ Fine(d2, now, {}) /\ Sound(d2) /\ Steady(db, d2)
    <3>1. Leads(d1, d2, now, {})
      BY <1>4, <2>1, WithersLeads
    <3>2. Leads(db, d2, now, {})
      BY <1>4, <3>1, FineNow, LeadsTwice
    <3> QED BY <1>4, <2>1, <3>1, <3>2 DEF Leads, Fine, Withers, Steady
  <2> DEFINE i == d2.next["session"]
  <2>3. /\ Steady(d2, e) /\ i \in Nat
        /\ e.apps = d2.apps /\ e.txns = d2.txns /\ e.codes = d2.codes
        /\ e.tokens = d2.tokens /\ e.families = d2.families
        /\ e.refresh = d2.refresh /\ e.consents = d2.consents
        /\ \A k \in Kinds : k # "session" => e.next[k] = d2.next[k]
        /\ e.next["session"] = i + 1
        /\ DOMAIN e.sessions = DOMAIN d2.sessions \cup {i} /\ e.sessions[i] = v
        /\ \A x \in DOMAIN d2.sessions : e.sessions[x] = d2.sessions[x]
    BY <2>2, AddSessionFields DEF Sound
  <2> HIDE DEF e, i
  <2>4. SessionGood(e, v)
    BY <1>5, <1>6, <2>2, <2>3 DEF SessionGood, UserNow, UserActive, Steady
  <2>5. \A x \in DOMAIN e.sessions :
            /\ SessionGood(e, e.sessions[x])
            /\ x = i \/ (x \in DOMAIN d2.sessions /\ e.sessions[x] = d2.sessions[x])
    BY <2>2, <2>3, <2>4, SteadyGood DEF Fine, Kept, Good
  <2>6. \A o : OpenSession(d2, o) => OpenSession(e, o)
    BY <2>3 DEF OpenSession
  <2>7. /\ d2.next["session"] <= e.next["session"] /\ i >= d2.next["session"]
    BY <2>3 DEF i
  <2>8. Leads(d2, e, now, {})
    <3>1. \A x \in DOMAIN e.sessions :
             /\ SessionGood(e, e.sessions[x])
             /\ \/ x >= d2.next["session"]
                \/ x \in DOMAIN d2.sessions /\ e.sessions[x] = d2.sessions[x]
      BY <2>5, <2>7
    <3> QED BY <1>1, <1>2, <2>2, <2>3, <2>6, <2>7, <3>1, SessionsLead
  <2> QED BY <1>1, <2>2, <2>8, FineNow, LeadsTwice DEF Goes
<1> QED BY <1>7, <1>8

(***************************************************************************)
(* /authorize and its continuation.                                        *)
(***************************************************************************)
\* Pruning first.
LEMMA PrunedLeads ==
    ASSUME NEW d, NEW t, NEW W, Fine(d, t, W), NEW s \in Nat
    PROVE  LET p == PruneOIDCState(d, s) IN
           /\ Leads(d, p, t, W) /\ Fine(p, t, W) /\ Sound(p) /\ Steady(d, p)
           /\ p.sessions = d.sessions /\ p.consents = d.consents /\ p.next = d.next
           /\ \A x \in DOMAIN d.txns : s < d.txns[x].exp =>
                 x \in DOMAIN p.txns /\ p.txns[x] = d.txns[x]
<1> DEFINE p == PruneOIDCState(d, s)
<1>1. Sound(d)
  BY DEF Fine
<1>2. /\ Withers(d, p) /\ p.sessions = d.sessions /\ p.consents = d.consents
      /\ \A x \in DOMAIN d.txns : s < d.txns[x].exp =>
            x \in DOMAIN p.txns /\ p.txns[x] = d.txns[x]
  BY <1>1, PruneOIDCStateWithers
<1> HIDE DEF p
<1>3. Leads(d, p, t, W)
  BY <1>2, WithersLeads
<1> QED BY <1>2, <1>3 DEF Leads, Fine, Withers, Fades, p

\* The request is kept for the user to sign in.
LEMMA AuthorizeGoes ==
    ASSUME GInv, NEW c \in Clients, NEW rev \in ReadRevs(c), NEW s \in DOMAIN db.sessions \cup {0},
           NEW login \in BOOLEAN, NEW scopes \in SUBSET Scopes, NEW prompt \in BOOLEAN,
           NEW maxAge \in MaxAges, NEW at \in ReadTimes,
           Authorize(c, rev, s, login, scopes, prompt, maxAge, at)
    PROVE  Goes
<1> DEFINE known == s # 0 /\ ~login /\ SessionFresh(db.sessions[s], maxAge, at)
           op == IF known THEN db.sessions[s].id ELSE 0
           us == IF known THEN db.sessions[s].user ELSE 0
           re == IF known THEN 0 ELSE at
           v  == [op |-> op, client |-> c, user |-> us, rev |-> rev, scopes |-> scopes,
                  prompt |-> prompt, maxAge |-> maxAge, reauth |-> re, created |-> at,
                  exp |-> at + TransactionTTL, revoked |-> FALSE, consumed |-> FALSE]
           p  == PruneOIDCState(db, at)
<1>1. at \in Nat \ {0} /\ TransactionTTL \in Nat /\ maxAge \in Int
  BY ReadTimesAreTimes, Lifetimes DEF GInv
<1>2. rev \in Nat
  BY DEF ReadRevs, GInv, Inv, Sound, StoreOK, IsMap, Client
<1>3. op \in Id /\ us \in Users \cup {0}
  <2>1. s # 0 => db.sessions[s] \in Session
    BY FineNow, Records DEF Sound
  <2> QED BY <2>1 DEF Session, Id
<1>4. db' = AddTxn(p, v)
  BY DEF Authorize
<1>5. re \in Nat
  BY <1>1
<1> HIDE DEF op, us, re
<1>6. v \in AuthzTransaction
  BY <1>1, <1>2, <1>3, <1>5 DEF AuthzTransaction, Time
<1> HIDE DEF v
<1>7. Leads(db, p, now, {}) /\ Fine(p, now, {})
  BY <1>1, FineNow, PrunedLeads
<1> HIDE DEF p
<1>8. Leads(p, AddTxn(p, v), now, {})
  BY <1>6, <1>7, AddTxnLeads
<1> QED BY <1>4, <1>7, <1>8, FineNow, LeadsTwice DEF Goes

\* the code MintCode adds
NewCode(d, txn, u, c, h, scopes) ==
    [txn |-> txn, op |-> d.sessions[h].id, client |-> c, user |-> u,
     rev |-> d.clients[c].rev, scopes |-> scopes, auth |-> d.sessions[h].auth,
     exp |-> now + CodeTTL, retain |-> 0, revoked |-> FALSE,
     consumed |-> FALSE, cred |-> d.sessions[h].cred]

\* The user's consent to the client, if it is not revoked, is the one that counts.
LEMMA ConsentGranted ==
    ASSUME NEW d, StoreOK(d), NEW u, NEW c, <<u, c>> \in DOMAIN d.consents,
           ~d.consents[<<u, c>>].revoked
    PROVE  Granted(d, u, c, {})
<1>1. ASSUME NEW w \in DOMAIN d.consents, w[1] = u, w[2] = c PROVE w = <<u, c>>
  <2>1. w \in Users \X Clients
    BY Records
  <2> QED BY <1>1, <2>1
<1> QED BY <1>1 DEF Granted

\* A code minted under a consent is good.
LEMMA MintedCode ==
    ASSUME NEW d, Fine(d, now, {}), now \in Nat \ {0}, NEW txn \in Id, NEW c \in Clients,
           NEW rev, NEW h, NEW u, u = d.sessions[h].user, NEW scopes \in SUBSET Scopes,
           MayMint(d, u, c, rev, h),
           <<u, c>> \in DOMAIN d.consents, ~d.consents[<<u, c>>].revoked
    PROVE  LET v == NewCode(d, txn, u, c, h, scopes) p == PruneOIDCState(d, now) IN
           /\ v \in AuthorizationCode
           /\ CodeLinks(p, v) /\ CodeGood(p, v) /\ Granted(p, u, c, {})
           /\ d.sessions[h] \in Session
<1> DEFINE v == NewCode(d, txn, u, c, h, scopes)
           p == PruneOIDCState(d, now)
           s == d.sessions[h]
<1>1. /\ Fine(p, now, {}) /\ Steady(d, p)
      /\ p.sessions = d.sessions /\ p.consents = d.consents
  BY PrunedLeads
<1> HIDE DEF p
<1>2. /\ h \in DOMAIN d.sessions /\ s \in Session /\ s.ended = 0
      /\ c \in DOMAIN d.clients /\ d.clients[c] \in Client /\ d.clients[c].rev \in Nat
  <2>1. h \in DOMAIN d.sessions /\ s.ended = 0 /\ c \in DOMAIN d.clients
    BY DEF MayMint, LiveSession
  <2>2. d.clients[c] \in Client
    BY <2>1 DEF Fine, Sound, StoreOK, IsMap
  <2> QED BY <2>1, <2>2, Records DEF Fine, Sound, Client
<1>3. UserNow(d, u, s.cred)
  BY <1>2 DEF Fine, Kept, Good, SessionGood
<1>4. /\ v.op = s.id /\ v.user = u /\ v.client = c /\ v.cred = s.cred
      /\ v.rev = d.clients[c].rev
  BY DEF NewCode
<1>5. v \in AuthorizationCode
  <2>1. CodeTTL \in Nat
    BY Lifetimes
  <2>2. s.id \in Id /\ u \in Users /\ s.auth \in Nat /\ s.cred \in Nat
    BY <1>2 DEF Session, Time
  <2> HIDE DEF s
  <2> QED BY <1>2, <2>1, <2>2 DEF NewCode, AuthorizationCode, Time, Id, s
<1> HIDE DEF v, s
<1>6. CodeLinks(p, v)
  BY <1>1, <1>2, <1>4 DEF CodeLinks, OpenSession, s
<1>7. CodeGood(p, v)
  BY <1>1, <1>2, <1>3, <1>4 DEF CodeGood, UserNow, UserActive, ClientNow, Steady
<1>8. Granted(p, u, c, {})
  BY <1>1, ConsentGranted DEF Fine, Sound
<1> QED BY <1>2, <1>5, <1>6, <1>7, <1>8 DEF p, v, s

\* prompt=none.
LEMMA AuthorizeSilentlyGoes ==
    ASSUME GInv, NEW c \in Clients, NEW rev, NEW h, NEW scopes \in SUBSET Scopes, NEW maxAge,
           AuthorizeSilently(c, rev, h, scopes, maxAge)
    PROVE  Goes
<1> DEFINE u == db.sessions[h].user
           v == NewCode(db, 0, u, c, h, scopes)
           p == PruneOIDCState(db, now)
<1>1. /\ MayMint(db, u, c, rev, h) /\ ConsentCovers(db, u, c, rev, scopes)
      /\ db' = AddCode(p, v)
  BY DEF AuthorizeSilently, AnswersSilently, MintCode, NewCode
<1>2. v.txn = 0 /\ v.user = u /\ v.client = c
  BY DEF NewCode
<1>3. /\ v \in AuthorizationCode
      /\ CodeLinks(p, v) /\ CodeGood(p, v) /\ Granted(p, u, c, {})
  <2>1. 0 \in Id /\ Fine(db, now, {}) /\ now \in Nat \ {0}
    BY FineNow DEF Id
  <2>2. <<u, c>> \in DOMAIN db.consents /\ ~db.consents[<<u, c>>].revoked
    BY <1>1 DEF ConsentCovers
  <2> QED BY <1>1, <2>1, <2>2, MintedCode
<1> HIDE DEF v
<1>4. Leads(db, p, now, {}) /\ Fine(p, now, {}) /\ Sound(p)
  BY FineNow, PrunedLeads
<1> HIDE DEF p
<1>5. CodeLine(p, v)
  <2>1. 0 < p.next["txn"]
    BY <1>4, Counters DEF Sound, Kinds
  <2>2. 0 \notin DOMAIN p.txns
    BY <1>4, Records DEF Sound
  <2> QED BY <1>2, <2>1, <2>2 DEF CodeLine
<1>6. Leads(p, AddCode(p, v), now, {})
  BY <1>2, <1>3, <1>4, <1>5, AddCodeLeads
<1> QED BY <1>1, <1>4, <1>6, FineNow, LeadsTwice DEF Goes

\* A claimed request, as it is saved.
LEMMA ClaimedFields ==
    ASSUME GInv, NEW x, NEW h, MayContinue(db, x, h)
    PROVE  LET t == Claimed(db, x, h) g == [t EXCEPT !.consumed = TRUE]
               o == db.txns[x] s == db.sessions[h] IN
           /\ x \in DOMAIN db.txns /\ x \in Id \ {0} /\ ~o.consumed /\ ~o.revoked
           /\ now < o.exp /\ o \in AuthzTransaction /\ s \in Session
           /\ t \in AuthzTransaction /\ g \in AuthzTransaction
           /\ ClaimableBy(o, t.user) /\ SignInSuits(o, s)
           /\ t.user = s.user /\ t.op = s.id /\ t.client = o.client /\ t.rev = o.rev
           /\ t.scopes = o.scopes /\ t.maxAge = o.maxAge /\ t.reauth = o.reauth
           /\ g.user = s.user /\ g.op = s.id /\ g.client = o.client /\ g.rev = o.rev
           /\ g.scopes = o.scopes /\ g.maxAge = o.maxAge /\ g.reauth = o.reauth
           /\ g.consumed
<1> DEFINE o == db.txns[x]
           s == db.sessions[h]
           t == Claimed(db, x, h)
           g == [t EXCEPT !.consumed = TRUE]
<1>1. /\ x \in DOMAIN db.txns /\ ~o.consumed /\ ~o.revoked /\ now < o.exp
      /\ ClaimableBy(o, s.user) /\ SignInSuits(o, s) /\ h \in DOMAIN db.sessions
  BY DEF MayContinue, LiveSession
<1>2. x \in Id \ {0} /\ o \in AuthzTransaction /\ s \in Session
  BY <1>1, FineNow, Records DEF Sound
<1>3. s.user \in Users /\ s.id \in Id
  BY <1>2 DEF Session
<1>4. t = [o EXCEPT !.user = s.user, !.op = s.id]
  BY DEF Claimed
<1> HIDE DEF o, s, t
<1>5. /\ t \in AuthzTransaction
      /\ t.user = s.user /\ t.op = s.id /\ t.client = o.client /\ t.rev = o.rev
      /\ t.scopes = o.scopes /\ t.maxAge = o.maxAge /\ t.reauth = o.reauth
  BY <1>2, <1>3, <1>4 DEF AuthzTransaction
<1>6. /\ g \in AuthzTransaction /\ g.consumed
      /\ g.user = t.user /\ g.op = t.op /\ g.client = t.client /\ g.rev = t.rev
      /\ g.scopes = t.scopes /\ g.maxAge = t.maxAge /\ g.reauth = t.reauth
  BY <1>5 DEF AuthzTransaction
<1> QED BY <1>1, <1>2, <1>5, <1>6 DEF o, s, t

\* Status asks for the consent, or the user denies it.
LEMMA ClaimGoes ==
    ASSUME GInv, NEW x, NEW h, AskConsent(x, h) \/ Deny(x, h)
    PROVE  Goes
<1> DEFINE o == db.txns[x]
           t == Claimed(db, x, h)
           g == [t EXCEPT !.consumed = TRUE]
<1>1. /\ MayContinue(db, x, h)
      /\ db' = SaveTxn(db, x, t) \/ db' = SaveTxn(db, x, g)
  BY DEF AskConsent, Deny
<1>2. /\ x \in DOMAIN db.txns /\ ~o.consumed /\ ~o.revoked
      /\ t \in AuthzTransaction /\ g \in AuthzTransaction
      /\ ClaimableBy(o, t.user) /\ ClaimableBy(o, g.user)
  BY <1>1, ClaimedFields
<1> HIDE DEF t, g
<1>3. Leads(db, SaveTxn(db, x, t), now, {})
  BY <1>2, FineNow, PutTxnLeads
<1>4. Leads(db, SaveTxn(db, x, g), now, {})
  BY <1>2, FineNow, PutTxnLeads
<1> QED BY <1>1, <1>3, <1>4 DEF Goes

\* Saving the transaction and adding a code are independent.
LEMMA MintedSaved ==
    ASSUME NEW d, StoreOK(d), NEW v, NEW x, NEW t
    PROVE  SaveTxn(AddCode(d, v), x, t) = AddCode(SaveTxn(d, x, t), v)
<1> DEFINE i  == d.next["code"]
           n  == [d.next EXCEPT !["code"] = i + 1]
           co == Put(d.codes, i, v)
           tx == Put(d.txns, x, t)
           d1 == [d EXCEPT !.next = n]
           d2 == [d1 EXCEPT !.codes = co]
           d3 == [d2 EXCEPT !.txns = Put(d2.txns, x, t)]
           e1 == [d EXCEPT !.txns = tx]
           e2 == [e1 EXCEPT !.next = [e1.next EXCEPT !["code"] = e1.next["code"] + 1]]
           e3 == [e2 EXCEPT !.codes = Put(e1.codes, e1.next["code"], v)]
<1>1. FieldsOf(d)
  BY StoreFields
<1>2. e1.next = d.next /\ e1.codes = d.codes
  BY <1>1 DEF FieldsOf
<1>3. e2 = [e1 EXCEPT !.next = n] /\ e3 = [e2 EXCEPT !.codes = co]
  <2> HIDE DEF e1
  <2> QED BY <1>2
<1> HIDE DEF n, co
<1>4. d2.txns = d.txns
  BY <1>1 DEF FieldsOf
<1>5. d3 = [d2 EXCEPT !.txns = tx]
  <2> HIDE DEF d2
  <2> QED BY <1>4
<1>6. SaveTxn(AddCode(d, v), x, t) = d3
  BY DEF SaveTxn, AddCode, Draw, n, co
<1>7. AddCode(SaveTxn(d, x, t), v) = e3
  BY DEF SaveTxn, AddCode, Draw
<1> HIDE DEF tx, d3, e2, e3
<1>8. d3 = e3
  BY <1>1, <1>3, <1>5 DEF FieldsOf
<1> QED BY <1>6, <1>7, <1>8

\* The request is answered with a code.
LEMMA AnsweredLeads ==
    ASSUME GInv, NEW x, NEW h, MayContinue(db, x, h),
           NEW d, Leads(db, d, now, {}), d.txns = db.txns, d.sessions = db.sessions,
           NEW scopes \in SUBSET Scopes, scopes \subseteq db.txns[x].scopes,
           LET t == Claimed(db, x, h) IN
           /\ MayMint(d, t.user, t.client, t.rev, h)
           /\ <<t.user, t.client>> \in DOMAIN d.consents
           /\ ~d.consents[<<t.user, t.client>>].revoked
    PROVE  LET t == Claimed(db, x, h) IN
           Leads(db, SaveTxn(MintCode(d, x, t.user, t.client, h, scopes), x,
                             [t EXCEPT !.consumed = TRUE]), now, {})
<1> DEFINE o == db.txns[x]
           s == db.sessions[h]
           t == Claimed(db, x, h)
           u == t.user
           c == t.client
           g == [t EXCEPT !.consumed = TRUE]
           v == NewCode(d, x, u, c, h, scopes)
           p == PruneOIDCState(d, now)
           q == SaveTxn(p, x, g)
           e == AddCode(q, v)
<1>1. /\ x \in DOMAIN db.txns /\ x \in Id \ {0} /\ ~o.consumed /\ ~o.revoked
      /\ now < o.exp /\ o \in AuthzTransaction /\ s \in Session
      /\ g \in AuthzTransaction
      /\ ClaimableBy(o, s.user) /\ SignInSuits(o, s)
      /\ u = s.user /\ c = o.client /\ t.rev = o.rev
      /\ g.user = s.user /\ g.op = s.id /\ g.client = o.client
      /\ g.scopes = o.scopes /\ g.maxAge = o.maxAge /\ g.reauth = o.reauth
      /\ g.consumed
  BY ClaimedFields
<1>2. c \in Clients
  BY <1>1 DEF AuthzTransaction
<1>3. Fine(d, now, {}) /\ now \in Nat \ {0}
  BY FineNow DEF Leads
<1>4. /\ MayMint(d, u, c, t.rev, h) /\ <<u, c>> \in DOMAIN d.consents
      /\ ~d.consents[<<u, c>>].revoked
  OBVIOUS
<1>5. SaveTxn(MintCode(d, x, u, c, h, scopes), x, g) = SaveTxn(AddCode(p, v), x, g)
  BY DEF MintCode, NewCode
<1> HIDE DEF t, u, c, g
<1>6. /\ v \in AuthorizationCode
      /\ CodeLinks(p, v) /\ CodeGood(p, v) /\ Granted(p, u, c, {})
  <2>1. x \in Id
    BY <1>1
  <2> QED BY <1>1, <1>2, <1>3, <1>4, <2>1, MintedCode
<1>7. /\ v.txn = x /\ v.op = s.id /\ v.client = c /\ v.user = u /\ v.scopes = scopes
      /\ v.auth = s.auth /\ v.exp = now + CodeTTL
  BY DEF NewCode
<1> HIDE DEF v
<1>8. /\ Leads(d, p, now, {}) /\ Fine(p, now, {}) /\ Sound(p)
      /\ x \in DOMAIN p.txns /\ p.txns[x] = o
  <2>1. /\ Leads(d, p, now, {}) /\ Fine(p, now, {}) /\ Sound(p)
        /\ \A y \in DOMAIN d.txns : now < d.txns[y].exp =>
              y \in DOMAIN p.txns /\ p.txns[y] = d.txns[y]
    BY <1>3, PrunedLeads
  <2> QED BY <1>1, <2>1
<1> HIDE DEF p, o, s
<1>9. /\ Leads(p, q, now, {}) /\ Fine(q, now, {}) /\ Steady(p, q)
      /\ q.txns = Put(p.txns, x, g) /\ q.sessions = p.sessions
      /\ q.next = p.next /\ q.consents = p.consents /\ q.codes = p.codes
      /\ \A j \in DOMAIN p.codes : p.codes[j].txn # x
  BY <1>1, <1>8, PutTxnLeads DEF Leads
<1>10. e = SaveTxn(AddCode(p, v), x, g)
  BY <1>8, MintedSaved DEF Sound
<1> HIDE DEF q
<1>11. CodeLinks(q, v) /\ CodeGood(q, v) /\ Granted(q, v.user, v.client, {})
  BY <1>6, <1>7, <1>9, SteadyGood DEF CodeLinks, OpenSession, Granted
<1>12. CodeLine(q, v)
  <2>1. x < q.next["txn"]
    BY <1>8, <1>9 DEF Fine, Kept, AllDrawn
  <2>2. Answers(v, g)
    <3>1. v.auth >= g.reauth
      <4>1. s.auth \in Nat /\ o.reauth \in Nat
        BY <1>1 DEF Session, AuthzTransaction, Time
      <4> QED BY <1>1, <1>7, <4>1 DEF SignInSuits
    <3>2. ASSUME g.reauth = 0, g.maxAge # NoMaxAge PROVE v.exp - CodeTTL - v.auth <= g.maxAge
      <4>1. CodeTTL \in Nat /\ s.auth \in Nat /\ now \in Nat /\ o.maxAge \in Int
        BY <1>1, <1>3, Lifetimes DEF Session, AuthzTransaction, Time
      <4>2. now - s.auth <= o.maxAge
        BY <1>1, <3>2 DEF SignInSuits, SessionFresh
      <4> QED BY <1>1, <1>7, <4>1, <4>2
    <3> QED BY <1>1, <1>7, <3>1, <3>2 DEF Answers, o, c
  <2>3. q.txns[x] = g
    BY <1>9 DEF Put
  <2> QED BY <1>7, <2>1, <2>2, <2>3 DEF CodeLine
<1>13. Leads(q, e, now, {})
  BY <1>6, <1>7, <1>9, <1>11, <1>12, AddCodeLeads
<1>14. Leads(db, e, now, {})
  BY <1>8, <1>9, <1>13, FineNow, <1>3, LeadsTwice DEF Leads, Fine
<1> QED BY <1>5, <1>10, <1>14 DEF t, u, c, g

\* Status finds the request consented to already.
LEMMA CompleteGoes ==
    ASSUME GInv, NEW x, NEW h, CompleteCovered(x, h)
    PROVE  Goes
<1> DEFINE t == Claimed(db, x, h)
<1>1. /\ MayContinue(db, x, h)
      /\ ConsentCovers(db, db.sessions[h].user, db.txns[x].client, db.txns[x].rev,
                       db.txns[x].scopes)
      /\ MayMint(db, t.user, t.client, t.rev, h)
      /\ db' = SaveTxn(MintCode(db, x, t.user, t.client, h, t.scopes), x,
                       [t EXCEPT !.consumed = TRUE])
  BY DEF CompleteCovered, CoveredTxn
<1>2. /\ t.user = db.sessions[h].user /\ t.client = db.txns[x].client
      /\ t.scopes = db.txns[x].scopes /\ t \in AuthzTransaction
  BY <1>1, ClaimedFields
<1>3. /\ <<t.user, t.client>> \in DOMAIN db.consents
      /\ ~db.consents[<<t.user, t.client>>].revoked
  BY <1>1, <1>2 DEF ConsentCovers
<1>4. t.scopes \in SUBSET Scopes
  BY <1>2 DEF AuthzTransaction
<1>5. Leads(db, db, now, {})
  BY FineNow, WithersSelf, WithersLeads
<1>6. Leads(db, SaveTxn(MintCode(db, x, t.user, t.client, h, t.scopes), x,
                        [t EXCEPT !.consumed = TRUE]), now, {})
  BY <1>1, <1>2, <1>3, <1>4, <1>5, AnsweredLeads
<1> QED BY <1>1, <1>6 DEF Goes

\* The user approves it: the consent saved in the same Write is what the code
\* is issued on.
LEMMA ApproveGoes ==
    ASSUME GInv, NEW x, NEW h, NEW approved \in SUBSET Scopes, Approve(x, h, approved)
    PROVE  Goes
<1> DEFINE t   == Claimed(db, x, h)
           sc  == t.scopes \cap approved
           new == [scopes |-> sc, rev |-> t.rev, revoked |-> FALSE]
           w   == <<t.user, t.client>>
           d   == SaveConsent(db, t.user, t.client, new, now)
           e   == PutConsent(db, w, new)
<1>1. /\ MayContinue(db, x, h) /\ MayMint(d, t.user, t.client, t.rev, h)
      /\ db' = SaveTxn(MintCode(d, x, t.user, t.client, h, sc), x,
                       [t EXCEPT !.consumed = TRUE])
  BY DEF Approve
<1>2. /\ t.scopes = db.txns[x].scopes /\ t \in AuthzTransaction
      /\ t.user \in Users /\ t.client \in Clients /\ t.rev \in Nat
      /\ t.scopes \in SUBSET Scopes
  BY <1>1, ClaimedFields, ClaimedTxn DEF GInv
<1>3. sc \in SUBSET Scopes /\ sc \subseteq db.txns[x].scopes
  BY <1>2
<1>4. new \in Consent /\ ~new.revoked
  BY <1>2, <1>3 DEF Consent
<1>5. d = e
  <2> HIDE DEF new
  <2> QED BY <1>4, SaveConsentSaves DEF PutConsent
<1> HIDE DEF d
<1>6. w \in Users \X Clients
  BY <1>2
<1>7. /\ Leads(db, e, now, {})
      /\ e.txns = db.txns /\ e.sessions = db.sessions
      /\ e.consents = Put(db.consents, w, new)
  <2> HIDE DEF w, new, t
  <2> QED BY <1>4, <1>6, FineNow, PutConsentLeads
<1> HIDE DEF e
<1>8. w \in DOMAIN e.consents /\ ~e.consents[w].revoked
  BY <1>4, <1>7 DEF Put
<1> HIDE DEF new
<1>9. Leads(db, SaveTxn(MintCode(e, x, t.user, t.client, h, sc), x,
                        [t EXCEPT !.consumed = TRUE]), now, {})
  <2> HIDE DEF sc
  <2> QED BY <1>1, <1>3, <1>5, <1>7, <1>8, AnsweredLeads
<1> QED BY <1>1, <1>5, <1>9 DEF Goes

\* Every authorization step.
LEMMA AuthorizeStepGoes == ASSUME GInv, AuthorizeStep PROVE Goes
BY AuthorizeGoes, AuthorizeSilentlyGoes, ClaimGoes, CompleteGoes, ApproveGoes DEF AuthorizeStep

\* Every session step.
LEMMA SessionStepGoes == ASSUME GInv, SessionStep PROVE Goes
<1>1. ASSUME NEW u \in Users, NEW cred \in Creds(u), NEW old, NEW at \in ReadTimes,
             Login(u, cred, old, at)
      PROVE  Goes
  <2>1. cred \in Nat
    BY DEF Creds, GInv, Inv, Sound, StoreOK, IsMap, User
  <2> QED BY <1>1, <2>1, LoginGoes
<1> QED BY <1>1, EndingGoes, EndClientAccessGoes DEF SessionStep

(***************************************************************************)
(* /token and /revoke.                                                     *)
(***************************************************************************)
\* The code's client joins or opens its app session of the code's session.
LEMMA JoinedLeads ==
    ASSUME NEW d, NEW t, NEW W, Fine(d, t, W), NEW v \in AuthorizationCode,
           v.op # 0 => OpenSession(d, v.op)
    PROVE  LET e == JoinApp(d, v) a == CHOOSE a \in LiveApps(e, v.op, v.client) : TRUE IN
           /\ Leads(d, e, t, W) /\ Steady(d, e)
           /\ e.sessions = d.sessions /\ e.txns = d.txns /\ e.codes = d.codes
           /\ e.tokens = d.tokens /\ e.families = d.families
           /\ e.refresh = d.refresh /\ e.consents = d.consents
           /\ \A k \in Kinds : k # "app" => e.next[k] = d.next[k]
           /\ v.op # 0 => a \in DOMAIN e.apps /\ e.apps[a].ended = 0 /\ e.apps[a].op = v.op
<1> DEFINE e == JoinApp(d, v)
           n == [op |-> v.op, client |-> v.client, user |-> v.user, ended |-> 0]
           i == d.next["app"]
<1>1. Sound(d)
  BY DEF Fine
<1>2. n \in AppSession /\ n.op = v.op /\ n.client = v.client /\ n.ended = 0
  BY DEF AppSession, Time, AuthorizationCode
<1>3. NewApp(d, v) = AddApp(d, n)
  BY DEF NewApp
<1> HIDE DEF n
<1>4. CASE v.op = 0 \/ LiveApps(d, v.op, v.client) # {}
  <2>1. e = d
    BY <1>4 DEF JoinApp
  <2>2. Leads(d, d, t, W) /\ Steady(d, d)
    BY <1>1, WithersSelf, WithersLeads DEF Steady
  <2>3. v.op # 0 => LiveApps(d, v.op, v.client) # {}
    BY <1>4
  <2> QED BY <2>1, <2>2, <2>3 DEF LiveApps
<1>5. CASE ~(v.op = 0 \/ LiveApps(d, v.op, v.client) # {})
  <2>1. e = AddApp(d, n)
    BY <1>3, <1>5 DEF JoinApp
  <2> HIDE DEF e, i
  <2>2. /\ Leads(d, e, t, W) /\ Steady(d, e)
        /\ e.apps = Put(d.apps, i, n) /\ i \notin DOMAIN d.apps
        /\ e.sessions = d.sessions /\ e.txns = d.txns /\ e.codes = d.codes
        /\ e.tokens = d.tokens /\ e.families = d.families
        /\ e.refresh = d.refresh /\ e.consents = d.consents
        /\ \A k \in Kinds : k # "app" => e.next[k] = d.next[k]
    BY <1>2, <1>5, <2>1, AddAppLeads DEF i
  <2>3. i \in LiveApps(e, v.op, v.client)
    BY <1>2, <2>2 DEF LiveApps, Put
  <2> QED BY <2>2, <2>3 DEF LiveApps, e
<1> QED BY <1>4, <1>5

\* Marking the code and adding a family are independent.
LEMMA InitialRefreshMarked ==
    ASSUME NEW d, StoreOK(d), NEW f, NEW co
    PROVE  /\ InitialRefresh(d, f).codes = d.codes
           /\ [InitialRefresh(d, f) EXCEPT !.codes = co] = InitialRefresh([d EXCEPT !.codes = co], f)
<1> DEFINE g  == [d EXCEPT !.codes = co]
           i  == d.next["family"]
           n1 == [d.next EXCEPT !["family"] = i + 1]
           n2 == [n1 EXCEPT !["refresh"] = n1["refresh"] + 1]
           fa == Put(d.families, i, f)
           v  == [family |-> i, scopes |-> f.scopes, consumed |-> FALSE]
           re == Put(d.refresh, n1["refresh"], v)
<1>1. FieldsOf(d)
  BY StoreFields
<1>2. /\ FieldsOf(g) /\ g.next = d.next /\ g.families = d.families /\ g.refresh = d.refresh
      /\ g.users = d.users /\ g.clients = d.clients /\ g.policy = d.policy
      /\ g.access = d.access /\ g.sessions = d.sessions /\ g.apps = d.apps
      /\ g.txns = d.txns /\ g.codes = co /\ g.tokens = d.tokens
      /\ g.consents = d.consents
  BY <1>1 DEF FieldsOf
<1> HIDE DEF g
<1>3. ASSUME NEW e, FieldsOf(e), e.next = d.next, e.families = d.families, e.refresh = d.refresh
      PROVE  InitialRefresh(e, f) =
               [users |-> e.users, clients |-> e.clients, policy |-> e.policy,
                access |-> e.access, sessions |-> e.sessions, apps |-> e.apps,
                txns |-> e.txns, codes |-> e.codes, tokens |-> e.tokens,
                families |-> fa, refresh |-> re, consents |-> e.consents, next |-> n2]
  <2> DEFINE e1 == [e EXCEPT !.next = n1]
             e2 == [e1 EXCEPT !.families = fa]
             e3 == [e2 EXCEPT !.next = n2]
             e4 == [e3 EXCEPT !.refresh = re]
  <2>1. Draw(e, "family") = e1
    BY <1>3 DEF Draw
  <2>2. AddFamily(e, f) = e2
    BY <1>3, <2>1 DEF AddFamily
  <2>3. e2.next = n1 /\ e2.refresh = d.refresh
    <3> HIDE DEF n1, fa
    <3>1. FieldsOf(e1) /\ e1.next = n1 /\ e1.refresh = d.refresh
      BY <1>3 DEF FieldsOf
    <3> HIDE DEF e1
    <3> QED BY <3>1 DEF FieldsOf
  <2> HIDE DEF n1
  <2>4. Draw(e2, "refresh") = e3
    <3> HIDE DEF e2
    <3> QED BY <2>3 DEF Draw
  <2>5. AddRefresh(e2, v) = e4
    <3> HIDE DEF e2, v
    <3> QED BY <2>3, <2>4 DEF AddRefresh
  <2>6. InitialRefresh(e, f) = e4
    <3> HIDE DEF e4
    <3> QED BY <1>3, <2>2, <2>5 DEF InitialRefresh
  <2> HIDE DEF n2, fa, re
  <2>7. /\ FieldsOf(e2) /\ e2.families = fa
        /\ e2.users = e.users /\ e2.clients = e.clients /\ e2.policy = e.policy
        /\ e2.access = e.access /\ e2.sessions = e.sessions /\ e2.apps = e.apps
        /\ e2.txns = e.txns /\ e2.codes = e.codes /\ e2.tokens = e.tokens
        /\ e2.consents = e.consents
    <3>1. /\ FieldsOf(e1)
          /\ e1.users = e.users /\ e1.clients = e.clients /\ e1.policy = e.policy
          /\ e1.access = e.access /\ e1.sessions = e.sessions /\ e1.apps = e.apps
          /\ e1.txns = e.txns /\ e1.codes = e.codes /\ e1.tokens = e.tokens
          /\ e1.consents = e.consents
      BY <1>3 DEF FieldsOf
    <3> HIDE DEF e1
    <3> QED BY <3>1 DEF FieldsOf
  <2>8. e4 = [users |-> e.users, clients |-> e.clients, policy |-> e.policy,
                access |-> e.access, sessions |-> e.sessions, apps |-> e.apps,
                txns |-> e.txns, codes |-> e.codes, tokens |-> e.tokens,
                families |-> fa, refresh |-> re, consents |-> e.consents, next |-> n2]
    <3>1. /\ FieldsOf(e3) /\ e3.families = fa /\ e3.next = n2
          /\ e3.users = e.users /\ e3.clients = e.clients /\ e3.policy = e.policy
          /\ e3.access = e.access /\ e3.sessions = e.sessions /\ e3.apps = e.apps
          /\ e3.txns = e.txns /\ e3.codes = e.codes /\ e3.tokens = e.tokens
          /\ e3.consents = e.consents
      <4> HIDE DEF e2
      <4> QED BY <2>7 DEF FieldsOf
    <3> HIDE DEF e3
    <3>2. /\ FieldsOf(e4) /\ e4.families = fa /\ e4.next = n2 /\ e4.refresh = re
          /\ e4.users = e.users /\ e4.clients = e.clients /\ e4.policy = e.policy
          /\ e4.access = e.access /\ e4.sessions = e.sessions /\ e4.apps = e.apps
          /\ e4.txns = e.txns /\ e4.codes = e.codes /\ e4.tokens = e.tokens
          /\ e4.consents = e.consents
      BY <3>1 DEF FieldsOf
    <3> HIDE DEF e4
    <3> QED BY <3>2 DEF FieldsOf
  <2> QED BY <2>6, <2>8
<1> HIDE DEF fa, re, n2
<1>4. InitialRefresh(d, f) =
               [users |-> d.users, clients |-> d.clients, policy |-> d.policy,
                access |-> d.access, sessions |-> d.sessions, apps |-> d.apps,
                txns |-> d.txns, codes |-> d.codes, tokens |-> d.tokens,
                families |-> fa, refresh |-> re, consents |-> d.consents, next |-> n2]
  BY <1>1, <1>3
<1>5. InitialRefresh(g, f) =
               [users |-> d.users, clients |-> d.clients, policy |-> d.policy,
                access |-> d.access, sessions |-> d.sessions, apps |-> d.apps,
                txns |-> d.txns, codes |-> co, tokens |-> d.tokens,
                families |-> fa, refresh |-> re, consents |-> d.consents, next |-> n2]
  BY <1>2, <1>3
<1> QED BY <1>4, <1>5 DEF g

\* The code exchange.
LEMMA ExchangeCodeGoes ==
    ASSUME GInv, NEW k, NEW c \in Clients, NEW snap, ExchangeCode(k, c, snap)
    PROVE  Goes
<1> DEFINE code == db.codes[k]
           d1   == JoinApp(db, code)
           live == LiveApps(d1, code.op, c)
           app  == IF code.op = 0 THEN 0 ELSE CHOOSE a \in live : TRUE
           off  == Offline \in code.scopes
           f    == NewFamily(code, k, app)
           fid  == IF off THEN d1.next["family"] ELSE 0
           d2   == IF off THEN InitialRefresh(d1, f) ELSE d1
           r    == CodeRetain(off)
           used == [code EXCEPT !.consumed = TRUE, !.retain = r]
           tok  == [op |-> code.op, app |-> app, family |-> fid, code |-> k,
                    client |-> c, user |-> code.user, grant |-> "authorization_code",
                    scopes |-> code.scopes, rev |-> db.clients[c].rev,
                    exp |-> now + AccessTokenTTL, revoked |-> FALSE,
                    cred |-> code.cred, snap |-> snap]
           d3   == [d2 EXCEPT !.codes = Put(d2.codes, k, used)]
           g    == [d1 EXCEPT !.codes = Put(d1.codes, k, used)]
           e    == IF off THEN InitialRefresh(g, f) ELSE g
<1>1. /\ BoundCode(k, c, snap) /\ Exchangeable(k)
      /\ code.op # 0 => SessionActive(db, code.op, now)
      /\ off => RefreshFamilyActive(d1, f, now)
      /\ db' = PruneOIDCState(AddToken(d3, tok), now)
  BY DEF ExchangeCode
<1>2. /\ k \in DOMAIN db.codes /\ ~code.revoked /\ ~code.consumed /\ now < code.exp
      /\ code.client = c /\ db.clients[c].rev = snap /\ db.clients[c].rev = code.rev
      /\ k \in Id \ {0} /\ code \in AuthorizationCode
  <2>1. k \in DOMAIN db.codes
    BY <1>1 DEF BoundCode
  <2>2. k \in Id \ {0} /\ code \in AuthorizationCode
    BY <2>1, FineNow, Records DEF Sound
  <2> QED BY <1>1, <2>1, <2>2 DEF BoundCode, Exchangeable
<1>3. /\ code.op \in Id /\ code.user \in Users /\ code.scopes \in SUBSET Scopes
      /\ code.rev \in Nat /\ code.cred \in Nat /\ code.exp \in Nat
  BY <1>2 DEF AuthorizationCode, Time
<1>4. UserNow(db, code.user, code.cred) /\ ClientNow(db, c, code.rev)
  BY <1>2 DEF GInv, Kept, Good, CodeGood
<1>5. Granted(db, code.user, c, {})
  <2>1. now \in Nat
    BY FineNow
  <2>2. \A w \in DOMAIN db.consents : WithdrawnAt(db, now, w)
    BY DEF GInv, Kept, Withdrawn
  <2> HIDE DEF code
  <2> QED BY <1>2, <1>3, <2>1, <2>2 DEF Granted, WithdrawnAt, code
<1>6. /\ AccessTokenTTL \in Nat /\ RefreshMaxTTL \in Nat /\ RefreshInactivityTTL \in Nat
      /\ now \in Nat /\ FamilyRetain \in Nat /\ r \in Nat
      /\ now + AccessTokenTTL \in Nat
      /\ now + AccessTokenTTL <= r /\ now + AccessTokenTTL <= FamilyRetain
      /\ off => r = FamilyRetain
  <2>1. now \in Nat
    BY FineNow
  <2> QED BY <2>1, Lifetimes DEF FamilyRetain, CodeRetain
<1>7. /\ Leads(db, d1, now, {}) /\ Steady(db, d1) /\ Sound(d1)
      /\ d1.sessions = db.sessions /\ d1.codes = db.codes
      /\ d1.tokens = db.tokens /\ d1.consents = db.consents
      /\ \A x \in Kinds : x # "app" => d1.next[x] = db.next[x]
      /\ code.op # 0 => app \in DOMAIN d1.apps /\ d1.apps[app].ended = 0
                        /\ d1.apps[app].op = code.op
  <2>1. code.op # 0 => OpenSession(db, code.op)
    BY <1>1 DEF SessionActive, OpenSession
  <2> HIDE DEF code
  <2> QED BY <1>2, <2>1, FineNow, JoinedLeads DEF Leads, Fine
<1>8. app \in Id
  <2>1. code.op # 0 => app \in Id
    BY <1>7, Records DEF Sound
  <2> QED BY <2>1 DEF Id
<1>9. d3 = e
  <2> HIDE DEF code, d1, app, f, used
  <2>1. CASE off
    <3>1. d2 = InitialRefresh(d1, f)
      BY <2>1
    <3>2. d2.codes = d1.codes
      BY <1>7, <3>1, InitialRefreshMarked DEF Sound
    <3>3. [d2 EXCEPT !.codes = Put(d2.codes, k, used)] = InitialRefresh(g, f)
      BY <1>7, <3>1, <3>2, InitialRefreshMarked DEF Sound
    <3> QED BY <2>1, <3>3
  <2>2. CASE ~off
    BY <2>2
  <2> QED BY <2>1, <2>2
<1>10. /\ f \in RefreshFamily /\ f.code = k /\ f.client = c /\ f.user = code.user
       /\ f.rev = code.rev /\ f.cred = code.cred /\ f.retain = FamilyRetain
       /\ f.retain = f.abs + AccessTokenTTL
  <2> HIDE DEF code, app
  <2> QED BY <1>2, <1>3, <1>6, <1>8 DEF NewFamily, RefreshFamily, Time, Id, FamilyRetain
<1> HIDE DEF d2, d3, f
<1>11. d1.codes[k] = code /\ k \in DOMAIN d1.codes
  BY <1>2, <1>7
<1>12. /\ used.consumed /\ used.retain = r /\ used.client = c /\ used.user = code.user
       /\ used.revoked = code.revoked
  <2> HIDE DEF code, r
  <2> QED BY <1>2 DEF AuthorizationCode
<1> HIDE DEF r, d1
<1>13. /\ Leads(d1, g, now, {}) /\ Steady(d1, g)
       /\ g.codes = Put(d1.codes, k, used)
       /\ g.sessions = d1.sessions /\ g.apps = d1.apps
       /\ g.tokens = d1.tokens /\ g.consents = d1.consents /\ g.next = d1.next
       /\ \A j \in DOMAIN d1.tokens : d1.tokens[j].grant = "authorization_code" =>
                                         d1.tokens[j].code # k
  <2>1. Fine(d1, now, {})
    BY <1>7 DEF Leads
  <2>2. used = [d1.codes[k] EXCEPT !.consumed = TRUE, !.retain = r]
    BY <1>11
  <2> HIDE DEF code
  <2>3. ~d1.codes[k].consumed
    BY <1>2, <1>11
  <2>4. used = Used(d1, k, r) /\ g = PutCode(d1, k, used)
    BY <2>2 DEF Used, PutCode
  <2> HIDE DEF g, used
  <2>5. r \in Nat /\ k \in DOMAIN d1.codes
    BY <1>6, <1>11
  <2> QED BY <2>1, <2>3, <2>4, <2>5, PutCodeLeads
<1> HIDE DEF g, used
<1>14. g.codes[k] = used /\ k \in DOMAIN g.codes
  BY <1>13 DEF Put
<1>15. /\ UserNow(g, code.user, code.cred) /\ ClientNow(g, c, code.rev)
       /\ Granted(g, code.user, c, {})
  BY <1>4, <1>5, <1>7, <1>13 DEF UserNow, UserActive, ClientNow, Steady, Granted
<1>16. off => "refresh_token" \in g.policy[c]
  BY <1>1, <1>7, <1>10, <1>13 DEF RefreshFamilyActive, Steady
<1>17. /\ Leads(g, e, now, {}) /\ Steady(g, e)
       /\ e.sessions = g.sessions /\ e.apps = g.apps /\ e.codes = g.codes
       /\ e.tokens = g.tokens /\ e.consents = g.consents
       /\ e.next["code"] = g.next["code"]
       /\ fid # 0 => fid \in DOMAIN e.families /\ e.families[fid] = f /\ off
       /\ fid \in Id
  <2>1. Fine(g, now, {})
    BY <1>13 DEF Leads
  <2>2. CASE off
    <3>1. FamilyLinks(g, f)
      BY <1>6, <1>10, <1>12, <1>14, <2>2 DEF FamilyLinks
    <3>2. FamilyGood(g, f)
      BY <1>10, <1>15, <1>16, <2>2 DEF FamilyGood
    <3>3. e = InitialRefresh(g, f) /\ fid = g.next["family"]
      BY <1>7, <1>13, <2>2 DEF fid
    <3>4. Granted(g, f.user, f.client, {})
      BY <1>10, <1>15
    <3> HIDE DEF e
    <3>5. /\ Leads(g, e, now, {}) /\ Steady(g, e) /\ fid \in Nat \ {0}
          /\ e.families = Put(g.families, fid, f)
          /\ e.sessions = g.sessions /\ e.apps = g.apps
          /\ e.codes = g.codes /\ e.tokens = g.tokens /\ e.consents = g.consents
          /\ \A x \in Kinds : x \notin {"family", "refresh"} => e.next[x] = g.next[x]
      BY <1>10, <2>1, <3>1, <3>2, <3>3, <3>4, InitialRefreshLeads
    <3> QED BY <2>2, <3>5 DEF Put, Kinds, Id
  <2>3. CASE ~off
    <3>1. e = g /\ fid = 0
      BY <2>3 DEF fid
    <3>2. Leads(g, g, now, {}) /\ Steady(g, g)
      BY <2>1, WithersSelf, WithersLeads DEF Steady, Fine
    <3> QED BY <3>1, <3>2 DEF Id
  <2> QED BY <2>2, <2>3
<1> HIDE DEF e, fid
<1>18. /\ tok.op = code.op /\ tok.app = app /\ tok.family = fid /\ tok.code = k
       /\ tok.client = c /\ tok.user = code.user /\ tok.grant = "authorization_code"
       /\ tok.rev = code.rev /\ tok.exp = now + AccessTokenTTL /\ ~tok.revoked
       /\ tok.cred = code.cred /\ tok.snap = code.rev
  BY <1>2
<1>19. tok \in AccessToken
  <2> HIDE DEF code, app
  <2>1. db.clients[c].rev \in Nat /\ snap \in Nat
    BY <1>2, <1>3
  <2> QED BY <1>2, <1>3, <1>6, <1>8, <1>17, <2>1 DEF AccessToken, Time, Id
<1> HIDE DEF tok, off, code, app
<1>20. TokenLinks(e, tok)
  <2>1. tok.op # 0 => /\ tok.app \in DOMAIN e.apps /\ e.apps[tok.app].ended = 0
                      /\ e.apps[tok.app].op = tok.op
    BY <1>7, <1>13, <1>17, <1>18
  <2>2. tok.family # 0 => /\ tok.family \in DOMAIN e.families
                          /\ ~e.families[tok.family].revoked
                          /\ tok.exp <= e.families[tok.family].retain
    <3>1. ~f.revoked
      BY DEF f, NewFamily
    <3> QED BY <1>6, <1>10, <1>17, <1>18, <3>1
  <2>3. /\ tok.code \in DOMAIN e.codes /\ e.codes[tok.code].consumed
        /\ e.codes[tok.code].user = tok.user
        /\ e.codes[tok.code].client = tok.client
        /\ tok.exp <= e.codes[tok.code].retain
    BY <1>6, <1>12, <1>14, <1>17, <1>18
  <2> QED BY <2>1, <2>2, <2>3 DEF TokenLinks
<1>21. TokenGood(e, tok) /\ Granted(e, tok.user, tok.client, {})
  BY <1>15, <1>17, <1>18 DEF TokenGood, UserNow, UserActive, ClientNow, Steady, Granted
<1>22. TokenLine(e, tok)
  <2>1. k < db.next["code"]
    BY <1>2 DEF GInv, Kept, AllDrawn
  <2> QED BY <1>7, <1>12, <1>13, <1>14, <1>17, <1>18, <2>1 DEF TokenLine, Kinds
<1>23. Leads(e, AddToken(e, tok), now, {})
  <2>1. Fine(e, now, {})
    BY <1>17 DEF Leads
  <2>2. \A j \in DOMAIN e.tokens : e.tokens[j].grant = "authorization_code" =>
                                      e.tokens[j].code # tok.code
    BY <1>13, <1>17, <1>18
  <2> QED BY <1>19, <1>20, <1>21, <1>22, <2>1, <2>2, AddTokenLeads
<1> DEFINE h == AddToken(e, tok)
<1> HIDE DEF h
<1>24. Leads(e, h, now, {})
  BY <1>23 DEF h
<1>25. Leads(h, PruneOIDCState(h, now), now, {})
  <2>1. Fine(h, now, {}) /\ now \in Nat \ {0}
    BY <1>24, FineNow DEF Leads
  <2> QED BY <2>1, PrunedLeads
<1>26. Leads(db, h, now, {})
  <2>1. Sound(db)
    BY FineNow
  <2>2. Leads(db, g, now, {})
    BY <1>7, <1>13, <2>1, LeadsTwice
  <2>3. Leads(db, e, now, {})
    BY <1>17, <2>1, <2>2, LeadsTwice
  <2> QED BY <1>24, <2>1, <2>3, LeadsTwice
<1>27. Leads(db, PruneOIDCState(h, now), now, {})
  BY <1>25, <1>26, FineNow, LeadsTwice
<1> QED BY <1>1, <1>9, <1>27 DEF Goes, h

\* Refresh rotation.
LEMMA RotateGoes ==
    ASSUME GInv, NEW r, NEW c \in Clients, NEW snap, NEW scopes \in SUBSET Scopes,
           Rotate(r, c, snap, scopes)
    PROVE  Goes
<1> DEFINE old  == db.refresh[r]
           f    == db.families[old.family]
           idle == Lesser(now + RefreshInactivityTTL, f.abs)
           e    == Turned(db, r, old.family, idle, scopes)
           tok  == [op |-> f.op, app |-> f.app, family |-> old.family, code |-> f.code,
                    client |-> c, user |-> f.user, grant |-> "refresh_token",
                    scopes |-> scopes, rev |-> db.clients[c].rev,
                    exp |-> now + AccessTokenTTL, revoked |-> FALSE, cred |-> f.cred,
                    snap |-> snap]
           h    == AddToken(e, tok)
<1>1. /\ BoundRefresh(r, c, snap) /\ ~old.consumed /\ RefreshFamilyActive(db, f, now)
      /\ scopes \subseteq old.scopes
  BY DEF Rotate, Refreshable
<1>2. db' = PruneOIDCState(h, now)
  BY DEF Rotate, Turned
<1>3. /\ r \in DOMAIN db.refresh /\ old.family \in DOMAIN db.families /\ old.family \in Id \ {0}
      /\ f \in RefreshFamily /\ f.client = c /\ db.clients[c].rev = snap
  <2>1. r \in DOMAIN db.refresh /\ old.family \in DOMAIN db.families
    BY <1>1 DEF BoundRefresh
  <2>2. old.family \in Id \ {0} /\ f \in RefreshFamily
    BY <2>1, FineNow, Records DEF Sound
  <2> QED BY <1>1, <2>1, <2>2 DEF BoundRefresh
<1> HIDE DEF old
<1>4. /\ ~f.revoked /\ now < f.abs /\ db.clients[c].rev = f.rev
      /\ <<f.user, c>> \in DOMAIN db.consents /\ ~db.consents[<<f.user, c>>].revoked
  BY <1>1, <1>3 DEF RefreshFamilyActive
<1>5. /\ f.op \in Id /\ f.app \in Id /\ f.code \in Id /\ f.user \in Users /\ f.abs \in Nat
      /\ f.cred \in Nat /\ f.rev \in Nat /\ f.retain \in Nat
  BY <1>3 DEF RefreshFamily, Time
<1>6. /\ UserNow(db, f.user, f.cred) /\ ClientNow(db, c, f.rev)
      /\ f.retain = f.abs + AccessTokenTTL
  BY <1>3, <1>4 DEF GInv, Kept, Good, FamilyGood
<1>7. /\ f.code \in DOMAIN db.codes /\ db.codes[f.code].consumed
      /\ db.codes[f.code].user = f.user /\ db.codes[f.code].client = c
      /\ f.retain <= db.codes[f.code].retain /\ db.codes[f.code].retain \in Nat
  <2>1. FamilyLinks(db, f)
    BY <1>3 DEF GInv, Kept, Links
  <2>2. f.code \in DOMAIN db.codes
    BY <1>4, <2>1 DEF FamilyLinks
  <2>3. db.codes[f.code] \in AuthorizationCode
    BY <2>2, FineNow, Records DEF Sound
  <2>4. db.codes[f.code].retain \in Nat
    BY <2>3 DEF AuthorizationCode, Time
  <2> QED BY <1>3, <1>4, <2>1, <2>4 DEF FamilyLinks
<1>8. /\ now \in Nat \ {0} /\ now + AccessTokenTTL \in Nat /\ idle \in Time
      /\ now + AccessTokenTTL <= f.retain
      /\ now + AccessTokenTTL <= db.codes[f.code].retain
  <2>1. now \in Nat \ {0} /\ AccessTokenTTL \in Nat /\ RefreshInactivityTTL \in Nat
    BY FineNow, Lifetimes
  <2>2. idle \in Time
    <3> HIDE DEF f
    <3> QED BY <1>5, <2>1 DEF Lesser, Time
  <2> HIDE DEF f, idle
  <2> QED BY <1>4, <1>5, <1>6, <1>7, <2>1, <2>2
<1> HIDE DEF idle
<1>9. /\ Leads(db, e, now, {}) /\ Steady(db, e)
      /\ e.codes = db.codes /\ e.consents = db.consents
      /\ e.next["code"] = db.next["code"]
      /\ old.family \in DOMAIN e.families /\ e.families[old.family].retain = f.retain
      /\ e.families[old.family].revoked = f.revoked
  <2>1. Fine(db, now, {})
    BY FineNow
  <2>2. scopes \in SUBSET db.refresh[r].scopes /\ ~db.refresh[r].consumed
    BY <1>1 DEF old
  <2> DEFINE g == db.refresh[r].family
             x == Turned(db, r, g, idle, scopes)
  <2>3. r \in DOMAIN db.refresh /\ idle \in Time
    BY <1>3, <1>8
  <2>4. /\ Leads(db, x, now, {}) /\ Steady(db, x)
        /\ x.codes = db.codes /\ x.consents = db.consents
        /\ x.next["code"] = db.next["code"]
        /\ g \in DOMAIN x.families /\ x.families[g].retain = db.families[g].retain
        /\ x.families[g].revoked = db.families[g].revoked
    BY <2>1, <2>2, <2>3, TurnedLeads
  <2> HIDE DEF x
  <2>5. g = old.family
    BY DEF old
  <2> HIDE DEF g
  <2>6. x = e
    BY <2>5 DEF x
  <2> HIDE DEF e
  <2> QED BY <2>4, <2>5, <2>6
<1> HIDE DEF e
<1>10. ~e.families[old.family].revoked
  BY <1>4, <1>9
<1>11. /\ tok.op = f.op /\ tok.app = f.app /\ tok.family = old.family /\ tok.code = f.code
       /\ tok.client = c /\ tok.user = f.user /\ tok.grant = "refresh_token"
       /\ tok.rev = f.rev /\ tok.exp = now + AccessTokenTTL /\ ~tok.revoked
       /\ tok.cred = f.cred /\ tok.snap = f.rev
  BY <1>3, <1>4
<1>12. tok \in AccessToken
  <2>1. db.clients[c].rev \in Nat /\ snap \in Nat /\ now + AccessTokenTTL \in Time
        /\ old.family \in Id
    BY <1>3, <1>4, <1>5, <1>8 DEF Time
  <2> HIDE DEF f, old
  <2> QED BY <1>3, <2>1, RotatedToken
<1> HIDE DEF tok, f, h
<1>13. TokenLinks(e, tok)
  BY <1>3, <1>7, <1>8, <1>9, <1>10, <1>11 DEF TokenLinks
<1>14. TokenGood(e, tok)
  BY <1>6, <1>9, <1>11 DEF TokenGood, UserNow, UserActive, ClientNow, Steady
<1>15. TokenLine(e, tok)
  BY <1>11 DEF TokenLine
<1>16. Granted(e, tok.user, tok.client, {})
  <2>1. Granted(db, f.user, c, {})
    BY <1>4, FineNow, ConsentGranted DEF Sound
  <2> QED BY <1>9, <1>11, <2>1 DEF Granted
<1>17. Leads(e, h, now, {})
  <2>1. Fine(e, now, {}) /\ tok.grant # "authorization_code"
    BY <1>9, <1>11 DEF Leads
  <2> QED BY <1>12, <1>13, <1>14, <1>15, <1>16, <2>1, AddTokenLeads DEF h
<1>18. Leads(h, PruneOIDCState(h, now), now, {})
  <2>1. Fine(h, now, {})
    BY <1>17 DEF Leads
  <2> QED BY <1>8, <2>1, PrunedLeads
<1>19. Leads(db, PruneOIDCState(h, now), now, {})
  <2>1. Sound(db)
    BY FineNow
  <2>2. Leads(db, h, now, {})
    BY <1>9, <1>17, <2>1, LeadsTwice
  <2> QED BY <1>18, <2>1, <2>2, LeadsTwice
<1> QED BY <1>2, <1>19 DEF Goes

\* The password and client-credentials grants.
LEMMA IssueResourceTokenGoes ==
    ASSUME GInv, NEW c \in Clients, NEW grant \in {"password", "client_credentials"},
           NEW u \in Users \cup {0}, NEW cred \in Nat, NEW snap,
           grant = "password" <=> u # 0,
           IssueResourceToken(c, grant, u, cred, snap)
    PROVE  Goes
<1> DEFINE tok == [op |-> 0, app |-> 0, family |-> 0, code |-> 0, client |-> c, user |-> u,
                   grant |-> grant, scopes |-> {}, rev |-> db.clients[c].rev,
                   exp |-> now + AccessTokenTTL, revoked |-> FALSE, cred |-> cred,
                   snap |-> snap]
           h   == AddToken(db, tok)
<1>1. MayIssue(c, grant, u, cred, snap) /\ db' = PruneOIDCState(h, now)
  BY DEF IssueResourceToken
<1>2. /\ c \in DOMAIN db.clients /\ db.clients[c].rev = snap /\ snap \in Nat
      /\ grant \in db.policy[c]
      /\ grant = "password" => UserNow(db, u, cred) /\ db.access[u]
  <2>1. c \in DOMAIN db.clients /\ db.clients[c].rev = snap
    BY <1>1 DEF MayIssue
  <2>2. db.clients[c] \in Client
    BY <2>1, FineNow DEF Sound, StoreOK, IsMap
  <2> QED BY <1>1, <2>1, <2>2 DEF MayIssue, UserNow, Client
<1>3. tok \in AccessToken
  <2>1. now \in Nat
    BY FineNow
  <2> QED BY <1>2, <2>1, Lifetimes DEF AccessToken, Id, Time
<1>4. /\ tok.op = 0 /\ tok.family = 0 /\ tok.code = 0 /\ tok.client = c /\ tok.user = u
      /\ tok.grant = grant /\ tok.rev = snap /\ tok.cred = cred /\ tok.snap = snap
  BY <1>2
<1> HIDE DEF tok, h
<1>5. TokenLinks(db, tok) /\ TokenLine(db, tok)
  BY <1>4 DEF TokenLinks, TokenLine
<1>6. TokenGood(db, tok)
  BY <1>2, <1>4 DEF TokenGood, ClientNow
<1>7. tok.grant = "password" \/ Granted(db, tok.user, tok.client, {})
  <2>1. CASE u = 0
    <3>1. \A w \in DOMAIN db.consents : w[1] \in Users
      BY FineNow DEF Sound, StoreOK, IsMap
    <3> QED BY <1>4, <2>1, <3>1, ProviderAssumption DEF Granted, ProviderAssumption
  <2>2. CASE u # 0
    BY <1>4, <2>2
  <2> QED BY <2>1, <2>2
<1>8. Leads(db, h, now, {})
  <2>1. Fine(db, now, {}) /\ tok.grant # "authorization_code"
    BY <1>4, FineNow
  <2> QED BY <1>3, <1>5, <1>6, <1>7, <2>1, AddTokenLeads DEF h
<1>9. Leads(h, PruneOIDCState(h, now), now, {})
  <2>1. Fine(h, now, {}) /\ now \in Nat \ {0}
    BY <1>8, FineNow DEF Leads
  <2> QED BY <2>1, PrunedLeads
<1>10. Leads(db, PruneOIDCState(h, now), now, {})
  BY <1>8, <1>9, FineNow, LeadsTwice
<1> QED BY <1>1, <1>10 DEF Goes

\* Every token step.
LEMMA TokenStepGoes == ASSUME GInv, TokenStep PROVE Goes
<1>1. PICK c \in Clients : \E snap \in ReadRevs(c) : TokenRequest(c, snap)
  BY DEF TokenStep
<1>2. PICK snap \in ReadRevs(c) : TokenRequest(c, snap)
  BY <1>1
<1>3. ASSUME NEW u \in Users, NEW cred \in Creds(u),
             IssueResourceToken(c, "password", u, cred, snap)
      PROVE  Goes
  <2>1. cred \in Nat /\ u # 0
    BY ProviderAssumption DEF Creds, GInv, Inv, Sound, StoreOK, IsMap, User, ProviderAssumption
  <2> QED BY <1>3, <2>1, IssueResourceTokenGoes
<1>4. ASSUME IssueResourceToken(c, "client_credentials", 0, 0, snap) PROVE Goes
  BY <1>4, IssueResourceTokenGoes
<1>5. ASSUME NEW r, NEW scopes \in SUBSET Scopes, Rotate(r, c, snap, scopes) PROVE Goes
  BY <1>5, RotateGoes
<1>6. ASSUME NEW k, ExchangeCode(k, c, snap) PROVE Goes
  BY <1>6, ExchangeCodeGoes
<1>7. ASSUME NEW x, \/ ReplayCode(x, c, snap) \/ ReplayRefresh(x, c, snap)
                    \/ RevokeToken(x, c, snap) \/ RevokeRefresh(x, c, snap)
      PROVE  Goes
  BY <1>7, RevokingGoes
<1> QED BY <1>2, <1>3, <1>4, <1>5, <1>6, <1>7 DEF TokenRequest

\* Every step of the activity page.
LEMMA ActivityStepGoes == ASSUME GInv, ActivityStep PROVE Goes
BY RevokingGoes, RevokeActiveGoes, RevokeActiveConsentGoes DEF ActivityStep

(***************************************************************************)
(* The invariant.                                                          *)
(***************************************************************************)
\* Time passes: what had expired still has.
LEMMA LaterKept ==
    ASSUME NEW d, Sound(d), NEW t \in Nat, Kept(d, t, {})
    PROVE  Kept(d, t + 1, {})
<1>1. /\ \A k \in DOMAIN d.codes : d.codes[k].exp \in Nat
      /\ \A k \in DOMAIN d.tokens : d.tokens[k].exp \in Nat
  BY Records DEF Sound, AuthorizationCode, AccessToken, Time
<1>2. /\ \A k \in DOMAIN d.codes : d.codes[k].exp <= t => d.codes[k].exp <= t + 1
      /\ \A k \in DOMAIN d.tokens : d.tokens[k].exp <= t => d.tokens[k].exp <= t + 1
  BY <1>1
<1>3. ASSUME NEW w \in DOMAIN d.consents, WithdrawnAt(d, t, w) PROVE WithdrawnAt(d, t + 1, w)
  BY <1>2, <1>3 DEF WithdrawnAt
<1> QED BY <1>3 DEF Kept, Withdrawn

\* The first state has no record but the accounts and the clients.
LEMMA InitGInv == Init => GInv
<1> SUFFICES ASSUME Init PROVE Kept(db, now, {})
  BY InitInv DEF GInv
<1>1. /\ db.sessions = <<>> /\ db.apps = <<>> /\ db.txns = <<>> /\ db.codes = <<>>
      /\ db.tokens = <<>> /\ db.families = <<>> /\ db.refresh = <<>> /\ db.consents = <<>>
  BY DEF Init
<1>2. DOMAIN <<>> = {}
  OBVIOUS
<1>3. Links(db)
  BY <1>1, <1>2 DEF Links
<1>4. Good(db)
  BY <1>1, <1>2 DEF Good
<1>5. Lines(db)
  BY <1>1, <1>2 DEF Lines
<1>6. AllDrawn(db)
  BY <1>1, <1>2 DEF AllDrawn
<1>7. Withdrawn(db, now, {})
  BY <1>1, <1>2 DEF Withdrawn
<1> QED BY <1>3, <1>4, <1>5, <1>6, <1>7 DEF Kept

\* Every step keeps the invariant, and only adds records or moves them on.
LEMMA StepGInv ==
    ASSUME GInv, [Next]_vars
    PROVE  GInv' /\ Follows(db, db')
<1>0. Inv'
  BY StepInv DEF GInv
<1>1. CASE SessionStep \/ AuthorizeStep \/ TokenStep \/ AdminStep \/ ActivityStep
  <2>1. now' = now
    BY <1>1, ClockStands
  <2>2. Goes
    BY <1>1, SessionStepGoes, AuthorizeStepGoes, TokenStepGoes, AdminStepGoes, ActivityStepGoes
  <2>3. Kept(db', now, {}) /\ Follows(db, db')
    BY <2>2 DEF Goes, Leads, Fine
  <2> QED BY <1>0, <2>1, <2>3 DEF GInv
<1>2. Leads(db, db, now, {})
  BY FineNow, WithersSelf, WithersLeads
<1>3. CASE Tick
  <2>1. db' = db /\ now' = now + 1
    BY <1>3 DEF Tick
  <2>2. Kept(db, now + 1, {})
    BY FineNow, LaterKept DEF GInv
  <2> QED BY <1>0, <1>2, <2>1, <2>2 DEF GInv, Leads
<1>4. CASE UNCHANGED vars
  BY <1>0, <1>2, <1>4 DEF vars, GInv, Leads
<1> QED BY <1>1, <1>3, <1>4 DEF Next

\* The invariant holds of every reachable state.
LEMMA GInvHolds == Spec => []GInv
BY InitGInv, StepGInv, PTL DEF Spec

(***************************************************************************)
(* What was issued can be used only while what it rests on stands.         *)
(***************************************************************************)
\* Signing out, everywhere or through one application, leaves no code and no
\* online access token usable, whatever exchanges were under way.
THEOREM LogoutEndsGrants == Spec => []LogoutEndsOnlineGrants
<1>1. GInv => LogoutEndsOnlineGrants
  <2> SUFFICES ASSUME GInv PROVE LogoutEndsOnlineGrants
    OBVIOUS
  <2>1. \A k \in DOMAIN db.codes : CodeLinks(db, db.codes[k])
    BY DEF GInv, Kept, Links
  <2>2. ASSUME NEW k \in DOMAIN db.tokens, ~db.tokens[k].revoked, db.tokens[k].op # 0,
               db.tokens[k].family = 0
        PROVE  OpenApp(db.tokens[k].app) /\ OpenSession(db, db.tokens[k].op)
    <3>1. TokenLinks(db, db.tokens[k])
      BY DEF GInv, Kept, Links
    <3>2. Lineage(db)
      BY FineNow DEF Sound
    <3> QED BY <2>2, <3>1, <3>2 DEF TokenLinks, OpenApp, Lineage
  <2> QED BY <2>1, <2>2 DEF LogoutEndsOnlineGrants, CodeLinks
<1> QED BY <1>1, GInvHolds, PTL

\* Revoking a refresh family reaches every access token of it, and pruning
\* never drops the family before the last of them.
THEOREM FamilyOutlives == Spec => []FamilyOutlivesTokens
<1>1. GInv => FamilyOutlivesTokens
  BY DEF GInv, Kept, Links, TokenLinks, FamilyOutlivesTokens
<1> QED BY <1>1, GInvHolds, PTL

\* A consumed code is kept as long as a token that descends from it is usable:
\* the replay that must revoke the token is always recognised.
THEOREM ReplayRecognised == Spec => []ReplayEvidence
<1>1. GInv => ReplayEvidence
  BY DEF GInv, Kept, Links, TokenLinks, ReplayEvidence
<1> QED BY <1>1, GInvHolds, PTL

\* A refresh family has exactly one refresh token in circulation, through
\* rotations, replays, revocations and pruning.
THEOREM OneRefreshToken == Spec => []OneLiveRefreshToken
<1>1. GInv => OneLiveRefreshToken
  <2> SUFFICES ASSUME GInv, NEW f \in DOMAIN db.families
               PROVE  \E r \in DOMAIN db.refresh :
                          /\ db.refresh[r].family = f
                          /\ ~db.refresh[r].consumed
                          /\ \A q \in DOMAIN db.refresh :
                                db.refresh[q].family = f /\ ~db.refresh[q].consumed => q = r
    BY DEF OneLiveRefreshToken
  <2>1. PICK r : Turn(db, f, r)
    BY DEF GInv, Kept, Links
  <2> QED BY <2>1 DEF Turn
<1> QED BY <1>1, GInvHolds, PTL

\* A code is exchanged once and a request answered with one code, however the
\* exchanges and continuations interleave.
THEOREM MintedOnceHolds == Spec => []MintedOnce
<1>1. GInv => MintedOnce
  <2> SUFFICES ASSUME GInv PROVE MintedOnce
    OBVIOUS
  <2>1. Lines(db)
    BY DEF GInv, Kept
  <2>2. \A g, h : {g, h} = {"authorization_code"} =>
                     g = "authorization_code" /\ h = "authorization_code"
    OBVIOUS
  <2> QED BY <2>1, <2>2 DEF Lines, MintedOnce
<1> QED BY <1>1, GInvHolds, PTL

\* Once the user or an administrator withdraws a consent, nothing issued to the
\* client through it can be used, and nothing that can be is issued until the
\* user consents again.
THEOREM ConsentWithdrawn == Spec => []WithdrawnConsent
<1>1. GInv => WithdrawnConsent
  <2> SUFFICES ASSUME GInv, NEW w \in DOMAIN db.consents, db.consents[w].revoked
               PROVE  LET mine(m) == {x \in DOMAIN m : m[x].user = w[1] /\ m[x].client = w[2]} IN
                      /\ \A f \in mine(db.families) : db.families[f].revoked
                      /\ ActiveCodes(db, mine(db.codes)) = {}
                      /\ \A k \in mine(db.tokens) :
                            \/ db.tokens[k].revoked \/ db.tokens[k].exp <= now
                            \/ db.tokens[k].grant = "password"
    BY DEF WithdrawnConsent
  <2>1. WithdrawnAt(db, now, w)
    BY DEF GInv, Kept, Withdrawn
  <2>2. now \in Nat /\ \A k \in DOMAIN db.codes : db.codes[k].exp \in Nat
    BY FineNow, Records DEF Sound, AuthorizationCode, Time
  <2>3. \A k \in DOMAIN db.codes : db.codes[k].exp <= now => ~(now < db.codes[k].exp)
    BY <2>2
  <2> QED BY <2>1, <2>3 DEF WithdrawnAt, ActiveCodes
<1> QED BY <1>1, GInvHolds, PTL

\* Nothing that can be used was issued on an account, a password, an e-mail
\* address or a client registration that has since changed.
THEOREM GrantsAreCurrent == Spec => []GrantsCurrent
<1>1. GInv => GrantsCurrent
  <2> SUFFICES ASSUME GInv PROVE GrantsCurrent
    OBVIOUS
  <2>1. Good(db)
    BY DEF GInv, Kept
  <2>2. /\ \A u, cred : UserNow(db, u, cred) => CurrentUser(u, cred)
        /\ \A c, rev : ClientNow(db, c, rev) => CurrentClient(c, rev)
    BY DEF UserNow, ClientNow, CurrentUser, CurrentClient
  <2>3. \A h \in DOMAIN db.sessions : SessionGood(db, db.sessions[h])
    BY <2>1 DEF Good
  <2>4. \A k \in DOMAIN db.codes : CodeGood(db, db.codes[k])
    BY <2>1 DEF Good
  <2>5. \A f \in DOMAIN db.families : FamilyGood(db, db.families[f])
    BY <2>1 DEF Good
  <2>6. \A k \in DOMAIN db.tokens : TokenGood(db, db.tokens[k])
    BY <2>1 DEF Good
  <2> QED BY <2>2, <2>3, <2>4, <2>5, <2>6
          DEF GrantsCurrent, SessionGood, CodeGood, FamilyGood, TokenGood
<1> QED BY <1>1, GInvHolds, PTL

\* A client's policy, or an account's entitlement, when narrowed also cuts off
\* what was issued under it.
THEOREM PolicyCuts == Spec => []PolicyCut
<1>1. GInv => PolicyCut
  BY DEF GInv, Kept, Good, FamilyGood, TokenGood, PolicyCut
<1> QED BY <1>1, GInvHolds, PTL

\* A code answers its request: for the user who claimed it first, within its
\* scopes, with a sign-in as recent as the request asked for.
THEOREM CodeAnswers == Spec => []CodeAnswersRequest
<1>1. GInv => CodeAnswersRequest
  BY DEF GInv, Kept, Lines, CodeLine, Answers, CodeAnswersRequest
<1> QED BY <1>1, GInvHolds, PTL

(***************************************************************************)
(* What no step does.                                                      *)
(***************************************************************************)
\* Keys already in use are below the counters.
LEMMA DrawnKeys ==
    ASSUME GInv
    PROVE  /\ \A x \in DOMAIN db.sessions : ~(x >= db.next["session"])
           /\ \A x \in DOMAIN db.apps : ~(x >= db.next["app"])
           /\ \A x \in DOMAIN db.txns : ~(x >= db.next["txn"])
           /\ \A x \in DOMAIN db.codes : ~(x >= db.next["code"])
           /\ \A x \in DOMAIN db.tokens : ~(x >= db.next["token"])
           /\ \A x \in DOMAIN db.families : ~(x >= db.next["family"])
           /\ \A x \in DOMAIN db.refresh : ~(x >= db.next["refresh"])
<1>1. AllDrawn(db) /\ StoreOK(db)
  BY FineNow DEF GInv, Kept, Sound
<1>2. /\ \A kind \in Kinds : db.next[kind] \in Nat
      /\ \A x \in DOMAIN db.sessions \cup DOMAIN db.apps \cup DOMAIN db.txns
                  \cup DOMAIN db.codes \cup DOMAIN db.tokens
                  \cup DOMAIN db.families \cup DOMAIN db.refresh : x \in Nat
      /\ {"session", "app", "txn", "code", "token", "family", "refresh"} \subseteq Kinds
  BY <1>1, Counters
<1> QED BY <1>1, <1>2 DEF AllDrawn

\* A record that is ended, revoked or consumed stays so: no handler saves over
\* it what it read before.
THEOREM FinalStates == Spec => FinalStatesStay
<1>1. GInv /\ [Next]_vars =>
       [/\ \A h \in DOMAIN db.sessions \cap DOMAIN db'.sessions :
             db.sessions[h].ended # 0 => db'.sessions[h] = db.sessions[h]
        /\ \A a \in DOMAIN db.apps \cap DOMAIN db'.apps :
             db.apps[a].ended # 0 => db'.apps[a] = db.apps[a]
        /\ \A x \in DOMAIN db.txns \cap DOMAIN db'.txns :
             /\ db.txns[x].revoked => db'.txns[x].revoked
             /\ db.txns[x].consumed => db'.txns[x].consumed
        /\ \A k \in DOMAIN db.codes \cap DOMAIN db'.codes :
             /\ db.codes[k].revoked => db'.codes[k].revoked
             /\ db.codes[k].consumed => db'.codes[k].consumed
        /\ \A k \in DOMAIN db.tokens \cap DOMAIN db'.tokens :
             db.tokens[k].revoked => db'.tokens[k].revoked
        /\ \A f \in DOMAIN db.families \cap DOMAIN db'.families :
             db.families[f].revoked => db'.families[f].revoked
        /\ \A r \in DOMAIN db.refresh \cap DOMAIN db'.refresh :
             db.refresh[r].consumed => db'.refresh[r].consumed]_vars
  <2> SUFFICES ASSUME GInv, [Next]_vars
      PROVE  /\ \A h \in DOMAIN db.sessions \cap DOMAIN db'.sessions :
                  db.sessions[h].ended # 0 => db'.sessions[h] = db.sessions[h]
             /\ \A a \in DOMAIN db.apps \cap DOMAIN db'.apps :
                  db.apps[a].ended # 0 => db'.apps[a] = db.apps[a]
             /\ \A x \in DOMAIN db.txns \cap DOMAIN db'.txns :
                  /\ db.txns[x].revoked => db'.txns[x].revoked
                  /\ db.txns[x].consumed => db'.txns[x].consumed
             /\ \A k \in DOMAIN db.codes \cap DOMAIN db'.codes :
                  /\ db.codes[k].revoked => db'.codes[k].revoked
                  /\ db.codes[k].consumed => db'.codes[k].consumed
             /\ \A k \in DOMAIN db.tokens \cap DOMAIN db'.tokens :
                  db.tokens[k].revoked => db'.tokens[k].revoked
             /\ \A f \in DOMAIN db.families \cap DOMAIN db'.families :
                  db.families[f].revoked => db'.families[f].revoked
             /\ \A r \in DOMAIN db.refresh \cap DOMAIN db'.refresh :
                  db.refresh[r].consumed => db'.refresh[r].consumed
    OBVIOUS
  <2>1. Follows(db, db')
    BY StepGInv
  <2>2. \A h \in DOMAIN db.sessions \cap DOMAIN db'.sessions :
           db.sessions[h].ended # 0 => db'.sessions[h] = db.sessions[h]
    BY <2>1, DrawnKeys DEF Follows, EndFollows
  <2>3. \A a \in DOMAIN db.apps \cap DOMAIN db'.apps :
           db.apps[a].ended # 0 => db'.apps[a] = db.apps[a]
    BY <2>1, DrawnKeys DEF Follows, EndFollows
  <2>4. \A x \in DOMAIN db.txns \cap DOMAIN db'.txns :
           /\ db.txns[x].revoked => db'.txns[x].revoked
           /\ db.txns[x].consumed => db'.txns[x].consumed
    BY <2>1, DrawnKeys DEF Follows, RevokedFollows, ConsumedFollows
  <2>5. \A k \in DOMAIN db.codes \cap DOMAIN db'.codes :
           /\ db.codes[k].revoked => db'.codes[k].revoked
           /\ db.codes[k].consumed => db'.codes[k].consumed
    BY <2>1, DrawnKeys DEF Follows, RevokedFollows, ConsumedFollows
  <2>6. \A k \in DOMAIN db.tokens \cap DOMAIN db'.tokens :
           db.tokens[k].revoked => db'.tokens[k].revoked
    BY <2>1, DrawnKeys DEF Follows, RevokedFollows
  <2>7. \A f \in DOMAIN db.families \cap DOMAIN db'.families :
           db.families[f].revoked => db'.families[f].revoked
    BY <2>1, DrawnKeys DEF Follows, RevokedFollows
  <2>8. \A r \in DOMAIN db.refresh \cap DOMAIN db'.refresh :
           db.refresh[r].consumed => db'.refresh[r].consumed
    BY <2>1, DrawnKeys DEF Follows, RefreshFollows
  <2> QED BY <2>2, <2>3, <2>4, <2>5, <2>6, <2>7, <2>8
<1> QED BY <1>1, GInvHolds, PTL DEF Spec, FinalStatesStay

\* A request once claimed stays the claimant's.
THEOREM ClaimIsKept == Spec => ClaimKept
<1>1. GInv /\ [Next]_vars =>
          [\A x \in DOMAIN db.txns \cap DOMAIN db'.txns :
              db.txns[x].user # 0 => db'.txns[x].user = db.txns[x].user]_vars
  BY StepGInv, DrawnKeys DEF Follows, ClaimFollows
<1> QED BY <1>1, GInvHolds, PTL DEF Spec, ClaimKept

\* A rotation may narrow the scopes, and no later rotation gets them back.
THEOREM ScopesNarrow == Spec => ScopesNeverWiden
<1>1. GInv /\ [Next]_vars =>
          [\A r \in DOMAIN db.refresh, q \in DOMAIN db'.refresh :
              /\ ~db.refresh[r].consumed /\ ~db'.refresh[q].consumed
              /\ db.refresh[r].family = db'.refresh[q].family
              => db'.refresh[q].scopes \subseteq db.refresh[r].scopes]_vars
  <2> SUFFICES ASSUME GInv, [Next]_vars,
                      NEW r \in DOMAIN db.refresh, NEW q \in DOMAIN db'.refresh,
                      ~db.refresh[r].consumed, ~db'.refresh[q].consumed,
                      db.refresh[r].family = db'.refresh[q].family
               PROVE  db'.refresh[q].scopes \subseteq db.refresh[r].scopes
    OBVIOUS
  <2>1. RefreshFollows(db.refresh, db'.refresh, db.next["refresh"], db.next["family"])
    BY StepGInv DEF Follows
  <2>2. db.refresh[r].family \in DOMAIN db.families
    BY DEF GInv, Kept, Links
  <2>3. ~(db'.refresh[q].family >= db.next["family"])
    BY <2>2, DrawnKeys
  <2>4. \A p \in DOMAIN db.refresh :
           db.refresh[p].family = db.refresh[r].family /\ ~db.refresh[p].consumed => p = r
    <3>1. PICK s : Turn(db, db.refresh[r].family, s)
      BY <2>2 DEF GInv, Kept, Links
    <3> QED BY <3>1 DEF Turn
  <2> QED BY <2>1, <2>3, <2>4 DEF RefreshFollows
<1> QED BY <1>1, GInvHolds, PTL DEF Spec, ScopesNeverWiden
=============================================================================
