------------------------- MODULE SiteConfig_proofs -------------------------
(***************************************************************************)
(* Safety of SiteConfig for every set of sites, hosts, calls and callers:  *)
(* what is published is sound and serves the management hosts, an address  *)
(* is marked only when it is denied, and a rename leaves nothing behind.   *)
(*                                                                         *)
(* The compiler's part is about any snapshot whose hosts are distinct; the *)
(* rest is an invariant, Inv, of the documents and of each call: what it   *)
(* has read and what its plan has still to write. Owned adds whose profile *)
(* denies. The order below is that of the code: compiler, invariant,       *)
(* sequences, stores, calls, bans, profiles, rename, auto-apply, initial   *)
(* state, theorems.                                                        *)
(***************************************************************************)
EXTENDS SiteConfig, FiniteSetTheorems, TLAPS

(***************************************************************************)
(* The compiler: what a bundle that compiles has, for every snapshot.      *)
(***************************************************************************)

\* No two sites of a document share a host.
HostsUnique(t) == \A x, y \in DOMAIN t : t[x].host = t[y].host => x = y

\* A bundle that is a record has a compiled snapshot behind it.
Compiled(s) ==
  /\ mapTLSInputs(s) /\ normalizeInputs(s) /\ RenderTLSArtifacts(s)
  /\ AssembleRevisionBundle(s) /\ validateManagementSafeguard(s)
Bundle(s) ==
  [sites |-> [i \in EnabledSites(s) |-> RenderSite(s, i)],
   files |-> (BoundCertificates(s) \cup ClientCAs(s)) \cap s.materials,
   hosts |-> IF s.management.migrated THEN s.management.hosts ELSE {},
   blockDirectIP |-> s.management.block]
\* compileBundle either yields the bundle of a compiled snapshot or refuses.
LEMMA CompiledBundle ==
  ASSUME NEW s
  PROVE  /\ Compiled(s) => compileBundle(s) = Bundle(s)
         /\ compileBundle(s) # Refused => Compiled(s)
BY DEF Compiled, Bundle, compileBundle

\* The fields of a rendered site.
LEMMA RenderedSite ==
  ASSUME NEW s, NEW i
  PROVE  /\ RenderSite(s, i).host = s.sites[i].host
         /\ RenderSite(s, i).upstream = DefaultUpstream(s, i)
         /\ RenderSite(s, i).certificate = IF i \in DOMAIN s.tls THEN s.tls[i] ELSE None
         /\ RenderSite(s, i).management = isManagementSite(s, i)
         /\ RenderSite(s, i).access = RenderAccess(s, i)
         /\ RenderSite(s, i).easy = renderEasySiteArtifacts(s, i)
BY DEF RenderSite, mapSiteUpstreamInputs

\* The sites of a bundle are sound when the snapshot's hosts are distinct.
SoundBundle(b) ==
  /\ \A i \in DOMAIN b.sites :
       /\ b.sites[i].upstream # None
       /\ b.sites[i].certificate # None => b.sites[i].certificate \in b.files
  /\ \A i, j \in DOMAIN b.sites : i # j =>
       /\ b.sites[i].host # b.sites[j].host /\ b.sites[i].upstream # b.sites[j].upstream
       /\ b.sites[i].certificate # None => b.sites[i].certificate # b.sites[j].certificate
LEMMA CompiledSound ==
  ASSUME NEW s, Compiled(s), HostsUnique(s.sites)
  PROVE  SoundBundle(Bundle(s))
<1> DEFINE b == Bundle(s)
<1>0. /\ b.sites = [i \in EnabledSites(s) |-> RenderSite(s, i)]
      /\ b.files = (BoundCertificates(s) \cup ClientCAs(s)) \cap s.materials
  BY DEF Bundle
<1>1. /\ DOMAIN b.sites = EnabledSites(s)
      /\ \A i \in EnabledSites(s) : b.sites[i] = RenderSite(s, i)
  BY <1>0
<1> HIDE DEF b
<1>2. ASSUME NEW i \in EnabledSites(s)
      PROVE  /\ b.sites[i].host = s.sites[i].host
             /\ b.sites[i].upstream = DefaultUpstream(s, i)
             /\ b.sites[i].certificate = IF i \in DOMAIN s.tls THEN s.tls[i] ELSE None
  BY <1>1, RenderedSite
<1>3. ASSUME NEW i \in EnabledSites(s)
      PROVE  /\ DefaultUpstream(s, i) # None
             /\ s.upstreams[DefaultUpstream(s, i)].site = i
  BY DEF Compiled, normalizeInputs
<1>4. ASSUME NEW i \in EnabledSites(s), i \in DOMAIN s.tls
      PROVE  s.tls[i] \in b.files
  BY <1>0, <1>4 DEF Compiled, mapTLSInputs, BoundCertificates
<1>5. ASSUME NEW i \in EnabledSites(s)
      PROVE  /\ b.sites[i].upstream # None
             /\ b.sites[i].certificate # None => b.sites[i].certificate \in b.files
  BY <1>2, <1>3, <1>4
<1>6. ASSUME NEW i \in EnabledSites(s), NEW j \in EnabledSites(s), i # j
      PROVE  /\ b.sites[i].host # b.sites[j].host /\ b.sites[i].upstream # b.sites[j].upstream
             /\ b.sites[i].certificate # None => b.sites[i].certificate # b.sites[j].certificate
  <2>1. b.sites[i].host # b.sites[j].host
    BY <1>2, <1>6 DEF HostsUnique, EnabledSites
  <2>2. b.sites[i].upstream # b.sites[j].upstream
    BY <1>2, <1>3, <1>6
  <2>3. b.sites[i].certificate # None => b.sites[i].certificate # b.sites[j].certificate
    BY <1>2, <1>6 DEF Compiled, RenderTLSArtifacts
  <2> QED  BY <2>1, <2>2, <2>3
<1> QED  BY <1>1, <1>5, <1>6 DEF SoundBundle, b

\* A bundle serves the management hosts it names.
ServingBundle(b) ==
  \A h \in b.hosts : \E i \in DOMAIN b.sites :
    b.sites[i].host = h /\ b.sites[i].management /\ b.sites[i].access = "allow"
    /\ ~b.sites[i].easy.modsecurity
LEMMA CompiledServing ==
  ASSUME NEW s, Compiled(s)
  PROVE  ServingBundle(Bundle(s))
<1> DEFINE b == Bundle(s)
<1>0. /\ b.sites = [i \in EnabledSites(s) |-> RenderSite(s, i)]
      /\ b.hosts = IF s.management.migrated THEN s.management.hosts ELSE {}
  BY DEF Bundle
<1>1. /\ DOMAIN b.sites = EnabledSites(s)
      /\ \A i \in EnabledSites(s) : b.sites[i] = RenderSite(s, i)
  BY <1>0
<1> HIDE DEF b
<1>2. SUFFICES ASSUME NEW h \in b.hosts
               PROVE  \E i \in DOMAIN b.sites :
                        /\ b.sites[i].host = h /\ b.sites[i].management
                        /\ b.sites[i].access = "allow" /\ ~b.sites[i].easy.modsecurity
  BY DEF ServingBundle, b
<1>3. s.management.migrated /\ h \in s.management.hosts
  BY <1>0
<1>4. PICK i \in EnabledSites(s) : s.sites[i].host = h
  BY <1>3 DEF Compiled, validateManagementSafeguard
<1>5. isManagementSite(s, i)
  BY <1>3, <1>4 DEF isManagementSite
<1>6. RenderAccess(s, i) = "allow"
  BY <1>5 DEF RenderAccess
<1>7. ~renderEasySiteArtifacts(s, i).modsecurity
  BY <1>5 DEF renderEasySiteArtifacts, applySecurityModePolicy
<1> QED  BY <1>1, <1>4, <1>5, <1>6, <1>7, RenderedSite

(***************************************************************************)
(* The inductive invariant. A call is c, the documents d, the history of   *)
(* writes w: the lemmas below are about values, not about states.          *)
(***************************************************************************)

\* The documents that are functions, by what their records say of the site:
\* a field, or the key.
SiteKinds == {"upstreams", "waf", "access", "rate", "patches"}
KeyKinds == {"tls", "easy"}
MovedKinds == SiteKinds \cup KeyKinds
Documents == MovedKinds \cup {"sites", "certificates", "materials", "management", "antiddos"}

\* A document lists finitely many ids, and its records have the
\* fields the steps below change.
DocumentOK(kind, t) ==
  /\ kind \in SiteKinds \cup {"sites"} => IsFiniteSet(DOMAIN t)
  /\ kind \in SiteKinds => \A x \in DOMAIN t : "site" \in DOMAIN t[x]
  /\ kind = "access" => \A x \in DOMAIN t : "deny" \in DOMAIN t[x]
\* Two access policies of a site are its own and its easy one.
Paired(t) ==
  \A x, y \in DOMAIN t : x # y /\ t[x].site = t[y].site => isEasyCompatibilityPair(t[x].site, x, y)
DocumentsOK(d) ==
  /\ DOMAIN d = Documents /\ HostsUnique(d["sites"]) /\ Paired(d["access"])
  /\ \A kind \in Documents : DocumentOK(kind, d[kind])

\* The fields of a call; what a call that needs it has read, as it was stored.
Fields == {"pc", "op", "site", "id", "val", "reads", "got", "plan", "ask"}
IsSeq(q) == q \in Seq({q[k] : k \in DOMAIN q})
Elements(q) == {q[k] : k \in DOMAIN q}
ReadOK(c) ==
  c.pc = "read" /\ c.op \in {"site.rename", "bans.sync"} =>
    /\ IsSeq(c.reads) /\ Elements(c.reads) \subseteq Documents
    /\ Elements(ReadsOf[c.op]) \subseteq Elements(c.reads) \cup DOMAIN c.got
    /\ \A kind \in DOMAIN c.got : DocumentOK(kind, c.got[kind])
\* The sites are read first, in one piece.
SnapshotOK(c) ==
  c.pc = "snapshot" =>
    \/ c.reads = SnapshotReads
    \/ /\ IsSeq(c.reads) /\ "sites" \notin Elements(c.reads)
       /\ "sites" \in DOMAIN c.got /\ HostsUnique(c.got["sites"])

\* The steps of a plan: only the ban synchronisation marks, and a record that
\* is written has the fields of its document.
StepOK(op, o) ==
  /\ o.kind = "ban" /\ o.do = "mark" => op = "bans.sync"
  /\ o.kind \in SiteKinds /\ o.do \in {"create", "update"} => "site" \in DOMAIN o.val
  /\ o.kind = "access" /\ o.do \in {"create", "update"} => "deny" \in DOMAIN o.val
StepsOK(op, q) == IsSeq(q) /\ \A k \in DOMAIN q : StepOK(op, q[k])
PlanOK(c) == c.pc = "write" => StepsOK(c.op, c.plan)

\* The ban synchronisation: each site it has read is still to be resolved, or
\* the site it resolves to is about to be looked at or written, or denies,
\* unless another call has interfered. Chosen: the policy findBySite takes is
\* the one that is rendered, or comes before it by id.
Interfered(p, w) == \E t \in w : t[1] \in {"access", "sites"} /\ t[3] = p
Chosen(t, i, x) ==
  /\ x \in PolicyFor(t, i)
  /\ \/ x[1] = "own" \/ PolicyFor(t, i) = {x}
     \/ i \in EasyFirst /\ x = EasyId(i) /\ {PolicyId(i), EasyId(i)} \subseteq PolicyFor(t, i)
Denies(t, i) == \E x \in DOMAIN t : Chosen(t, i, x) /\ t[x].deny
BanPending(q, s) == \E k \in DOMAIN q : q[k].kind = "ban" /\ q[k].do = "resolve" /\ q[k].id = s
BanLooks(o, i) == o.kind = "ban" /\ o.do = "find" /\ o.id = i
BanWrite(o, t, i) ==
  /\ o.kind = "access" /\ o.val.site = i /\ o.val.deny
  /\ (o.do = "create" /\ o.id = PolicyId(i)) \/ (o.do = "update" /\ Chosen(t, i, o.id))
BanStep(q, k) ==
  \/ q[k].kind = "ban" /\ q[k].do = "resolve" /\ q[k].val = TRUE
  \/ q[k].kind = "ban" /\ q[k].do = "find" /\ q[k].val = TRUE /\ k = 1
  \/ q[k].kind = "ban" /\ q[k].do = "mark" /\ k = Len(q)
  \/ q[k].kind = "access" /\ k = 1
BanOwed(q, t, i) ==
  Denies(t, i) \/ (q # << >> /\ (BanLooks(q[1], i) \/ BanWrite(q[1], t, i)))
BanOK(p, c, d, w) ==
  c.pc = "write" /\ c.op = "bans.sync" =>
    /\ \A k \in DOMAIN c.plan : BanStep(c.plan, k)
    /\ \/ Interfered(p, w)
       \/ /\ \A s \in DOMAIN c.got["sites"] :
               BanPending(c.plan, s) \/ BanOwed(c.plan, d["access"], Resolved(d["sites"], s))
          /\ c.plan # << >> /\ c.plan[1].kind = "access" =>
               BanWrite(c.plan[1], d["access"], c.plan[1].val.site)

\* The rename: each record it has found at the old site is still to be written
\* or has moved, unless another call has written it; nothing of that kind is
\* left when the old site is removed.
Elsewhere(p, w, kind, id) == <<kind, id, p>> \in w
RenameKinds == MovedKinds \cup {"rename", "sites", "certificates", "materials", "management"}
RenameStep(c, q, k) ==
  LET o == q[k] IN
  /\ o.kind \in RenameKinds
  /\ o.kind \in SiteKinds \ {"patches"} => o.do = "update" /\ o.val.site = c.id
  /\ o.kind = "patches" => \/ o.do = "create" /\ o.val.site = c.id
                           \/ /\ o.do = "delete" /\ k + 1 \in DOMAIN q
                              /\ q[k+1].kind = "patches" /\ q[k+1].do = "create" /\ q[k+1].id = o.id
  /\ o.kind \in KeyKinds => \/ o.do = "create" /\ o.id = c.id
                            \/ o.do = "delete" /\ o.id = c.site
  /\ o.kind = "sites" /\ o.do = "delete" => \A m \in DOMAIN q : q[m].kind \in MovedKinds => m < k
Has(q, kind, do, id) == \E k \in DOMAIN q : q[k].kind = kind /\ q[k].do = do /\ q[k].id = id
RecordMoves(p, c, d, w, kind, id) ==
  \/ Elsewhere(p, w, kind, id)
  \/ Has(c.plan, kind, IF kind = "patches" THEN "create" ELSE "update", id)
  \/ id \in DOMAIN d[kind] /\ d[kind][id].site = c.id
KeyMoves(p, c, d, w, kind) ==
  \/ Elsewhere(p, w, kind, c.site) \/ Elsewhere(p, w, kind, c.id)
  \/ /\ Has(c.plan, kind, "create", c.id) \/ c.id \in DOMAIN d[kind]
     /\ Has(c.plan, kind, "delete", c.site) \/ c.site \notin DOMAIN d[kind]
RenameOK(p, c, d, w) ==
  c.pc = "write" /\ c.op = "site.rename" =>
    /\ c.id # c.site
    /\ \A k \in DOMAIN c.plan : RenameStep(c, c.plan, k)
    /\ \A kind \in SiteKinds : \A id \in DOMAIN c.got[kind] :
         c.got[kind][id].site = c.site => RecordMoves(p, c, d, w, kind, id)
    /\ \A kind \in KeyKinds : c.site \in DOMAIN c.got[kind] => KeyMoves(p, c, d, w, kind)

CallOK(p, c, d, w) ==
  /\ DOMAIN c = Fields
  /\ ReadOK(c) /\ SnapshotOK(c) /\ PlanOK(c) /\ BanOK(p, c, d, w) /\ RenameOK(p, c, d, w)
Inv ==
  /\ DocumentsOK(db)
  /\ DOMAIN call = Procs /\ \A p \in Procs : CallOK(p, call[p], db, touched)
  /\ SoundBundle(live) /\ ServingBundle(live)

(***************************************************************************)
(* Sequences and functions.                                                *)
(***************************************************************************)

\* A function on 1..n is a sequence of its values.
LEMMA FunctionIsSeq ==
  ASSUME NEW n \in Nat, NEW S, NEW q \in [1..n -> S]
  PROVE  IsSeq(q) /\ Len(q) = n /\ DOMAIN q = 1..n
<1>1. q \in [1..n -> {q[k] : k \in DOMAIN q}]
  OBVIOUS
<1>2. q \in Seq({q[k] : k \in DOMAIN q}) /\ Len(q) = n /\ DOMAIN q = 1..n
  BY <1>1
<1> QED  BY <1>2 DEF IsSeq

\* A sequence over any set is one over its own elements.
LEMMA SeqIsSeq ==
  ASSUME NEW S, NEW q \in Seq(S)
  PROVE  IsSeq(q)
<1>1. Len(q) \in Nat /\ q \in [1..Len(q) -> S]
  OBVIOUS
<1> QED  BY <1>1, FunctionIsSeq

\* The domain of a sequence.
LEMMA SeqDomain ==
  ASSUME NEW q, IsSeq(q)
  PROVE  Len(q) \in Nat /\ DOMAIN q = 1..Len(q) /\ (q # << >> => 1 \in DOMAIN q)
<1> DEFINE S == {q[k] : k \in DOMAIN q}
<1>1. q \in Seq(S)
  BY DEF IsSeq
<1> HIDE DEF S
<1> QED  BY <1>1

\* The empty plan and plans of one and two steps.
LEMMA ShortSeq ==
  ASSUME NEW a, NEW b
  PROVE  /\ IsSeq(<< >>) /\ DOMAIN << >> = {} /\ Len(<< >>) = 0
         /\ IsSeq(<<a>>) /\ DOMAIN <<a>> = {1} /\ Len(<<a>>) = 1 /\ <<a>>[1] = a
         /\ IsSeq(<<a, b>>) /\ DOMAIN <<a, b>> = {1, 2} /\ Len(<<a, b>>) = 2
         /\ <<a, b>>[1] = a /\ <<a, b>>[2] = b
<1>1. IsSeq(<< >>) /\ DOMAIN << >> = {} /\ Len(<< >>) = 0
  BY DEF IsSeq
<1>2. DOMAIN <<a>> = {1} /\ Len(<<a>>) = 1 /\ <<a>>[1] = a
  OBVIOUS
<1>3. DOMAIN <<a, b>> = {1, 2} /\ Len(<<a, b>>) = 2 /\ <<a, b>>[1] = a /\ <<a, b>>[2] = b
  OBVIOUS
<1>4. <<a>> \in Seq({<<a>>[k] : k \in DOMAIN <<a>>})
  <2>1. {<<a>>[k] : k \in DOMAIN <<a>>} = {a}
    BY <1>2
  <2> QED  BY <2>1
<1>5. <<a, b>> \in Seq({<<a, b>>[k] : k \in DOMAIN <<a, b>>})
  <2>1. {<<a, b>>[k] : k \in DOMAIN <<a, b>>} = {a, b}
    BY <1>3
  <2> QED  BY <2>1
<1> QED  BY <1>1, <1>2, <1>3, <1>4, <1>5 DEF IsSeq

\* The tail of a plan.
LEMMA TailOf ==
  ASSUME NEW q, IsSeq(q), q # << >>
  PROVE  /\ IsSeq(Tail(q)) /\ Head(q) = q[1] /\ Len(q) \in Nat \ {0} /\ Len(Tail(q)) = Len(q) - 1
         /\ DOMAIN Tail(q) = 1..(Len(q) - 1)
         /\ \A k \in 1..(Len(q) - 1) : k + 1 \in DOMAIN q /\ Tail(q)[k] = q[k+1]
<1> DEFINE S == {q[k] : k \in DOMAIN q}
<1>1. q \in Seq(S)
  BY DEF IsSeq
<1> HIDE DEF S
<1>2. /\ Head(q) = q[1] /\ Len(q) \in Nat \ {0} /\ DOMAIN q = 1..Len(q)
  BY <1>1
<1>3. /\ Tail(q) \in Seq(S) /\ Len(Tail(q)) = Len(q) - 1
      /\ DOMAIN Tail(q) = 1..(Len(q) - 1)
      /\ \A k \in 1..(Len(q) - 1) : Tail(q)[k] = q[k+1]
  BY <1>1
<1>4. IsSeq(Tail(q))
  BY <1>3, SeqIsSeq
<1> QED  BY <1>2, <1>3, <1>4

\* Two plans, one after the other.
LEMMA ConcatOf ==
  ASSUME NEW s, NEW t, IsSeq(s), IsSeq(t)
  PROVE  /\ IsSeq(s \o t) /\ Len(s) \in Nat /\ Len(t) \in Nat /\ Len(s \o t) = Len(s) + Len(t)
         /\ DOMAIN s = 1..Len(s) /\ DOMAIN t = 1..Len(t)
         /\ DOMAIN (s \o t) = 1..(Len(s) + Len(t))
         /\ \A k \in 1..(Len(s) + Len(t)) : (s \o t)[k] = IF k <= Len(s) THEN s[k] ELSE t[k - Len(s)]
<1> DEFINE S == {s[k] : k \in DOMAIN s} \cup {t[k] : k \in DOMAIN t}
<1>1. s \in Seq(S) /\ t \in Seq(S)
  <2>1. /\ s \in Seq({s[k] : k \in DOMAIN s})
        /\ t \in Seq({t[k] : k \in DOMAIN t})
    BY DEF IsSeq
  <2> QED  BY <2>1
<1> HIDE DEF S
<1>2. s \o t \in Seq(S)
  BY <1>1
<1>3. /\ Len(s) \in Nat /\ Len(t) \in Nat /\ Len(s \o t) = Len(s) + Len(t)
      /\ DOMAIN s = 1..Len(s) /\ DOMAIN t = 1..Len(t)
      /\ DOMAIN (s \o t) = 1..(Len(s) + Len(t))
      /\ \A k \in 1..(Len(s) + Len(t)) : (s \o t)[k] = IF k <= Len(s) THEN s[k] ELSE t[k - Len(s)]
  BY <1>1, <1>2
<1>4. IsSeq(s \o t)
  BY <1>2, SeqIsSeq
<1> QED  BY <1>3, <1>4

\* The steps of two plans, one after the other.
LEMMA StepsConcat ==
  ASSUME NEW op, NEW s, NEW t, StepsOK(op, s), StepsOK(op, t)
  PROVE  StepsOK(op, s \o t)
<1>1. IsSeq(s) /\ IsSeq(t)
  BY DEF StepsOK
<1>2. ASSUME NEW k \in DOMAIN (s \o t)
      PROVE  StepOK(op, (s \o t)[k])
  <2>1. CASE k <= Len(s)
    BY <1>1, <2>1, ConcatOf DEF StepsOK
  <2>2. CASE ~(k <= Len(s))
    <3>1. /\ k \in 1..(Len(s) + Len(t)) /\ Len(s) \in Nat /\ Len(t) \in Nat
          /\ DOMAIN t = 1..Len(t)
          /\ (s \o t)[k] = IF k <= Len(s) THEN s[k] ELSE t[k - Len(s)]
      BY <1>1, ConcatOf
    <3>2. k - Len(s) \in DOMAIN t /\ (s \o t)[k] = t[k - Len(s)]
      BY <2>2, <3>1
    <3> QED  BY <3>2 DEF StepsOK
  <2> QED  BY <2>1, <2>2
<1> QED  BY <1>1, <1>2, ConcatOf DEF StepsOK

\* What is left of a plan when its first step is done.
LEMMA StepsTail ==
  ASSUME NEW op, NEW q, StepsOK(op, q), q # << >>
  PROVE  StepsOK(op, Tail(q)) /\ Head(q) = q[1] /\ StepOK(op, q[1])
BY TailOf, SeqDomain DEF StepsOK

\* Plans of at most two steps.
LEMMA StepsShort ==
  ASSUME NEW op, NEW a, NEW b
  PROVE  /\ StepsOK(op, << >>)
         /\ StepOK(op, a) => StepsOK(op, <<a>>)
         /\ StepOK(op, a) /\ StepOK(op, b) => StepsOK(op, <<a, b>>)
BY ShortSeq DEF StepsOK

\* A document with one record more.
LEMMA BindOf ==
  ASSUME NEW t, NEW id, NEW v
  PROVE  /\ DOMAIN Bind(t, id, v) = DOMAIN t \cup {id}
         /\ Bind(t, id, v)[id] = v
         /\ \A x \in DOMAIN t : x # id => Bind(t, id, v)[x] = t[x]
BY DEF Bind

(***************************************************************************)
(* The store calls.                                                        *)
(***************************************************************************)

\* Step o takes the document t to T: only the record of o.id differs.
Written(o, t, T) ==
  /\ DOMAIN T \subseteq DOMAIN t \cup {o.id}
  /\ \A x \in DOMAIN t : x # o.id => x \in DOMAIN T /\ T[x] = t[x]
  /\ o.do = "create" => o.id \notin DOMAIN t
  /\ o.do \in {"create", "update"} => o.id \in DOMAIN T /\ T[o.id] = o.val
  /\ o.do = "delete" => o.id \notin DOMAIN T

\* The three ways a record is written.
LEMMA InsertWritten ==
  ASSUME NEW o, NEW t, NEW free, o.do = "create", Insert(t, o.id, o.val, free) # Refused
  PROVE  free /\ Written(o, t, Insert(t, o.id, o.val, free))
<1>1. o.id \notin DOMAIN t /\ free /\ Insert(t, o.id, o.val, free) = Bind(t, o.id, o.val)
  BY DEF Insert
<1>2. /\ DOMAIN Bind(t, o.id, o.val) = DOMAIN t \cup {o.id}
      /\ Bind(t, o.id, o.val)[o.id] = o.val
      /\ \A x \in DOMAIN t : x # o.id => Bind(t, o.id, o.val)[x] = t[x]
  BY DEF Bind
<1> QED  BY <1>1, <1>2 DEF Written
LEMMA ReplaceWritten ==
  ASSUME NEW o, NEW t, NEW free, o.do = "update", Replace(t, o.id, o.val, free) # Refused
  PROVE  free /\ Written(o, t, Replace(t, o.id, o.val, free))
<1>1. /\ o.id \in DOMAIN t /\ free
      /\ Replace(t, o.id, o.val, free) = [t EXCEPT ![o.id] = o.val]
  BY DEF Replace
<1> QED  BY <1>1 DEF Written
LEMMA RemoveWritten ==
  ASSUME NEW o, NEW t, o.do = "delete", Remove(t, o.id) # Refused
  PROVE  Written(o, t, Remove(t, o.id))
<1>1. o.id \in DOMAIN t /\ Remove(t, o.id) = [x \in DOMAIN t \ {o.id} |-> t[x]]
  BY DEF Remove, Drop
<1> QED  BY <1>1 DEF Written

\* The sites store keeps hosts apart.
LEMMA WrittenHosts ==
  ASSUME NEW o, NEW t, NEW T, Written(o, t, T), HostsUnique(t),
         o.do \in {"create", "update", "delete"},
         o.do # "delete" => HostFree(t, o.id, o.val)
  PROVE  HostsUnique(T)
<1>1. ASSUME NEW x \in DOMAIN T, NEW y \in DOMAIN T, T[x].host = T[y].host, x # y
      PROVE  FALSE
  <2>1. ASSUME NEW z \in DOMAIN T, z # o.id
        PROVE  z \in DOMAIN t /\ T[z] = t[z]
    BY <2>1 DEF Written
  <2>2. CASE x # o.id /\ y # o.id
    BY <1>1, <2>1, <2>2 DEF HostsUnique
  <2>3. ASSUME NEW z \in DOMAIN T, z # o.id, o.id \in DOMAIN T, T[z].host = T[o.id].host
        PROVE  FALSE
    <3>1. z \in DOMAIN t \ {o.id} /\ t[z].host = T[o.id].host
      BY <2>1, <2>3
    <3>2. o.do # "delete" /\ T[o.id] = o.val
      BY <2>3 DEF Written
    <3> QED  BY <3>1, <3>2 DEF HostFree
  <2> QED  BY <1>1, <2>2, <2>3
<1> QED  BY <1>1 DEF HostsUnique

\* The stores keep the access policies of a site a pair.
LEMMA WrittenPolicies ==
  ASSUME NEW o, NEW t, NEW T, Written(o, t, T), Paired(t),
         o.do \in {"create", "update"} => AccessFree(t, o.id, o.val), o.do \in {"create", "update", "delete"}
  PROVE  Paired(T)
<1>1. ASSUME NEW x \in DOMAIN T, x # o.id
      PROVE  x \in DOMAIN t /\ T[x] = t[x]
  BY <1>1 DEF Written
<1>2. ASSUME NEW x \in DOMAIN T, x # o.id, o.id \in DOMAIN T, T[x].site = T[o.id].site
      PROVE  isEasyCompatibilityPair(T[x].site, x, o.id)
  <2>1. o.do \in {"create", "update"} /\ T[o.id] = o.val
    BY <1>2 DEF Written
  <2> QED  BY <1>1, <1>2, <2>1 DEF AccessFree
<1>3. ASSUME NEW x \in DOMAIN T, NEW y \in DOMAIN T, x # y, T[x].site = T[y].site
      PROVE  isEasyCompatibilityPair(T[x].site, x, y)
  <2>1. CASE x = o.id
    BY <1>2, <1>3, <2>1 DEF isEasyCompatibilityPair
  <2>2. CASE y = o.id
    BY <1>2, <1>3, <2>2
  <2>3. CASE x # o.id /\ y # o.id
    BY <1>1, <1>3, <2>3 DEF Paired
  <2> QED  BY <2>1, <2>2, <2>3
<1> QED  BY <1>3 DEF Paired

\* A document stays well formed under a well-formed step.
LEMMA WrittenDocument ==
  ASSUME NEW kind, NEW op, NEW o, NEW t, NEW T, Written(o, t, T), DocumentOK(kind, t),
         o.kind = kind, o.do \in {"create", "update", "delete"}, StepOK(op, o)
  PROVE  DocumentOK(kind, T)
<1>1. ASSUME NEW x \in DOMAIN T
      PROVE  (x \in DOMAIN t /\ T[x] = t[x]) \/ (o.do \in {"create", "update"} /\ T[x] = o.val)
  BY DEF Written
<1>2. IsFiniteSet(DOMAIN t) => IsFiniteSet(DOMAIN T)
  <2>1. IsFiniteSet(DOMAIN t) => IsFiniteSet(DOMAIN t \cup {o.id})
    BY FS_AddElement
  <2> QED  BY <2>1, FS_Subset DEF Written
<1>3. kind \in SiteKinds => \A x \in DOMAIN T : "site" \in DOMAIN T[x]
  BY <1>1 DEF DocumentOK, StepOK
<1>4. kind = "access" => \A x \in DOMAIN T : "deny" \in DOMAIN T[x]
  BY <1>1 DEF DocumentOK, StepOK
<1> QED  BY <1>2, <1>3, <1>4 DEF DocumentOK

\* What any store call does: an error ends the call, else one document of its
\* kind is replaced, and the step is taken off the plan.
StoreStep(p, o, T) ==
  /\ call[p].pc = "write" /\ call[p].plan # << >> /\ o = Head(call[p].plan)
  /\ o.kind \in Documents
  /\ db' = [db EXCEPT ![o.kind] = T]
  /\ Put(p, [call[p] EXCEPT !.plan = Tail(@)])
  /\ touched' = touched \cup {<<o.kind, o.id, q>> : q \in {x \in Procs \ {p} : Watched(x)}}
  /\ profiled' = IF o.kind = "easy" THEN profiled \cup {o.id} ELSE profiled
  /\ o.kind \in MovedKinds \cup {"sites"} =>
       o.do \in {"create", "update", "delete"} /\ Written(o, db[o.kind], T)
  /\ o.kind = "sites" => HostsUnique(T)
  /\ o.kind = "access" => Paired(T)
StoreResult(p) ==
  /\ UNCHANGED <<live, sync>>
  /\ (Done(p) /\ UNCHANGED <<db, history>>) \/ \E o, T : StoreStep(p, o, T)

\* One store call of Stores: refused, or written by the rules of its document.
LEMMA WriteStep ==
  ASSUME NEW p, NEW do, NEW T, NEW kind \in Documents, At(p, kind), Write(p, do, T),
         LET o == Head(call[p].plan) IN
         /\ kind \in MovedKinds \cup {"sites"} /\ T # Refused /\ o.do = do =>
              do \in {"create", "update", "delete"} /\ Written(o, db[kind], T)
         /\ kind = "sites" /\ T # Refused /\ o.do = do => HostsUnique(T)
         /\ kind = "access" /\ T # Refused /\ o.do = do => Paired(T)
  PROVE  StoreResult(p)
<1> DEFINE o == Head(call[p].plan)
<1>1. /\ o.kind = kind /\ call[p].pc = "write" /\ call[p].plan # << >>
      /\ o.do = do /\ UNCHANGED <<live, sync>>
  BY DEF At, Write
<1>2. CASE T = Refused
  BY <1>1, <1>2 DEF Write, StoreResult
<1>3. CASE T # Refused
  <2>1. /\ db' = [db EXCEPT ![o.kind] = T]
        /\ Put(p, [call[p] EXCEPT !.plan = Tail(@)])
        /\ touched' = touched \cup {<<o.kind, o.id, q>> : q \in {x \in Procs \ {p} : Watched(x)}}
        /\ profiled' = IF o.kind = "easy" THEN profiled \cup {o.id} ELSE profiled
    BY <1>3 DEF Write
  <2>2. StoreStep(p, o, T)
    BY <1>1, <1>3, <2>1 DEF StoreStep
  <2> QED  BY <1>1, <2>2 DEF StoreResult
<1> QED  BY <1>2, <1>3

\* Every disjunct of Stores is such a step.
LEMMA StoresStep ==
  ASSUME NEW p, Stores(p), HostsUnique(db["sites"]), Paired(db["access"])
  PROVE  StoreResult(p)
<1> DEFINE o == Head(call[p].plan)
<1> USE DEF Documents, MovedKinds, SiteKinds, KeyKinds
<1>1. ASSUME NEW do, NEW T, NEW kind \in MovedKinds \ {"access"}, At(p, kind), Write(p, do, T),
             T # Refused /\ o.do = do => do \in {"create", "update", "delete"} /\ Written(o, db[kind], T)
      PROVE  StoreResult(p)
  BY <1>1, WriteStep
<1>2. ASSUME NEW do, NEW T, NEW kind \in {"certificates", "materials", "management", "antiddos"},
             At(p, kind), Write(p, do, T)
      PROVE  StoreResult(p)
  BY <1>2, WriteStep
<1>3. ASSUME NEW do, NEW T, At(p, "sites"), Write(p, do, T),
             T # Refused /\ o.do = do =>
               /\ do \in {"create", "update", "delete"} /\ Written(o, db["sites"], T)
               /\ HostsUnique(T)
      PROVE  StoreResult(p)
  BY <1>3, WriteStep
<1>4. CASE WriteSites(p)
  <2> DEFINE t == db["sites"]
  <2>1. At(p, "sites")
    BY <1>4 DEF WriteSites
  <2>2. CASE Write(p, "create", SitesCreate(t, o.id, o.val))
    BY <1>3, <2>1, <2>2, InsertWritten, WrittenHosts DEF SitesCreate
  <2>3. CASE Write(p, "update", SitesUpdate(t, o.id, o.val))
    BY <1>3, <2>1, <2>3, ReplaceWritten, WrittenHosts DEF SitesUpdate
  <2>4. CASE Write(p, "delete", SitesDelete(t, o.id))
    BY <1>3, <2>1, <2>4, RemoveWritten, WrittenHosts DEF SitesDelete
  <2> QED  BY <1>4, <2>2, <2>3, <2>4 DEF WriteSites
<1>5. CASE WriteUpstreams(p)
  BY <1>1, <1>5, InsertWritten, ReplaceWritten, RemoveWritten
     DEF WriteUpstreams, UpstreamsCreate, UpstreamsUpdate, UpstreamsDelete
<1>6. CASE WriteTLS(p)
  BY <1>1, <1>6, InsertWritten, ReplaceWritten, RemoveWritten
     DEF WriteTLS, TLSConfigsCreate, TLSConfigsUpdate, TLSConfigsDelete
<1>7. CASE WriteCertificates(p)
  BY <1>2, <1>7 DEF WriteCertificates
<1>8. CASE WriteMaterials(p)
  BY <1>2, <1>8 DEF WriteMaterials
<1>9. CASE WriteWAF(p)
  BY <1>1, <1>9, InsertWritten, ReplaceWritten, RemoveWritten
     DEF WriteWAF, WAFPoliciesCreate, WAFPoliciesUpdate, WAFPoliciesDelete
<1>10. CASE WriteAccess(p)
  <2> DEFINE t == db["access"]
  <2>1. At(p, "access")
    BY <1>10 DEF WriteAccess
  <2>2. ASSUME NEW do, NEW T, Write(p, do, T),
               T # Refused /\ o.do = do =>
                 do \in {"create", "update", "delete"} /\ Written(o, t, T) /\ Paired(T)
        PROVE  StoreResult(p)
    BY <2>1, <2>2, WriteStep
  <2>3. CASE Write(p, "create", AccessPoliciesCreate(t, o.id, o.val))
    <3>1. AccessPoliciesCreate(t, o.id, o.val) # Refused => AccessFree(t, o.id, o.val)
      BY DEF AccessPoliciesCreate, Insert
    <3> QED  BY <2>2, <2>3, <3>1, InsertWritten, WrittenPolicies DEF AccessPoliciesCreate
  <2>4. CASE Write(p, "update", AccessPoliciesUpdate(t, o.id, o.val))
    <3>1. AccessPoliciesUpdate(t, o.id, o.val) # Refused => AccessFree(t, o.id, o.val)
      BY DEF AccessPoliciesUpdate, Replace
    <3> QED  BY <2>2, <2>4, <3>1, ReplaceWritten, WrittenPolicies DEF AccessPoliciesUpdate
  <2>5. CASE Write(p, "delete", AccessPoliciesDelete(t, o.id))
    BY <2>2, <2>5, RemoveWritten, WrittenPolicies DEF AccessPoliciesDelete
  <2> QED  BY <1>10, <2>3, <2>4, <2>5 DEF WriteAccess
<1>11. CASE WriteRate(p)
  BY <1>1, <1>11, InsertWritten, ReplaceWritten, RemoveWritten
     DEF WriteRate, RateLimitPoliciesCreate, RateLimitPoliciesUpdate, RateLimitPoliciesDelete
<1>12. CASE WriteEasy(p)
  BY <1>1, <1>12, InsertWritten, ReplaceWritten, RemoveWritten
     DEF WriteEasy, EasyProfilesCreate, EasyProfilesUpdate, EasyProfilesDelete
<1>13. CASE WritePatches(p)
  BY <1>1, <1>13, InsertWritten, RemoveWritten DEF WritePatches, PatchesCreate, PatchesDelete
<1>14. CASE WriteSettings(p)
  BY <1>2, <1>14 DEF WriteSettings
<1> QED
  BY <1>4, <1>5, <1>6, <1>7, <1>8, <1>9, <1>10, <1>11, <1>12, <1>13, <1>14 DEF Stores

(***************************************************************************)
(* Calls: beginning, reading, deciding.                                    *)
(***************************************************************************)

\* A call that is not under way.
LEMMA IdleFields ==
  /\ DOMAIN Idle = Fields /\ Idle.pc = "idle" /\ Idle.got = << >> /\ Idle.plan = << >>
  /\ Idle.reads = << >>
BY DEF Idle, Fields

\* A call that has not begun, or has ended, owes nothing.
LEMMA InactiveOK ==
  ASSUME NEW p, NEW c, NEW d, NEW w, DOMAIN c = Fields, c.pc \in {"idle", "done"}
  PROVE  CallOK(p, c, d, w)
BY DEF CallOK, ReadOK, SnapshotOK, PlanOK, BanOK, RenameOK
LEMMA EndedOK ==
  ASSUME NEW p, NEW d, NEW w
  PROVE  CallOK(p, Idle, d, w) /\ CallOK(p, [Idle EXCEPT !.pc = "done"], d, w)
<1> DEFINE c == [Idle EXCEPT !.pc = "done"]
<1>1. DOMAIN c = Fields /\ c.pc = "done"
  BY IdleFields DEF Fields
<1> HIDE DEF c
<1>2. CallOK(p, c, d, w)
  BY <1>1, InactiveOK
<1>3. CallOK(p, Idle, d, w)
  BY IdleFields, InactiveOK
<1> QED  BY <1>2, <1>3 DEF c

\* A step of p that writes no document leaves the other calls as they are.
LEMMA PlainStep ==
  ASSUME Inv, NEW p \in Procs, NEW c, Put(p, c), CallOK(p, c, db, touched),
         UNCHANGED <<db, touched>>, SoundBundle(live'), ServingBundle(live')
  PROVE  Inv'
<1>1. db' = db /\ touched' = touched
  OBVIOUS
<1>2. DOMAIN call' = Procs /\ call'[p] = c /\ \A q \in Procs \ {p} : call'[q] = call[q]
  BY DEF Inv, Put
<1>3. \A q \in Procs : CallOK(q, call'[q], db, touched)
  BY <1>2 DEF Inv
<1> QED  BY <1>1, <1>2, <1>3 DEF Inv

\* A step that ends a call.
LEMMA DoneStep ==
  ASSUME Inv, NEW p \in Procs, Done(p), UNCHANGED <<db, touched>>,
         SoundBundle(live'), ServingBundle(live')
  PROVE  Inv'
BY PlainStep, EndedOK DEF Done

\* What the two calls that keep their reads have to read.
LEMMA ReadsNeeded ==
  /\ ReadsOf["bans.sync"] = <<"sites">>
  /\ ReadsOf["site.rename"] = <<"sites", "upstreams", "tls", "waf", "access", "rate", "easy", "patches">>
BY DEF ReadsOf, Operations, SitesHandler, UpstreamsHandler, TLSConfigsHandler, CertificatesHandler,
       CertificateUploadHandler, WAFPoliciesHandler, AccessPoliciesHandler,
       RateLimitPoliciesHandler, EasySiteProfilesHandler, VirtualPatchesHandler,
       ManagementHostsHandler, DirectIPAccessHandler, AntiDDoSHandler, SentinelBanSync

\* ReadsOf names documents, the sites and everything that moves for a rename.
LEMMA ReadsOfSeq ==
  ASSUME NEW op \in {"bans.sync", "site.rename"}
  PROVE  /\ IsSeq(ReadsOf[op]) /\ Elements(ReadsOf[op]) \subseteq Documents
         /\ op = "bans.sync" => Elements(ReadsOf[op]) = {"sites"}
         /\ op = "site.rename" => Elements(ReadsOf[op]) = MovedKinds \cup {"sites"}
<1> USE DEF Documents, MovedKinds, SiteKinds, KeyKinds
<1>1. CASE op = "bans.sync"
  <2>1. <<"sites">> \in Seq({"sites"}) /\ DOMAIN <<"sites">> = {1} /\ <<"sites">>[1] = "sites"
    OBVIOUS
  <2>2. IsSeq(<<"sites">>)
    BY <2>1, SeqIsSeq
  <2>3. Elements(<<"sites">>) = {"sites"}
    BY <2>1 DEF Elements
  <2> QED  BY <1>1, <2>2, <2>3, ReadsNeeded
<1>2. CASE op = "site.rename"
  <2> DEFINE q == <<"sites", "upstreams", "tls", "waf", "access", "rate", "easy", "patches">>
  <2>1. q \in Seq(MovedKinds \cup {"sites"})
    OBVIOUS
  <2>2. IsSeq(q)
    BY <2>1, SeqIsSeq
  <2>3. DOMAIN q = 1..8
    OBVIOUS
  <2>4. Elements(q) = MovedKinds \cup {"sites"}
    <3>1. {q[1], q[2], q[3], q[4], q[5], q[6], q[7], q[8]} = MovedKinds \cup {"sites"}
      OBVIOUS
    <3>2. 1..8 = {1, 2, 3, 4, 5, 6, 7, 8}
      OBVIOUS
    <3> QED  BY <2>3, <3>1, <3>2 DEF Elements
  <2> QED  BY <1>2, <2>2, <2>4, ReadsNeeded
<1> QED  BY <1>1, <1>2

\* A handler begins a call.
LEMMA BeginStep ==
  ASSUME Inv, NEW p \in Procs, NEW b, Begin(p, b)
  PROVE  Inv'
<1> DEFINE c == [Idle EXCEPT !.pc = "read", !.op = b[1], !.site = b[2], !.id = b[3],
                             !.val = b[4], !.reads = ReadsOf[b[1]]]
<1>1. Put(p, c) /\ UNCHANGED <<db, live, sync, touched>>
  BY DEF Begin, history
<1>2. /\ DOMAIN c = Fields /\ c.pc = "read" /\ c.op = b[1] /\ c.reads = ReadsOf[b[1]]
      /\ c.got = << >>
  BY IdleFields DEF Fields
<1> HIDE DEF c
<1>3. ReadOK(c)
  <2>1. DOMAIN c.got = {}
    BY <1>2
  <2> QED  BY <1>2, <2>1, ReadsOfSeq DEF ReadOK
<1>4. CallOK(p, c, db, touched)
  BY <1>2, <1>3 DEF CallOK, SnapshotOK, PlanOK, BanOK, RenameOK
<1> QED  BY <1>1, <1>4, PlainStep DEF Inv

\* What is read leaves the queue.
LEMMA TailElements ==
  ASSUME NEW q, IsSeq(q), q # << >>
  PROVE  /\ IsSeq(Tail(q)) /\ Head(q) \in Elements(q)
         /\ Elements(Tail(q)) \subseteq Elements(q)
         /\ Elements(q) \subseteq Elements(Tail(q)) \cup {Head(q)}
<1>1. /\ IsSeq(Tail(q)) /\ Head(q) = q[1] /\ Len(q) \in Nat \ {0}
      /\ DOMAIN Tail(q) = 1..(Len(q) - 1)
      /\ \A k \in 1..(Len(q) - 1) : k + 1 \in DOMAIN q /\ Tail(q)[k] = q[k+1]
  BY TailOf
<1>2. DOMAIN q = 1..Len(q)
  BY SeqDomain
<1>3. Elements(q) \subseteq Elements(Tail(q)) \cup {Head(q)}
  <2>1. SUFFICES ASSUME NEW k \in 1..Len(q), k # 1
                 PROVE  q[k] \in Elements(Tail(q))
    BY <1>1, <1>2 DEF Elements
  <2>2. k - 1 \in 1..(Len(q) - 1) /\ Tail(q)[k-1] = q[k]
    BY <1>1, <2>1
  <2> QED  BY <1>1, <2>2 DEF Elements
<1>4. Elements(Tail(q)) \subseteq Elements(q)
  BY <1>1 DEF Elements
<1>5. Head(q) \in Elements(q)
  BY <1>1, <1>2 DEF Elements
<1> QED  BY <1>1, <1>3, <1>4, <1>5

\* The snapshot reads the sites first and only then.
LEMMA SnapshotReadsFacts ==
  /\ IsSeq(SnapshotReads) /\ SnapshotReads # << >> /\ Head(SnapshotReads) = "sites"
  /\ IsSeq(Tail(SnapshotReads)) /\ "sites" \notin Elements(Tail(SnapshotReads))
<1> DEFINE r == <<"upstreams", "certificates", "tls", "waf", "access", "rate", "easy",
                  "antiddos", "management">>
<1>1. SnapshotReads \in Seq(Documents) /\ SnapshotReads # << >> /\ Head(SnapshotReads) = "sites"
  BY DEF SnapshotReads, Documents, MovedKinds, SiteKinds, KeyKinds
<1>2. Tail(SnapshotReads) = r
  BY DEF SnapshotReads
<1>3. r \in Seq(Documents \ {"sites"})
  BY DEF Documents, MovedKinds, SiteKinds, KeyKinds
<1>4. "sites" \notin Elements(r)
  <2>1. \A k \in DOMAIN r : r[k] \in Documents \ {"sites"}
    BY <1>3
  <2> QED  BY <2>1 DEF Elements
<1> QED  BY <1>1, <1>2, <1>3, <1>4, SeqIsSeq

\* A read copies a document as it is stored.
LEMMA ReadStep ==
  ASSUME Inv, NEW p \in Procs, Read(p)
  PROVE  Inv'
<1> DEFINE b == call[p]
           h == Head(b.reads)
           c == [b EXCEPT !.reads = Tail(@), !.got = Bind(@, h, db[h])]
<1>1. /\ Put(p, c) /\ UNCHANGED <<db, live, sync, touched>>
      /\ b.pc \in {"read", "snapshot"} /\ b.reads # << >>
  BY DEF Read, history
<1>2. CallOK(p, b, db, touched)
  BY DEF Inv
<1>3. /\ DOMAIN c = Fields /\ c.pc = b.pc /\ c.op = b.op /\ c.reads = Tail(b.reads)
      /\ c.got = Bind(b.got, h, db[h])
  BY <1>2 DEF CallOK, Fields
<1>4. DocumentsOK(db)
  BY DEF Inv
<1> HIDE DEF c, b, h
<1>5. /\ DOMAIN c.got = DOMAIN b.got \cup {h} /\ c.got[h] = db[h]
      /\ \A x \in DOMAIN b.got : x # h => c.got[x] = b.got[x]
  BY <1>3 DEF Bind
<1>6. ReadOK(c)
  <2>1. SUFFICES ASSUME b.pc = "read", b.op \in {"site.rename", "bans.sync"}
                 PROVE  /\ IsSeq(c.reads) /\ Elements(c.reads) \subseteq Documents
                        /\ Elements(ReadsOf[c.op]) \subseteq Elements(c.reads) \cup DOMAIN c.got
                        /\ \A kind \in DOMAIN c.got : DocumentOK(kind, c.got[kind])
    BY <1>3 DEF ReadOK
  <2>2. /\ IsSeq(b.reads) /\ Elements(b.reads) \subseteq Documents
        /\ Elements(ReadsOf[b.op]) \subseteq Elements(b.reads) \cup DOMAIN b.got
        /\ \A kind \in DOMAIN b.got : DocumentOK(kind, b.got[kind])
    BY <1>2, <2>1 DEF CallOK, ReadOK
  <2>3. /\ IsSeq(c.reads) /\ h \in Elements(b.reads) /\ Elements(c.reads) \subseteq Elements(b.reads)
        /\ Elements(b.reads) \subseteq Elements(c.reads) \cup {h}
    BY <1>1, <1>3, <2>2, TailElements DEF h
  <2>4. DocumentOK(h, db[h])
    BY <1>4, <2>2, <2>3 DEF DocumentsOK
  <2>5. ASSUME NEW kind \in DOMAIN c.got
        PROVE  DocumentOK(kind, c.got[kind])
    BY <1>5, <2>2, <2>4
  <2> QED  BY <1>3, <1>5, <2>2, <2>3, <2>5
<1>7. SnapshotOK(c)
  <2>1. SUFFICES ASSUME b.pc = "snapshot"
                 PROVE  /\ IsSeq(c.reads) /\ "sites" \notin Elements(c.reads)
                        /\ "sites" \in DOMAIN c.got /\ HostsUnique(c.got["sites"])
    BY <1>3 DEF SnapshotOK
  <2>2. CASE b.reads = SnapshotReads
    <3>1. h = "sites" /\ IsSeq(c.reads) /\ "sites" \notin Elements(c.reads)
      BY <1>3, <2>2, SnapshotReadsFacts DEF h
    <3>2. HostsUnique(db["sites"])
      BY <1>4 DEF DocumentsOK
    <3> QED  BY <1>5, <3>1, <3>2
  <2>3. CASE b.reads # SnapshotReads
    <3>1. /\ IsSeq(b.reads) /\ "sites" \notin Elements(b.reads)
          /\ "sites" \in DOMAIN b.got /\ HostsUnique(b.got["sites"])
      BY <1>2, <2>1, <2>3 DEF CallOK, SnapshotOK
    <3>2. IsSeq(c.reads) /\ h # "sites" /\ "sites" \notin Elements(c.reads)
      BY <1>1, <1>3, <3>1, TailElements DEF h
    <3>3. "sites" \in DOMAIN c.got /\ c.got["sites"] = b.got["sites"]
      BY <1>5, <3>1, <3>2
    <3> QED  BY <3>1, <3>2, <3>3
  <2> QED  BY <2>2, <2>3
<1>8. CallOK(p, c, db, touched)
  BY <1>1, <1>3, <1>6, <1>7 DEF CallOK, PlanOK, BanOK, RenameOK
<1> QED  BY <1>1, <1>8, PlainStep DEF Inv

\* A decision that starts the writes of a call that keeps nothing it has read.
LEMMA ProceedStep ==
  ASSUME Inv, NEW p \in Procs, NEW ok, NEW plan, Proceed(p, ok, plan),
         call[p].op \notin {"site.rename", "bans.sync"}, StepsOK(call[p].op, plan)
  PROVE  Inv'
<1> DEFINE b == call[p]
           c == [b EXCEPT !.pc = "write", !.plan = plan, !.got = << >>]
<1>1. UNCHANGED <<db, live, sync, touched>> /\ (Put(p, c) \/ Done(p))
  BY DEF Proceed, history
<1>2. DOMAIN b = Fields
  BY DEF Inv, CallOK
<1>3. DOMAIN c = Fields /\ c.pc = "write" /\ c.op = b.op /\ c.plan = plan
  BY <1>2 DEF Fields
<1> HIDE DEF c
<1>4. CallOK(p, c, db, touched)
  BY <1>3 DEF CallOK, ReadOK, SnapshotOK, PlanOK, BanOK, RenameOK
<1> QED  BY <1>1, <1>4, PlainStep, DoneStep DEF Inv

\* A step that is not a mark and whose record has the fields of its document.
LEMMA OpStep ==
  ASSUME NEW op, NEW kind, NEW do, NEW id, NEW val, kind # "ban" \/ do # "mark",
         kind \in SiteKinds /\ do \in {"create", "update"} => "site" \in DOMAIN val,
         kind = "access" /\ do \in {"create", "update"} => "deny" \in DOMAIN val
  PROVE  StepOK(op, Op(kind, do, id, val))
BY DEF StepOK, Op

\* Most calls write one record.
LEMMA OneStep ==
  ASSUME Inv, NEW p \in Procs, NEW op, NEW ok, NEW kind, NEW do, NEW id, NEW val,
         op \notin {"site.rename", "bans.sync"},
         Ready(p, {op}), Proceed(p, ok, <<Op(kind, do, id, val)>>),
         kind # "ban" \/ do # "mark",
         kind \in SiteKinds /\ do \in {"create", "update"} => "site" \in DOMAIN val,
         kind = "access" /\ do \in {"create", "update"} => "deny" \in DOMAIN val
  PROVE  Inv'
<1>1. call[p].op = op
  BY DEF Ready
<1>2. StepOK(op, Op(kind, do, id, val))
  BY OpStep
<1>3. StepsOK(op, <<Op(kind, do, id, val)>>)
  BY <1>2, StepsShort
<1> QED  BY <1>1, <1>3, ProceedStep

\* The services that write one record.
LEMMA SimpleServices ==
  ASSUME Inv, NEW p \in Procs,
         \/ SiteCalls(p) \/ UpstreamCalls(p) \/ TLSCalls(p) \/ CertificateCalls(p)
         \/ WAFPolicyCalls(p) \/ AccessPolicyCalls(p) \/ AccessPolicyUpsert(p)
         \/ RateLimitPolicyCalls(p) \/ PatchCalls(p) \/ ManagementHostsUpdate(p)
         \/ SettingsCalls(p) \/ EasyProfileDelete(p)
  PROVE  Inv'
<1> USE DEF SiteKinds
<1>1. CASE SiteCalls(p)
  BY <1>1, OneStep DEF SiteCalls
<1>2. CASE UpstreamCalls(p)
  <2> DEFINE v == [site |-> call[p].site, ui |-> call[p].val]
  <2>1. "site" \in DOMAIN v
    OBVIOUS
  <2> HIDE DEF v
  <2>2. CASE \E ok : Ready(p, {"upstream.create"}) /\ Proceed(p, ok, <<Op("upstreams", "create", call[p].id, v)>>)
    BY <2>1, <2>2, OneStep
  <2>3. CASE \E ok : Ready(p, {"upstream.update"}) /\ Proceed(p, ok, <<Op("upstreams", "update", call[p].id, v)>>)
    BY <2>1, <2>3, OneStep
  <2>4. CASE Ready(p, {"upstream.delete"}) /\ Proceed(p, TRUE, <<Op("upstreams", "delete", call[p].id, None)>>)
    BY <2>4, OneStep
  <2> QED  BY <1>2, <2>2, <2>3, <2>4 DEF UpstreamCalls, v
<1>3. CASE TLSCalls(p)
  BY <1>3, OneStep DEF TLSCalls
<1>4. CASE CertificateCalls(p)
  BY <1>4, OneStep DEF CertificateCalls
<1>5. CASE WAFPolicyCalls(p)
  <2> DEFINE v == [site |-> call[p].site, enabled |-> call[p].val]
  <2>1. "site" \in DOMAIN v
    OBVIOUS
  <2> HIDE DEF v
  <2>2. CASE \E ok : Ready(p, {"waf.create"}) /\ Proceed(p, ok, <<Op("waf", "create", call[p].id, v)>>)
    BY <2>1, <2>2, OneStep
  <2>3. CASE \E ok : Ready(p, {"waf.update"}) /\ Proceed(p, ok, <<Op("waf", "update", call[p].id, v)>>)
    BY <2>1, <2>3, OneStep
  <2>4. CASE Ready(p, {"waf.delete"}) /\ Proceed(p, TRUE, <<Op("waf", "delete", call[p].id, None)>>)
    BY <2>4, OneStep
  <2> QED  BY <1>5, <2>2, <2>3, <2>4 DEF WAFPolicyCalls, v
<1>6. CASE AccessPolicyCalls(p) \/ AccessPolicyUpsert(p)
  <2> DEFINE v == [site |-> call[p].site, deny |-> call[p].val]
  <2>1. "site" \in DOMAIN v /\ "deny" \in DOMAIN v
    OBVIOUS
  <2> HIDE DEF v
  <2>2. CASE \E ok : Ready(p, {"access.create"}) /\ Proceed(p, ok, <<Op("access", "create", call[p].id, v)>>)
    BY <2>1, <2>2, OneStep
  <2>3. CASE \E ok : Ready(p, {"access.update"}) /\ Proceed(p, ok, <<Op("access", "update", call[p].id, v)>>)
    BY <2>1, <2>3, OneStep
  <2>4. CASE Ready(p, {"access.delete"}) /\ Proceed(p, TRUE, <<Op("access", "delete", call[p].id, None)>>)
    BY <2>4, OneStep
  <2>5. CASE \E ok, do : Ready(p, {"access.upsert"}) /\ Proceed(p, ok, <<Op("access", do, call[p].id, v)>>)
    BY <2>1, <2>5, OneStep
  <2> QED  BY <1>6, <2>2, <2>3, <2>4, <2>5 DEF AccessPolicyCalls, AccessPolicyUpsert, v
<1>7. CASE RateLimitPolicyCalls(p)
  <2> DEFINE v == [site |-> call[p].site, enabled |-> call[p].val]
  <2>1. "site" \in DOMAIN v
    OBVIOUS
  <2> HIDE DEF v
  <2>2. CASE \E ok : Ready(p, {"rate.create"}) /\ Proceed(p, ok, <<Op("rate", "create", call[p].id, v)>>)
    BY <2>1, <2>2, OneStep
  <2>3. CASE \E ok : Ready(p, {"rate.update"}) /\ Proceed(p, ok, <<Op("rate", "update", call[p].id, v)>>)
    BY <2>1, <2>3, OneStep
  <2>4. CASE Ready(p, {"rate.delete"}) /\ Proceed(p, TRUE, <<Op("rate", "delete", call[p].id, None)>>)
    BY <2>4, OneStep
  <2> QED  BY <1>7, <2>2, <2>3, <2>4 DEF RateLimitPolicyCalls, v
<1>8. CASE PatchCalls(p)
  <2> DEFINE v == [site |-> call[p].site, expired |-> call[p].val]
  <2>1. "site" \in DOMAIN v
    OBVIOUS
  <2> HIDE DEF v
  <2>2. CASE Ready(p, {"patch.create"}) /\ Proceed(p, TRUE, <<Op("patches", "create", call[p].id, v)>>)
    BY <2>1, <2>2, OneStep
  <2>3. CASE Ready(p, {"patch.delete"}) /\ Proceed(p, TRUE, <<Op("patches", "delete", call[p].id, None)>>)
    BY <2>3, OneStep
  <2> QED  BY <1>8, <2>2, <2>3 DEF PatchCalls, v
<1>9. CASE ManagementHostsUpdate(p)
  <2>1. PICK ok, id, val : /\ Ready(p, {"hosts.update"})
                           /\ Proceed(p, ok, <<Op("management", "update", id, val)>>)
    BY <1>9 DEF ManagementHostsUpdate
  <2>2. "management" \notin SiteKinds
    OBVIOUS
  <2> HIDE DEF SiteKinds
  <2> QED  BY <2>1, <2>2, OneStep
<1>10. CASE SettingsCalls(p)
  <2>1. "management" \notin SiteKinds /\ "antiddos" \notin SiteKinds
    OBVIOUS
  <2> HIDE DEF SiteKinds
  <2>2. CASE \E val : Ready(p, {"directip.update"}) /\ Proceed(p, TRUE, <<Op("management", "block", None, val)>>)
    BY <2>1, <2>2, OneStep
  <2>3. CASE \E val : Ready(p, {"antiddos.upsert"}) /\ Proceed(p, TRUE, <<Op("antiddos", "upsert", None, val)>>)
    BY <2>1, <2>3, OneStep
  <2> QED  BY <1>10, <2>2, <2>3 DEF SettingsCalls
<1>11. CASE EasyProfileDelete(p)
  BY <1>11, OneStep DEF EasyProfileDelete
<1> QED
  BY <1>1, <1>2, <1>3, <1>4, <1>5, <1>6, <1>7, <1>8, <1>9, <1>10, <1>11

\* The other services that keep nothing they have read.
LEMMA DoubleServices ==
  ASSUME Inv, NEW p \in Procs,
         CertificateUpload(p) \/ ManualBan(p) \/ EasyProfileUpsert(p)
  PROVE  Inv'
<1> DEFINE c == call[p]
<1>1. ASSUME NEW op, op \notin {"site.rename", "bans.sync"}, NEW ok, NEW a, NEW b, Ready(p, {op}),
             Proceed(p, ok, <<a, b>>), StepOK(op, a), StepOK(op, b)
      PROVE  Inv'
  <2>1. call[p].op = op
    BY <1>1 DEF Ready
  <2>2. StepsOK(op, <<a, b>>)
    BY <1>1, StepsShort
  <2> QED  BY <1>1, <2>1, <2>2, ProceedStep
<1>2. CASE CertificateUpload(p)
  <2> DEFINE a == Op("certificates", "create", c.id, c.val)
             b == Op("materials", "put", c.id, None)
  <2>1. StepOK("certificate.upload", a) /\ StepOK("certificate.upload", b)
    BY OpStep DEF SiteKinds
  <2> HIDE DEF a, b
  <2>2. StepsOK("certificate.upload", <<b>>) /\ StepsOK("certificate.upload", <<a>> \o <<b>>)
    BY <2>1, StepsShort, StepsConcat
  <2>3. /\ call[p].op = "certificate.upload"
        /\ Proceed(p, TRUE, <<b>>) \/ Proceed(p, TRUE, <<a>> \o <<b>>)
    BY <1>2 DEF CertificateUpload, Ready, a, b
  <2> QED  BY <2>2, <2>3, ProceedStep
<1>3. CASE ManualBan(p)
  <2>1. ASSUME NEW op \in {"site.ban", "site.unban"}, NEW deny, Ready(p, {op}),
               Proceed(p, TRUE, <<BanSite(c.site, deny)>>)
        PROVE  Inv'
    BY <2>1, OneStep DEF BanSite, SiteKinds
  <2> QED  BY <1>3, <2>1 DEF ManualBan
<1>4. CASE EasyProfileUpsert(p)
  <2>1. PICK ok, do, v : /\ Ready(p, {"easy.upsert"})
                         /\ Proceed(p, ok, <<Op("easy", do, c.site, v), Op("sync", "waf", c.site, v)>>)
    BY <1>4 DEF EasyProfileUpsert
  <2> DEFINE a == Op("easy", do, c.site, v)
             b == Op("sync", "waf", c.site, v)
  <2>2. StepOK("easy.upsert", a) /\ StepOK("easy.upsert", b)
    BY OpStep DEF SiteKinds
  <2> HIDE DEF a, b
  <2>3. Ready(p, {"easy.upsert"}) /\ Proceed(p, ok, <<a, b>>)
    BY <2>1 DEF a, b
  <2> QED  BY <1>1, <2>2, <2>3
<1> QED  BY <1>2, <1>3, <1>4

(***************************************************************************)
(* Writing: what a store call does to the other calls, and to its own.     *)
(***************************************************************************)

\* A step o takes the documents d to e and the history w to v.
StepWrites(o, d, w, e, v) ==
  /\ o.kind \in Documents /\ w \subseteq v
  /\ \A x \in Documents : x # o.kind => e[x] = d[x]
  /\ o.kind \in MovedKinds \cup {"sites"} =>
       o.do \in {"create", "update", "delete"} /\ Written(o, d[o.kind], e[o.kind])

\* A written document keeps its form, the others are untouched.
LEMMA DocumentsWritten ==
  ASSUME NEW op, NEW o, NEW d, NEW w, NEW e, NEW v, StepWrites(o, d, w, e, v),
         DocumentsOK(d), StepOK(op, o), DOMAIN e = Documents,
         o.kind = "sites" => HostsUnique(e["sites"]), o.kind = "access" => Paired(e["access"])
  PROVE  DocumentsOK(e)
<1>1. HostsUnique(e["sites"]) /\ Paired(e["access"])
  BY DEF DocumentsOK, Documents, MovedKinds, SiteKinds, StepWrites
<1>2. ASSUME NEW kind \in Documents
      PROVE  DocumentOK(kind, e[kind])
  <2>1. DocumentOK(kind, d[kind])
    BY DEF DocumentsOK
  <2>2. CASE kind # o.kind
    BY <2>1, <2>2 DEF StepWrites
  <2>3. CASE kind = o.kind /\ kind \in MovedKinds \cup {"sites"}
    <3>1. o.do \in {"create", "update", "delete"} /\ Written(o, d[kind], e[kind])
      BY <2>3 DEF StepWrites
    <3> QED  BY <2>1, <2>3, <3>1, WrittenDocument
  <2>4. CASE kind = o.kind /\ kind \notin MovedKinds \cup {"sites"}
    BY <2>4 DEF DocumentOK, MovedKinds, SiteKinds
  <2> QED  BY <2>2, <2>3, <2>4
<1> QED  BY <1>1, <1>2 DEF DocumentsOK

\* The write is recorded for the call c of p, if it is one that is watched.
Records(p, c, o, v) == c.op \in {"site.rename", "bans.sync"} => <<o.kind, o.id, p>> \in v

\* The write of one call leaves what is said of another true.
LEMMA OthersBan ==
  ASSUME NEW p, NEW c, NEW d, NEW w, NEW o, NEW e, NEW v,
         StepWrites(o, d, w, e, v), Records(p, c, o, v), BanOK(p, c, d, w)
  PROVE  BanOK(p, c, e, v)
<1>1. CASE c.op = "bans.sync" /\ o.kind \in {"access", "sites"}
  <2>1. <<o.kind, o.id, p>> \in v
    BY <1>1 DEF Records
  <2>2. Interfered(p, v)
    BY <1>1, <2>1 DEF Interfered
  <2> QED  BY <2>2 DEF BanOK
<1>2. CASE o.kind \notin {"access", "sites"}
  <2>1. e["access"] = d["access"] /\ e["sites"] = d["sites"]
    BY <1>2 DEF StepWrites, Documents, MovedKinds, SiteKinds
  <2>2. Interfered(p, w) => Interfered(p, v)
    BY DEF Interfered, StepWrites
  <2> QED  BY <2>1, <2>2 DEF BanOK
<1>3. CASE c.op # "bans.sync"
  BY <1>3 DEF BanOK
<1> QED  BY <1>1, <1>2, <1>3

\* The history of writes only grows.
LEMMA ElsewhereGrows ==
  ASSUME NEW p, NEW o, NEW d, NEW w, NEW e, NEW v, NEW kind, NEW id, StepWrites(o, d, w, e, v)
  PROVE  Elsewhere(p, w, kind, id) => Elsewhere(p, v, kind, id)
BY DEF Elsewhere, StepWrites

\* Another call's write is counted as foreign by a rename.
LEMMA OthersRename ==
  ASSUME NEW p, NEW c, NEW d, NEW w, NEW o, NEW e, NEW v,
         StepWrites(o, d, w, e, v), Records(p, c, o, v), RenameOK(p, c, d, w)
  PROVE  RenameOK(p, c, e, v)
<1> SUFFICES ASSUME c.op = "site.rename" PROVE RenameOK(p, c, e, v)
  BY DEF RenameOK
<1>3. Elsewhere(p, v, o.kind, o.id)
  BY DEF Records, Elsewhere
<1>0. MovedKinds \subseteq Documents /\ MovedKinds = SiteKinds \cup KeyKinds
  BY DEF Documents, MovedKinds
<1>1. ASSUME NEW kind \in SiteKinds, NEW id, RecordMoves(p, c, d, w, kind, id)
      PROVE  RecordMoves(p, c, e, v, kind, id)
  <2>1. CASE Elsewhere(p, w, kind, id) \/ (kind = o.kind /\ id = o.id)
    BY <1>3, <2>1, ElsewhereGrows DEF RecordMoves
  <2>2. CASE kind # o.kind
    <3>1. e[kind] = d[kind]
      BY <1>0, <2>2 DEF StepWrites
    <3> QED  BY <1>1, <3>1, ElsewhereGrows DEF RecordMoves
  <2>3. CASE kind = o.kind /\ id # o.id
    <3>1. Written(o, d[kind], e[kind])
      BY <1>0, <2>3 DEF StepWrites
    <3>2. id \in DOMAIN d[kind] => id \in DOMAIN e[kind] /\ e[kind][id] = d[kind][id]
      BY <2>3, <3>1 DEF Written
    <3> QED  BY <1>1, <3>2, ElsewhereGrows DEF RecordMoves
  <2> QED  BY <2>1, <2>2, <2>3
<1>2. ASSUME NEW kind \in KeyKinds, KeyMoves(p, c, d, w, kind)
      PROVE  KeyMoves(p, c, e, v, kind)
  <2>1. CASE kind = o.kind /\ o.id \in {c.site, c.id}
    BY <1>3, <2>1, ElsewhereGrows DEF KeyMoves
  <2>2. CASE kind # o.kind
    <3>1. e[kind] = d[kind]
      BY <1>0, <2>2 DEF StepWrites
    <3> QED  BY <1>2, <3>1, ElsewhereGrows DEF KeyMoves
  <2>3. CASE kind = o.kind /\ o.id \notin {c.site, c.id}
    <3>1. Written(o, d[kind], e[kind])
      BY <1>0, <2>3 DEF StepWrites
    <3>2. /\ c.id \in DOMAIN d[kind] => c.id \in DOMAIN e[kind]
          /\ c.site \notin DOMAIN d[kind] => c.site \notin DOMAIN e[kind]
      BY <2>3, <3>1 DEF Written
    <3> QED  BY <1>2, <3>2, ElsewhereGrows DEF KeyMoves
  <2> QED  BY <2>1, <2>2, <2>3
<1> QED  BY <1>1, <1>2 DEF RenameOK

\* Another call's write keeps what a call holds.
LEMMA OthersOK ==
  ASSUME NEW p, NEW c, NEW d, NEW w, NEW o, NEW e, NEW v,
         StepWrites(o, d, w, e, v), Records(p, c, o, v), CallOK(p, c, d, w)
  PROVE  CallOK(p, c, e, v)
BY OthersBan, OthersRename DEF CallOK

\* A call that takes its first step off its plan.
Advances(b, c) ==
  /\ DOMAIN b = Fields /\ c = [b EXCEPT !.plan = Tail(@)]
  /\ b.pc = "write" /\ b.plan # << >> /\ StepsOK(b.op, b.plan)
\* The plan that is left, step for step.
LEMMA AdvanceFacts ==
  ASSUME NEW b, NEW c, Advances(b, c)
  PROVE  /\ DOMAIN c = Fields /\ c.pc = "write" /\ c.op = b.op /\ c.got = b.got
         /\ c.site = b.site /\ c.id = b.id /\ c.plan = Tail(b.plan)
         /\ Head(b.plan) = b.plan[1] /\ Len(b.plan) \in Nat \ {0} /\ Len(c.plan) = Len(b.plan) - 1
         /\ DOMAIN c.plan = 1..(Len(b.plan) - 1) /\ DOMAIN b.plan = 1..Len(b.plan)
         /\ \A k \in DOMAIN c.plan : k + 1 \in DOMAIN b.plan /\ c.plan[k] = b.plan[k+1]
         /\ \A k \in DOMAIN b.plan : k = 1 \/ (k - 1 \in DOMAIN c.plan /\ c.plan[k-1] = b.plan[k])
         /\ StepsOK(c.op, c.plan)
<1>1. /\ DOMAIN c = Fields /\ c.pc = "write" /\ c.op = b.op /\ c.got = b.got
      /\ c.site = b.site /\ c.id = b.id /\ c.plan = Tail(b.plan)
  BY DEF Advances, Fields
<1>2. IsSeq(b.plan) /\ b.plan # << >>
  BY DEF Advances, StepsOK
<1>3. /\ Head(b.plan) = b.plan[1] /\ Len(b.plan) \in Nat \ {0} /\ Len(c.plan) = Len(b.plan) - 1
      /\ DOMAIN c.plan = 1..(Len(b.plan) - 1) /\ DOMAIN b.plan = 1..Len(b.plan)
      /\ \A k \in 1..(Len(b.plan) - 1) : k + 1 \in DOMAIN b.plan /\ c.plan[k] = b.plan[k+1]
  BY <1>1, <1>2, TailOf, SeqDomain
<1>4. ASSUME NEW k \in DOMAIN b.plan, k # 1
      PROVE  k - 1 \in DOMAIN c.plan /\ c.plan[k-1] = b.plan[k]
  BY <1>3, <1>4
<1>5. StepsOK(c.op, c.plan)
  BY <1>1, StepsTail DEF Advances
<1> QED  BY <1>1, <1>3, <1>4, <1>5

\* The ban synchronisation's own steps.
LEMMA AdvanceBanSteps ==
  ASSUME NEW b, NEW c, Advances(b, c), \A k \in DOMAIN b.plan : BanStep(b.plan, k)
  PROVE  \A k \in DOMAIN c.plan :
           c.plan[k].kind = "ban" /\ c.plan[k].do # "find" /\ BanStep(c.plan, k)
<1>1. SUFFICES ASSUME NEW k \in DOMAIN c.plan
               PROVE  c.plan[k].kind = "ban" /\ c.plan[k].do # "find" /\ BanStep(c.plan, k)
  OBVIOUS
<1>2. /\ c.plan[k] = b.plan[k+1] /\ k + 1 \in DOMAIN b.plan /\ k \in Nat \ {0}
      /\ Len(b.plan) \in Nat /\ Len(c.plan) = Len(b.plan) - 1
  BY AdvanceFacts
<1>3. BanStep(b.plan, k + 1) /\ k + 1 # 1 /\ (k + 1 = Len(b.plan) => k = Len(c.plan))
  BY <1>2
<1> QED  BY <1>2, <1>3 DEF BanStep

\* The write of a ban makes the site deny, and no other stops denying.
LEMMA BanWritten ==
  ASSUME NEW o, NEW t, NEW T, NEW i, BanWrite(o, t, i), Written(o, t, T)
  PROVE  Denies(T, i) /\ \A j : Denies(t, j) => Denies(T, j)
<1>1. o.id \in DOMAIN T /\ T[o.id] = o.val /\ o.val.site = i /\ o.val.deny
  BY DEF BanWrite, Written
<1>2. ASSUME NEW j, j # i
      PROVE  PolicyFor(T, j) = PolicyFor(t, j)
  <2>1. ASSUME NEW x \in PolicyFor(T, j)
        PROVE  x \in PolicyFor(t, j)
    BY <1>1, <1>2, <2>1 DEF PolicyFor, Written
  <2>2. ASSUME NEW x \in PolicyFor(t, j)
        PROVE  x \in PolicyFor(T, j)
    <3>1. x # o.id
      BY <1>2, <2>2 DEF PolicyFor, BanWrite, Chosen, Written
    <3> QED  BY <2>2, <3>1 DEF PolicyFor, Written
  <2> QED  BY <2>1, <2>2
<1>3. Chosen(T, i, o.id)
  <2>1. o.id \in PolicyFor(T, i)
    BY <1>1 DEF PolicyFor
  <2>2. CASE o.do = "create" /\ o.id = PolicyId(i)
    BY <2>1, <2>2 DEF Chosen, PolicyId
  <2>3. CASE o.do = "update" /\ Chosen(t, i, o.id)
    <3>1. PolicyFor(T, i) = PolicyFor(t, i)
      BY <1>1, <2>3 DEF PolicyFor, Chosen, Written
    <3> QED  BY <2>1, <2>3, <3>1 DEF Chosen
  <2> QED  BY <2>2, <2>3 DEF BanWrite
<1>4. Denies(T, i)
  BY <1>1, <1>3 DEF Denies
<1>5. ASSUME NEW j, j # i, Denies(t, j)
      PROVE  Denies(T, j)
  <2>1. PICK x \in DOMAIN t : Chosen(t, j, x) /\ t[x].deny
    BY <1>5 DEF Denies
  <2>2. Chosen(T, j, x)
    BY <1>2, <1>5, <2>1 DEF Chosen
  <2>3. x \in DOMAIN T /\ T[x].site = j
    BY <2>2 DEF Chosen, PolicyFor
  <2>4. x # o.id
    BY <1>1, <1>5, <2>3
  <2>5. T[x] = t[x]
    BY <2>1, <2>3, <2>4 DEF Written
  <2> QED  BY <2>1, <2>2, <2>3, <2>5 DEF Denies
<1> QED  BY <1>4, <1>5

\* What a plan of bans owes when its first step is over.
LEMMA BanAdvanced ==
  ASSUME NEW b, NEW c, Advances(b, c), NEW s, BanPending(b.plan, s)
  PROVE  BanPending(c.plan, s) \/ (b.plan[1].kind = "ban" /\ b.plan[1].do = "resolve" /\ b.plan[1].id = s)
<1>1. PICK k \in DOMAIN b.plan :
        b.plan[k].kind = "ban" /\ b.plan[k].do = "resolve" /\ b.plan[k].id = s
  BY DEF BanPending
<1>2. CASE k = 1
  BY <1>1, <1>2
<1>3. CASE k # 1
  <2>1. k - 1 \in DOMAIN c.plan /\ c.plan[k-1] = b.plan[k]
    BY <1>3, AdvanceFacts
  <2> QED  BY <1>1, <2>1 DEF BanPending
<1> QED  BY <1>2, <1>3

LEMMA OwnBan ==
  ASSUME NEW p, NEW b, NEW c, NEW d, NEW w, NEW e, NEW v, Advances(b, c),
         StepWrites(Head(b.plan), d, w, e, v), BanOK(p, b, d, w)
  PROVE  BanOK(p, c, e, v)
<1> DEFINE o == Head(b.plan)
<1>1. SUFFICES ASSUME c.op = "bans.sync"
               PROVE  BanOK(p, c, e, v)
  BY DEF BanOK
<1>2. /\ \A k \in DOMAIN b.plan : BanStep(b.plan, k)
      /\ \/ Interfered(p, w)
         \/ /\ \A s \in DOMAIN b.got["sites"] :
                 BanPending(b.plan, s) \/ BanOwed(b.plan, d["access"], Resolved(d["sites"], s))
            /\ b.plan[1].kind = "access" => BanWrite(b.plan[1], d["access"], b.plan[1].val.site)
  BY <1>1, AdvanceFacts DEF BanOK, Advances
<1>3. 1 \in DOMAIN b.plan /\ o = b.plan[1] /\ c.got = b.got
  BY AdvanceFacts
<1>4. o.kind = "access"
  BY <1>2, <1>3 DEF BanStep, StepWrites, Documents, MovedKinds, SiteKinds, KeyKinds
<1>5. \A k \in DOMAIN c.plan : c.plan[k].kind = "ban" /\ BanStep(c.plan, k)
  BY <1>2, AdvanceBanSteps
<1>6. c.plan # << >> => c.plan[1].kind = "ban"
  <2>1. IsSeq(c.plan)
    BY AdvanceFacts DEF StepsOK
  <2> QED  BY <1>5, <2>1, SeqDomain
<1>7. CASE Interfered(p, w)
  <2>1. Interfered(p, v)
    BY <1>7 DEF Interfered, StepWrites
  <2> QED  BY <1>5, <2>1 DEF BanOK
<1>8. CASE ~Interfered(p, w)
  <2>0. e["sites"] = d["sites"]
    BY <1>4 DEF StepWrites, Documents
  <2>1. BanWrite(o, d["access"], o.val.site) /\ Written(o, d["access"], e["access"])
    BY <1>2, <1>3, <1>4, <1>8 DEF StepWrites, MovedKinds, SiteKinds
  <2>2. Denies(e["access"], o.val.site) /\ \A i : Denies(d["access"], i) => Denies(e["access"], i)
    BY <2>1, BanWritten
  <2>3. ASSUME NEW i, BanOwed(b.plan, d["access"], i)
        PROVE  Denies(e["access"], i)
    <3>1. BanWrite(o, d["access"], i) => i = o.val.site
      BY DEF BanWrite
    <3> QED  BY <1>3, <1>4, <2>2, <2>3, <3>1 DEF BanOwed, BanLooks
  <2>4. ASSUME NEW s \in DOMAIN c.got["sites"]
        PROVE  BanPending(c.plan, s) \/ Denies(e["access"], Resolved(e["sites"], s))
    <3>1. BanPending(b.plan, s) => BanPending(c.plan, s)
      BY <1>3, <1>4, BanAdvanced
    <3> QED  BY <1>2, <1>3, <1>8, <2>0, <2>3, <2>4, <3>1
  <2> QED  BY <1>5, <1>6, <2>4 DEF BanOK, BanOwed
<1> QED  BY <1>7, <1>8

\* The rename's own steps.
LEMMA AdvanceRenameSteps ==
  ASSUME NEW b, NEW c, Advances(b, c), \A k \in DOMAIN b.plan : RenameStep(b, b.plan, k)
  PROVE  \A k \in DOMAIN c.plan : RenameStep(c, c.plan, k)
<1>1. SUFFICES ASSUME NEW k \in DOMAIN c.plan
               PROVE  RenameStep(c, c.plan, k)
  OBVIOUS
<1>2. /\ c.plan[k] = b.plan[k+1] /\ k + 1 \in DOMAIN b.plan /\ k \in Nat \ {0}
      /\ c.id = b.id /\ c.site = b.site
  BY AdvanceFacts
<1>3. RenameStep(b, b.plan, k + 1)
  BY <1>2
<1>4. k + 2 \in DOMAIN b.plan => k + 1 \in DOMAIN c.plan /\ c.plan[k+1] = b.plan[k+2]
  <2>1. SUFFICES ASSUME k + 2 \in DOMAIN b.plan
                 PROVE  k + 1 \in DOMAIN c.plan /\ c.plan[k+1] = b.plan[k+2]
    OBVIOUS
  <2>2. (k + 2) - 1 = k + 1 /\ k + 2 # 1
    BY <1>2
  <2> QED  BY <2>1, <2>2, AdvanceFacts
<1>5. (k + 1) + 1 = k + 2
  BY <1>2
<1>6. ASSUME NEW m \in DOMAIN c.plan
      PROVE  c.plan[m] = b.plan[m+1] /\ m + 1 \in DOMAIN b.plan /\ m \in Nat
  BY AdvanceFacts
<1>7. c.plan[k].kind = "sites" /\ c.plan[k].do = "delete"
        => \A m \in DOMAIN c.plan : c.plan[m].kind \in MovedKinds => m < k
  BY <1>2, <1>3, <1>6 DEF RenameStep
<1>8. c.plan[k].kind = "patches" =>
        \/ c.plan[k].do = "create" /\ c.plan[k].val.site = c.id
        \/ /\ c.plan[k].do = "delete" /\ k + 1 \in DOMAIN c.plan
           /\ c.plan[k+1].kind = "patches" /\ c.plan[k+1].do = "create" /\ c.plan[k+1].id = c.plan[k].id
  BY <1>2, <1>3, <1>4, <1>5 DEF RenameStep
<1> QED  BY <1>2, <1>3, <1>7, <1>8 DEF RenameStep

\* A step that is still to be taken, or was the one just taken.
LEMMA AdvanceHas ==
  ASSUME NEW b, NEW c, Advances(b, c), NEW kind, NEW do, NEW id, Has(b.plan, kind, do, id)
  PROVE  \/ Has(c.plan, kind, do, id)
         \/ b.plan[1].kind = kind /\ b.plan[1].do = do /\ b.plan[1].id = id
<1>1. PICK k \in DOMAIN b.plan : b.plan[k].kind = kind /\ b.plan[k].do = do /\ b.plan[k].id = id
  BY DEF Has
<1>2. k = 1 \/ (k - 1 \in DOMAIN c.plan /\ c.plan[k-1] = b.plan[k])
  BY AdvanceFacts
<1> QED  BY <1>1, <1>2 DEF Has

\* The write of a rename moves the record its step names.
LEMMA OwnRename ==
  ASSUME NEW p, NEW b, NEW c, NEW d, NEW w, NEW e, NEW v, Advances(b, c),
         StepWrites(Head(b.plan), d, w, e, v), RenameOK(p, b, d, w)
  PROVE  RenameOK(p, c, e, v)
<1> DEFINE o == b.plan[1]
<1>1. SUFFICES ASSUME c.op = "site.rename"
               PROVE  RenameOK(p, c, e, v)
  BY DEF RenameOK
<1>2. /\ c.id = b.id /\ c.site = b.site /\ c.got = b.got /\ b.op = "site.rename" /\ b.pc = "write"
      /\ 1 \in DOMAIN b.plan /\ o = Head(b.plan)
  BY <1>1, AdvanceFacts DEF Advances
<1>3. /\ b.id # b.site
      /\ \A k \in DOMAIN b.plan : RenameStep(b, b.plan, k)
      /\ \A kind \in SiteKinds : \A id \in DOMAIN b.got[kind] :
           b.got[kind][id].site = b.site => RecordMoves(p, b, d, w, kind, id)
      /\ \A kind \in KeyKinds : b.site \in DOMAIN b.got[kind] => KeyMoves(p, b, d, w, kind)
  BY <1>2 DEF RenameOK
<1>4. RenameStep(b, b.plan, 1) /\ StepWrites(o, d, w, e, v)
  BY <1>2, <1>3
<1>5. \A k \in DOMAIN c.plan : RenameStep(c, c.plan, k)
  BY <1>3, AdvanceRenameSteps
<1>6. MovedKinds \subseteq Documents /\ MovedKinds = SiteKinds \cup KeyKinds
  BY DEF Documents, MovedKinds
<1>7. ASSUME NEW kind \in SiteKinds, NEW id, RecordMoves(p, b, d, w, kind, id)
      PROVE  RecordMoves(p, c, e, v, kind, id)
  <2> DEFINE do == IF kind = "patches" THEN "create" ELSE "update"
  <2>1. ASSUME o.kind = kind, o.do = do
        PROVE  o.id \in DOMAIN e[kind] /\ e[kind][o.id].site = c.id
    <3>1. Written(o, d[kind], e[kind])
      BY <1>4, <1>6, <2>1 DEF StepWrites
    <3>2. o.val.site = c.id
      BY <1>2, <1>4, <2>1 DEF RenameStep
    <3> QED  BY <2>1, <3>1, <3>2 DEF Written
  <2>2. CASE Elsewhere(p, w, kind, id)
    BY <1>4, <2>2, ElsewhereGrows DEF RecordMoves
  <2>3. CASE Has(b.plan, kind, do, id)
    <3>1. Has(c.plan, kind, do, id) \/ (o.kind = kind /\ o.do = do /\ o.id = id)
      BY <2>3, AdvanceHas
    <3> QED  BY <2>1, <3>1 DEF RecordMoves
  <2>4. CASE id \in DOMAIN d[kind] /\ d[kind][id].site = b.id
    <3>1. CASE o.kind # kind
      <4>1. e[kind] = d[kind]
        BY <1>4, <1>6, <3>1 DEF StepWrites
      <4> QED  BY <1>2, <2>4, <4>1 DEF RecordMoves
    <3>2. CASE o.kind = kind /\ o.id # id
      <4>1. Written(o, d[kind], e[kind])
        BY <1>4, <1>6, <3>2 DEF StepWrites
      <4>2. id \in DOMAIN e[kind] /\ e[kind][id] = d[kind][id]
        BY <2>4, <3>2, <4>1 DEF Written
      <4> QED  BY <1>2, <2>4, <4>2 DEF RecordMoves
    <3>3. CASE o.kind = kind /\ o.id = id /\ o.do = do
      BY <2>1, <3>3 DEF RecordMoves
    <3>4. CASE o.kind = kind /\ o.id = id /\ o.do # do
      <4>1. /\ kind = "patches" /\ 2 \in DOMAIN b.plan
            /\ b.plan[2].kind = "patches" /\ b.plan[2].do = "create" /\ b.plan[2].id = id
        BY <1>4, <3>4 DEF RenameStep
      <4>2. 2 - 1 \in DOMAIN c.plan /\ c.plan[2-1] = b.plan[2]
        BY <4>1, AdvanceFacts
      <4>3. Has(c.plan, "patches", "create", id)
        BY <4>1, <4>2 DEF Has
      <4> QED  BY <4>1, <4>3 DEF RecordMoves
    <3> QED  BY <3>1, <3>2, <3>3, <3>4
  <2> QED  BY <1>7, <2>2, <2>3, <2>4 DEF RecordMoves
<1>8. ASSUME NEW kind \in KeyKinds, KeyMoves(p, b, d, w, kind)
      PROVE  KeyMoves(p, c, e, v, kind)
  <2>1. o.kind = kind => Written(o, d[kind], e[kind])
    BY <1>4, <1>6 DEF StepWrites
  <2>2. o.kind = kind => (o.do = "create" /\ o.id = b.id) \/ (o.do = "delete" /\ o.id = b.site)
    BY <1>4 DEF RenameStep
  <2>3. o.kind # kind => e[kind] = d[kind]
    BY <1>4, <1>6 DEF StepWrites
  <2>4. CASE Elsewhere(p, w, kind, b.site) \/ Elsewhere(p, w, kind, b.id)
    <3>1. Elsewhere(p, v, kind, b.site) \/ Elsewhere(p, v, kind, b.id)
      BY <1>4, <2>4, ElsewhereGrows
    <3> QED  BY <1>2, <3>1 DEF KeyMoves
  <2>5. CASE ~(Elsewhere(p, w, kind, b.site) \/ Elsewhere(p, w, kind, b.id))
    <3>1. /\ Has(b.plan, kind, "create", b.id) \/ b.id \in DOMAIN d[kind]
          /\ Has(b.plan, kind, "delete", b.site) \/ b.site \notin DOMAIN d[kind]
      BY <1>8, <2>5 DEF KeyMoves
    <3>2. Has(c.plan, kind, "create", b.id) \/ b.id \in DOMAIN e[kind]
      <4>1. CASE Has(b.plan, kind, "create", b.id)
        <5>1. Has(c.plan, kind, "create", b.id) \/ (o.kind = kind /\ o.do = "create" /\ o.id = b.id)
          BY <4>1, AdvanceHas
        <5> QED  BY <2>1, <5>1 DEF Written
      <4>2. CASE b.id \in DOMAIN d[kind]
        BY <1>3, <2>1, <2>2, <2>3, <4>2 DEF Written
      <4> QED  BY <3>1, <4>1, <4>2
    <3>3. Has(c.plan, kind, "delete", b.site) \/ b.site \notin DOMAIN e[kind]
      <4>1. CASE Has(b.plan, kind, "delete", b.site)
        <5>1. Has(c.plan, kind, "delete", b.site) \/ (o.kind = kind /\ o.do = "delete" /\ o.id = b.site)
          BY <4>1, AdvanceHas
        <5> QED  BY <2>1, <5>1 DEF Written
      <4>2. CASE b.site \notin DOMAIN d[kind]
        BY <1>3, <2>1, <2>2, <2>3, <4>2 DEF Written
      <4> QED  BY <3>1, <4>1, <4>2
    <3> QED  BY <1>2, <3>2, <3>3 DEF KeyMoves
  <2> QED  BY <2>4, <2>5
<1> QED  BY <1>2, <1>3, <1>5, <1>7, <1>8 DEF RenameOK

\* Every store call keeps Inv, for the caller and for the others.
LEMMA StoresInv ==
  ASSUME Inv, NEW p \in Procs, Stores(p)
  PROVE  Inv'
<1> DEFINE b == call[p]
           c == [b EXCEPT !.plan = Tail(@)]
<1>1. /\ DocumentsOK(db) /\ HostsUnique(db["sites"]) /\ Paired(db["access"])
      /\ CallOK(p, b, db, touched)
  BY DEF Inv, DocumentsOK
<1>2. StoreResult(p)
  BY <1>1, StoresStep
<1>3. live' = live
  BY <1>2 DEF StoreResult
<1>4. CASE Done(p) /\ UNCHANGED <<db, history>>
  BY <1>3, <1>4, DoneStep DEF Inv, history
<1>5. CASE \E o, T : StoreStep(p, o, T)
  <2>1. PICK o, T : StoreStep(p, o, T)
    BY <1>5
  <2>2. /\ b.pc = "write" /\ b.plan # << >> /\ o = Head(b.plan) /\ o.kind \in Documents
        /\ db' = [db EXCEPT ![o.kind] = T] /\ Put(p, c)
        /\ touched' = touched \cup {<<o.kind, o.id, q>> : q \in {x \in Procs \ {p} : Watched(x)}}
        /\ o.kind \in MovedKinds \cup {"sites"} =>
             o.do \in {"create", "update", "delete"} /\ Written(o, db[o.kind], T)
        /\ (o.kind = "sites" => HostsUnique(T)) /\ (o.kind = "access" => Paired(T))
    BY <2>1 DEF StoreStep
  <2>3. DOMAIN b = Fields /\ StepsOK(b.op, b.plan)
    BY <1>1, <2>2 DEF CallOK, PlanOK
  <2>4. Advances(b, c) /\ StepOK(b.op, o)
    BY <2>2, <2>3, StepsTail DEF Advances
  <2>5. /\ DOMAIN db' = Documents /\ db'[o.kind] = T
        /\ \A x \in Documents : x # o.kind => db'[x] = db[x]
    BY <1>1, <2>2 DEF DocumentsOK
  <2>6. StepWrites(o, db, touched, db', touched')
    BY <2>2, <2>5 DEF StepWrites
  <2>7. DocumentsOK(db')
    <3>1. /\ DOMAIN db' = Documents /\ (o.kind = "sites" => HostsUnique(db'["sites"]))
          /\ (o.kind = "access" => Paired(db'["access"]))
      BY <2>2, <2>5
    <3> QED  BY <1>1, <2>4, <2>6, <3>1, DocumentsWritten
  <2>8. CallOK(p, c, db', touched')
    <3> HIDE DEF b, c
    <3>1. DOMAIN c = Fields /\ c.pc = "write" /\ StepsOK(c.op, c.plan)
      BY <2>4, AdvanceFacts
    <3> USE DEF b
    <3>2. BanOK(p, c, db', touched') /\ RenameOK(p, c, db', touched')
      BY <1>1, <2>2, <2>4, <2>6, OwnBan, OwnRename DEF CallOK
    <3> QED  BY <3>1, <3>2 DEF CallOK, ReadOK, SnapshotOK, PlanOK
  <2>9. DOMAIN call' = Procs /\ call'[p] = c /\ \A q \in Procs \ {p} : call'[q] = call[q]
    BY <2>2 DEF Inv, Put
  <2>10. ASSUME NEW q \in Procs
         PROVE  CallOK(q, call'[q], db', touched')
    <3>1. CASE q = p
      BY <2>8, <2>9, <3>1
    <3>2. CASE q # p
      <4>1. CallOK(q, call[q], db, touched)
        BY DEF Inv
      <4>2. Records(q, call[q], o, touched')
        BY <2>2, <3>2 DEF Records, Watched
      <4>3. CallOK(q, call[q], db', touched')
        BY <2>6, <4>1, <4>2, OthersOK
      <4> QED  BY <2>9, <3>2, <4>3
    <3> QED  BY <3>1, <3>2
  <2> QED  BY <1>3, <2>7, <2>9, <2>10 DEF Inv
<1> QED  BY <1>2, <1>4, <1>5 DEF StoreResult

(***************************************************************************)
(* Steps that change the plan only.                                        *)
(***************************************************************************)

\* The bans: a site looked at is passed over when it denies already.
LEMMA PassedOver ==
  ASSUME NEW p, NEW b, NEW c, NEW d, NEW w, Advances(b, c), CallOK(p, b, d, w),
         b.plan[1].kind = "ban", b.plan[1].do # "resolve",
         b.plan[1].do = "find" /\ b.op = "bans.sync" => Denies(d["access"], b.plan[1].id)
  PROVE  CallOK(p, c, d, w)
<1>1. /\ DOMAIN c = Fields /\ c.pc = "write" /\ StepsOK(c.op, c.plan) /\ c.op = b.op /\ c.got = b.got
      /\ 1 \in DOMAIN b.plan /\ b.pc = "write" /\ b.plan # << >>
  BY AdvanceFacts DEF Advances
<1>2. b.op # "site.rename"
  BY <1>1 DEF CallOK, RenameOK, RenameStep, RenameKinds, MovedKinds, SiteKinds, KeyKinds
<1>3. BanOK(p, c, d, w)
  <2>1. SUFFICES ASSUME b.op = "bans.sync"
                 PROVE  BanOK(p, c, d, w)
    BY <1>1 DEF BanOK
  <2>2. /\ \A k \in DOMAIN b.plan : BanStep(b.plan, k)
        /\ \/ Interfered(p, w)
           \/ \A s \in DOMAIN b.got["sites"] :
                BanPending(b.plan, s) \/ BanOwed(b.plan, d["access"], Resolved(d["sites"], s))
    BY <1>1, <2>1 DEF CallOK, BanOK
  <2>3. \A k \in DOMAIN c.plan : c.plan[k].kind = "ban" /\ BanStep(c.plan, k)
    BY <2>2, AdvanceBanSteps
  <2>4. c.plan # << >> => c.plan[1].kind = "ban"
    BY <1>1, <2>3, SeqDomain DEF StepsOK
  <2>5. ASSUME NEW i, BanOwed(b.plan, d["access"], i)
        PROVE  Denies(d["access"], i)
    BY <2>1, <2>5 DEF BanOwed, BanLooks, BanWrite
  <2>6. ASSUME NEW s, BanPending(b.plan, s)
        PROVE  BanPending(c.plan, s)
    BY <2>6, BanAdvanced
  <2> QED  BY <1>1, <2>2, <2>3, <2>4, <2>5, <2>6 DEF BanOK, BanOwed
<1> QED  BY <1>1, <1>2, <1>3 DEF CallOK, ReadOK, SnapshotOK, PlanOK, RenameOK

\* What Inv says of a call with a plan.
LEMMA AdvanceCall ==
  ASSUME Inv, NEW p \in Procs, call[p].pc = "write", call[p].plan # << >>
  PROVE  /\ Advances(call[p], [call[p] EXCEPT !.plan = Tail(@)])
         /\ CallOK(p, call[p], db, touched) /\ DocumentsOK(db)
         /\ Head(call[p].plan) = call[p].plan[1] /\ StepsOK(call[p].op, call[p].plan)
         /\ DOMAIN call[p] = Fields
<1>1. CallOK(p, call[p], db, touched) /\ DocumentsOK(db)
  BY DEF Inv
<1>2. DOMAIN call[p] = Fields /\ StepsOK(call[p].op, call[p].plan)
  BY <1>1 DEF CallOK, PlanOK
<1> QED  BY <1>1, <1>2, StepsTail DEF Advances

\* The address is marked: the step is over.
LEMMA MarkStep ==
  ASSUME Inv, NEW p \in Procs, markPromoted(p)
  PROVE  Inv'
<1> DEFINE b == call[p]
           c == [b EXCEPT !.plan = Tail(@)]
<1>1. /\ b.pc = "write" /\ b.plan # << >> /\ Head(b.plan).kind = "ban" /\ Head(b.plan).do = "mark"
      /\ Put(p, c) /\ UNCHANGED <<db, live, touched>>
  BY DEF markPromoted, BanAt, history
<1>2. Advances(b, c) /\ CallOK(p, b, db, touched) /\ Head(b.plan) = b.plan[1]
  BY <1>1, AdvanceCall
<1> HIDE DEF c
<1>3. CallOK(p, c, db, touched)
  BY <1>1, <1>2, PassedOver
<1> QED  BY <1>1, <1>3, PlainStep DEF Inv

\* A call whose first step is replaced by others.
Inserts(b, c, ins) ==
  /\ DOMAIN b = Fields /\ c = [b EXCEPT !.plan = ins \o Tail(@)]
  /\ b.pc = "write" /\ b.plan # << >> /\ StepsOK(b.op, b.plan) /\ StepsOK(b.op, ins)
\* A plan whose first step was replaced, step for step.
LEMMA InsertFacts ==
  ASSUME NEW b, NEW c, NEW ins, Inserts(b, c, ins)
  PROVE  /\ DOMAIN c = Fields /\ c.pc = "write" /\ c.op = b.op /\ c.got = b.got
         /\ c.site = b.site /\ c.id = b.id
         /\ 1 \in DOMAIN b.plan /\ Len(ins) \in Nat /\ Len(b.plan) \in Nat \ {0}
         /\ DOMAIN b.plan = 1..Len(b.plan)
         /\ Len(c.plan) = Len(ins) + Len(b.plan) - 1 /\ DOMAIN c.plan = 1..Len(c.plan)
         /\ \A k \in DOMAIN c.plan :
              \/ k \in DOMAIN ins /\ k <= Len(ins) /\ c.plan[k] = ins[k]
              \/ /\ k > Len(ins) /\ k - Len(ins) + 1 \in DOMAIN b.plan /\ k - Len(ins) + 1 > 1
                 /\ c.plan[k] = b.plan[k - Len(ins) + 1]
         /\ \A k \in DOMAIN b.plan : k > 1 =>
              k + Len(ins) - 1 \in DOMAIN c.plan /\ c.plan[k + Len(ins) - 1] = b.plan[k]
         /\ StepsOK(c.op, c.plan)
<1> DEFINE r == Tail(b.plan)
<1>1. /\ DOMAIN c = Fields /\ c.pc = "write" /\ c.op = b.op /\ c.got = b.got
      /\ c.site = b.site /\ c.id = b.id /\ c.plan = ins \o r
  BY DEF Inserts, Fields
<1>2. IsSeq(b.plan) /\ b.plan # << >> /\ IsSeq(ins)
  BY DEF Inserts, StepsOK
<1>3. /\ IsSeq(r) /\ Len(b.plan) \in Nat \ {0} /\ Len(r) = Len(b.plan) - 1
      /\ DOMAIN r = 1..(Len(b.plan) - 1)
      /\ \A k \in 1..(Len(b.plan) - 1) : k + 1 \in DOMAIN b.plan /\ r[k] = b.plan[k+1]
  BY <1>2, TailOf
<1>4. DOMAIN b.plan = 1..Len(b.plan)
  BY <1>2, SeqDomain
<1>5. StepsOK(c.op, c.plan)
  <2>1. StepsOK(b.op, r)
    BY StepsTail DEF Inserts
  <2> QED  BY <1>1, <2>1, StepsConcat DEF Inserts
<1> HIDE DEF r
<1>6. /\ Len(ins) \in Nat /\ Len(c.plan) = Len(ins) + Len(r) /\ DOMAIN ins = 1..Len(ins)
      /\ DOMAIN c.plan = 1..(Len(ins) + Len(r))
      /\ \A k \in 1..(Len(ins) + Len(r)) : c.plan[k] = IF k <= Len(ins) THEN ins[k] ELSE r[k - Len(ins)]
  <2>1. /\ Len(ins) \in Nat /\ Len(ins \o r) = Len(ins) + Len(r) /\ DOMAIN ins = 1..Len(ins)
        /\ DOMAIN (ins \o r) = 1..(Len(ins) + Len(r))
        /\ \A k \in 1..(Len(ins) + Len(r)) :
             (ins \o r)[k] = IF k <= Len(ins) THEN ins[k] ELSE r[k - Len(ins)]
    BY <1>2, <1>3, ConcatOf
  <2> QED  BY <1>1, <2>1
<1>7. ASSUME NEW k \in DOMAIN c.plan
      PROVE  \/ k \in DOMAIN ins /\ k <= Len(ins) /\ c.plan[k] = ins[k]
             \/ /\ k > Len(ins) /\ k - Len(ins) + 1 \in DOMAIN b.plan /\ k - Len(ins) + 1 > 1
                /\ c.plan[k] = b.plan[k - Len(ins) + 1]
  <2>1. CASE k <= Len(ins)
    BY <1>6, <2>1
  <2>2. CASE k > Len(ins)
    <3> DEFINE m == k - Len(ins)
    <3>0. k \in 1..(Len(ins) + Len(r)) /\ c.plan[k] = r[k - Len(ins)]
      BY <1>6, <2>2
    <3>1. m \in 1..(Len(b.plan) - 1) /\ c.plan[k] = r[m]
      BY <1>3, <1>6, <2>2, <3>0
    <3>2. m + 1 \in DOMAIN b.plan /\ r[m] = b.plan[m+1] /\ m + 1 > 1
      BY <1>3, <3>1
    <3> QED  BY <2>2, <3>1, <3>2
  <2> QED  BY <1>6, <2>1, <2>2
<1>8. ASSUME NEW k \in DOMAIN b.plan, k > 1
      PROVE  k + Len(ins) - 1 \in DOMAIN c.plan /\ c.plan[k + Len(ins) - 1] = b.plan[k]
  <2>1. k - 1 \in 1..(Len(b.plan) - 1) /\ (k - 1) + 1 = k
    BY <1>3, <1>4, <1>8
  <2>2. r[k-1] = b.plan[k]
    BY <1>3, <2>1
  <2> DEFINE m == k + Len(ins) - 1
  <2>3. m \in 1..(Len(ins) + Len(r)) /\ ~(m <= Len(ins)) /\ m - Len(ins) = k - 1
    <3>1. Len(ins) \in Nat /\ Len(r) \in Nat /\ k \in Nat /\ k - 1 \in 1..Len(r)
      BY <1>3, <1>4, <1>6, <2>1
    <3> QED  BY <3>1
  <2> HIDE DEF m
  <2>4. m \in DOMAIN c.plan /\ c.plan[m] = r[m - Len(ins)]
    BY <1>6, <2>3
  <2> QED  BY <2>2, <2>3, <2>4 DEF m
<1>9. 1 \in DOMAIN b.plan /\ Len(c.plan) = Len(ins) + Len(b.plan) - 1 /\ DOMAIN c.plan = 1..Len(c.plan)
  BY <1>3, <1>4, <1>6
<1> QED  BY <1>1, <1>3, <1>4, <1>5, <1>6, <1>7, <1>8, <1>9

\* A ban goes on from its name to its site, or from its site to its policy.
LEMMA BanReplaced ==
  ASSUME NEW p, NEW b, NEW c, NEW d, NEW w, NEW o, NEW i, Inserts(b, c, <<o>>), CallOK(p, b, d, w),
         b.plan[1].kind = "ban", b.plan[1].do \in {"resolve", "find"},
         b.plan[1].do = "resolve" => i = Resolved(d["sites"], b.plan[1].id),
         b.plan[1].do = "find" => i = b.plan[1].id,
         b.plan[1].val = TRUE => BanWrite(o, d["access"], i) \/ (BanLooks(o, i) /\ o.val = TRUE)
  PROVE  CallOK(p, c, d, w)
<1> DEFINE ins == <<o>>
<1>3. DOMAIN ins = {1} /\ Len(ins) = 1 /\ ins[1] = o
  BY ShortSeq
<1>0. Inserts(b, c, ins)
  OBVIOUS
<1> HIDE DEF ins
<1>1. /\ DOMAIN c = Fields /\ c.pc = "write" /\ StepsOK(c.op, c.plan) /\ c.op = b.op /\ c.got = b.got
      /\ 1 \in DOMAIN b.plan /\ b.pc = "write" /\ b.plan # << >>
  <2>1. b.pc = "write" /\ b.plan # << >>
    BY <1>0 DEF Inserts
  <2>2. /\ DOMAIN c = Fields /\ c.pc = "write" /\ StepsOK(c.op, c.plan) /\ c.op = b.op
        /\ c.got = b.got /\ 1 \in DOMAIN b.plan
    BY <1>0, InsertFacts
  <2> QED  BY <2>1, <2>2
<1>2. b.op # "site.rename"
  BY <1>1 DEF CallOK, RenameOK, RenameStep, RenameKinds, MovedKinds, SiteKinds, KeyKinds
<1>4. BanOK(p, c, d, w)
  <2>1. SUFFICES ASSUME b.op = "bans.sync"
                 PROVE  BanOK(p, c, d, w)
    BY <1>1 DEF BanOK
  <2>2. /\ \A k \in DOMAIN b.plan : BanStep(b.plan, k)
        /\ \/ Interfered(p, w)
           \/ \A s \in DOMAIN b.got["sites"] :
                BanPending(b.plan, s) \/ BanOwed(b.plan, d["access"], Resolved(d["sites"], s))
    BY <1>1, <2>1 DEF CallOK, BanOK
  <2>3. BanWrite(o, d["access"], i) \/ (BanLooks(o, i) /\ o.val = TRUE)
    BY <1>1, <2>2 DEF BanStep
  <2>0. /\ Len(b.plan) \in Nat \ {0} /\ Len(c.plan) = Len(ins) + Len(b.plan) - 1
        /\ DOMAIN c.plan = 1..Len(c.plan) /\ DOMAIN b.plan = 1..Len(b.plan)
        /\ \A k \in DOMAIN b.plan : k > 1 =>
             k + Len(ins) - 1 \in DOMAIN c.plan /\ c.plan[k + Len(ins) - 1] = b.plan[k]
    BY <1>0, InsertFacts
  <2>4. Len(b.plan) \in Nat \ {0} /\ Len(c.plan) = Len(b.plan) /\ DOMAIN c.plan = 1..Len(c.plan)
    BY <1>3, <2>0
  <2>5. c.plan[1] = o
    BY <1>3, <2>4, <1>0, InsertFacts
  <2>6. \A k \in DOMAIN c.plan : k > 1 => k \in DOMAIN b.plan /\ c.plan[k] = b.plan[k]
    <3>1. SUFFICES ASSUME NEW k \in DOMAIN c.plan, k > 1
                   PROVE  k \in DOMAIN b.plan /\ c.plan[k] = b.plan[k]
      OBVIOUS
    <3>2. k \in DOMAIN b.plan /\ k + Len(ins) - 1 = k
      BY <1>3, <2>0, <2>4, <3>1
    <3> QED  BY <2>0, <3>1, <3>2
  <2>7. \A k \in DOMAIN c.plan : BanStep(c.plan, k)
    <3>1. SUFFICES ASSUME NEW k \in DOMAIN c.plan
                   PROVE  BanStep(c.plan, k)
      OBVIOUS
    <3>2. CASE k = 1
      BY <2>3, <2>5, <3>2 DEF BanStep, BanWrite, BanLooks
    <3>3. CASE k > 1
      BY <2>2, <2>4, <2>6, <3>3 DEF BanStep
    <3> QED  BY <2>4, <3>2, <3>3
  <2>9. c.plan # << >>
    BY <2>4
  <2>10. BanOwed(c.plan, d["access"], i)
    BY <2>3, <2>5, <2>9 DEF BanOwed
  <2>8. ASSUME NEW s, BanPending(b.plan, s)
        PROVE  BanPending(c.plan, s) \/ BanOwed(c.plan, d["access"], Resolved(d["sites"], s))
    <3>1. PICK k \in DOMAIN b.plan :
            b.plan[k].kind = "ban" /\ b.plan[k].do = "resolve" /\ b.plan[k].id = s
      BY <2>8 DEF BanPending
    <3>2. CASE k = 1
      BY <2>10, <3>1, <3>2
    <3>3. CASE k > 1
      <4>1. k + Len(ins) - 1 = k
        BY <1>3, <2>0, <3>1
      <4>2. k \in DOMAIN c.plan /\ c.plan[k] = b.plan[k]
        BY <2>0, <3>1, <3>3, <4>1
      <4> QED  BY <3>1, <4>2 DEF BanPending
    <3>4. k \in Nat \ {0}
      BY <3>1, <1>0, InsertFacts
    <3> QED  BY <3>2, <3>3, <3>4
  <2>11. ASSUME NEW j, BanOwed(b.plan, d["access"], j)
         PROVE  BanOwed(c.plan, d["access"], j)
    BY <2>10, <2>11 DEF BanOwed, BanLooks, BanWrite
  <2>12. c.plan[1].kind = "access" => BanWrite(c.plan[1], d["access"], c.plan[1].val.site)
    BY <2>3, <2>5 DEF BanWrite, BanLooks
  <2> QED  BY <1>1, <2>2, <2>7, <2>8, <2>11, <2>12 DEF BanOK
<1> QED  BY <1>1, <1>2, <1>4 DEF CallOK, ReadOK, SnapshotOK, PlanOK, RenameOK

\* resolveSiteID goes on with the site it resolved the name to.
LEMMA ResolveStep ==
  ASSUME Inv, NEW p \in Procs, resolveSiteID(p)
  PROVE  Inv'
<1> DEFINE b == call[p]
           o == Head(b.plan)
           found == Alike(db["sites"], o.id) # {}
           to == IF found THEN Resolved(db["sites"], o.id) ELSE o.id
           find == Op("ban", "find", to, o.val)
           c == [b EXCEPT !.plan = <<find>> \o Tail(@)]
<1>1. /\ b.pc = "write" /\ b.plan # << >> /\ o.kind = "ban" /\ o.do = "resolve"
      /\ UNCHANGED <<db, live, touched>>
      /\ Done(p) \/ (Put(p, c) /\ (found \/ ~o.val))
  BY DEF resolveSiteID, BanAt, history
<1>2. /\ CallOK(p, b, db, touched) /\ o = b.plan[1] /\ StepsOK(b.op, b.plan) /\ DOMAIN b = Fields
  BY <1>1, AdvanceCall
<1> HIDE DEF found
<1>3. /\ find.kind = "ban" /\ find.do = "find" /\ find.id = to /\ find.val = o.val
      /\ StepOK(b.op, find)
  BY DEF Op, StepOK, SiteKinds
<1> HIDE DEF find
<1>4. StepsOK(b.op, <<find>>)
  BY <1>3, StepsShort
<1>5. Inserts(b, c, <<find>>)
  BY <1>1, <1>2, <1>4 DEF Inserts
<1> HIDE DEF c
<1>6. ASSUME found \/ ~o.val
      PROVE  CallOK(p, c, db, touched)
  <2> DEFINE i == Resolved(db["sites"], o.id)
  <2> HIDE DEF i
  <2>1. o.val = TRUE => to = i
    BY <1>6 DEF i
  <2> HIDE DEF to
  <2>2. o.val = TRUE => BanLooks(find, i) /\ find.val = TRUE
    BY <1>3, <2>1 DEF BanLooks
  <2> QED  BY <1>1, <1>2, <1>5, <2>2, BanReplaced DEF i
<1> QED  BY <1>1, <1>6, PlainStep, DoneStep DEF Inv

\* findBySite writes the policy it found, or has nothing to change.
LEMMA FindStep ==
  ASSUME Inv, NEW p \in Procs, findBySite(p)
  PROVE  Inv'
<1> DEFINE b == call[p]
           o == Head(b.plan)
           t == db["access"]
           ids == PolicyFor(t, o.id)
           both == {PolicyId(o.id), EasyId(o.id)} \subseteq ids
           first == IF ~both THEN CHOOSE id \in ids : TRUE
                    ELSE IF o.id \in EasyFirst THEN EasyId(o.id) ELSE PolicyId(o.id)
           same == IF ids = {} THEN ~o.val ELSE t[first].deny = o.val
           new == [site |-> o.id, deny |-> TRUE]
           write == IF ids = {} THEN Op("access", "create", PolicyId(o.id), new)
                    ELSE Op("access", "update", first, [t[first] EXCEPT !.deny = o.val])
           skip == [b EXCEPT !.plan = Tail(@)]
           c == [b EXCEPT !.plan = <<write>> \o Tail(@)]
<1>1. /\ b.pc = "write" /\ b.plan # << >> /\ o.kind = "ban" /\ o.do = "find"
      /\ UNCHANGED <<db, live, touched>>
      /\ \/ ~same /\ Put(p, c)
         \/ same /\ Put(p, skip)
         \/ Done(p)
  BY DEF findBySite, BanAt, history
<1>2. /\ Advances(b, skip) /\ CallOK(p, b, db, touched) /\ DocumentsOK(db) /\ o = b.plan[1]
      /\ StepsOK(b.op, b.plan) /\ DOMAIN b = Fields
  BY <1>1, AdvanceCall
<1>3. ids # {} => first \in ids
  OBVIOUS
<1>4. ids # {} => first \in DOMAIN t /\ t[first].site = o.id /\ "site" \in DOMAIN t[first]
                  /\ "deny" \in DOMAIN t[first]
  BY <1>2, <1>3 DEF PolicyFor, DocumentsOK, DocumentOK, Documents, MovedKinds, SiteKinds
<1>8. ids # {} => Chosen(t, o.id, first)
  <2>1. CASE both
    BY <1>3, <2>1 DEF Chosen, PolicyId
  <2>2. CASE ~both /\ ids # {}
    <3>1. ASSUME NEW x \in ids, x # first
          PROVE  FALSE
      <4>1. Paired(t) /\ x \in DOMAIN t /\ t[x].site = o.id
        BY <1>2, <3>1 DEF DocumentsOK, PolicyFor
      <4>2. {x, first} = {PolicyId(o.id), EasyId(o.id)}
        BY <1>4, <2>2, <3>1, <4>1 DEF Paired, isEasyCompatibilityPair
      <4> QED  BY <1>3, <2>2, <3>1, <4>2
    <3>2. ids = {first}
      BY <1>3, <2>2, <3>1
    <3> QED  BY <3>2 DEF Chosen
  <2> QED  BY <2>1, <2>2
<1> HIDE DEF first
<1>5. CASE ~same /\ Put(p, c)
  <2>1. write.kind = "access" /\ StepOK(b.op, write)
    <3>1. CASE ids = {}
      <4>1. "site" \in DOMAIN new /\ "deny" \in DOMAIN new
        OBVIOUS
      <4> HIDE DEF new
      <4> QED  BY <3>1, <4>1 DEF Op, StepOK
    <3>2. CASE ids # {}
      <4> DEFINE r == [t[first] EXCEPT !.deny = o.val]
      <4>1. "site" \in DOMAIN r /\ "deny" \in DOMAIN r
        BY <1>4, <3>2
      <4> HIDE DEF r
      <4>2. write = Op("access", "update", first, r)
        BY <3>2 DEF r
      <4> QED  BY <4>1, <4>2 DEF Op, StepOK
    <3> QED  BY <3>1, <3>2
  <2>2. ASSUME o.val = TRUE
        PROVE  BanWrite(write, t, o.id)
    <3>1. CASE ids = {}
      <4>1. new.site = o.id /\ new.deny = TRUE
        OBVIOUS
      <4> HIDE DEF new
      <4> QED  BY <3>1, <4>1 DEF Op, BanWrite
    <3>2. CASE ids # {}
      <4> DEFINE r == [t[first] EXCEPT !.deny = o.val]
      <4>1. r.site = o.id /\ r.deny = TRUE
        BY <1>4, <2>2, <3>2
      <4> HIDE DEF r
      <4>2. write = Op("access", "update", first, r)
        BY <3>2 DEF r
      <4> QED  BY <1>8, <3>2, <4>1, <4>2 DEF Op, BanWrite
    <3> QED  BY <3>1, <3>2
  <2> HIDE DEF write
  <2>3. StepsOK(b.op, <<write>>)
    BY <2>1, StepsShort
  <2>4. Inserts(b, c, <<write>>)
    BY <1>1, <1>2, <2>3 DEF Inserts
  <2> HIDE DEF c
  <2>5. CallOK(p, c, db, touched)
    BY <1>1, <1>2, <2>1, <2>2, <2>4, BanReplaced
  <2> QED  BY <1>1, <1>5, <2>5, PlainStep DEF Inv
<1>6. CASE same /\ Put(p, skip)
  <2>1. b.op = "bans.sync" => o.val = TRUE
    <3>1. 1 \in DOMAIN b.plan
      BY <1>1, <1>2, SeqDomain DEF StepsOK
    <3> QED  BY <1>1, <1>2, <3>1 DEF CallOK, BanOK, BanStep
  <2>2. b.op = "bans.sync" => Denies(db["access"], b.plan[1].id)
    BY <1>2, <1>4, <1>6, <1>8, <2>1 DEF Denies
  <2> HIDE DEF skip
  <2>3. CallOK(p, skip, db, touched)
    BY <1>1, <1>2, <2>2, PassedOver
  <2> QED  BY <1>1, <1>6, <2>3, PlainStep DEF Inv
<1>7. CASE Done(p)
  BY <1>1, <1>7, DoneStep DEF Inv
<1> QED  BY <1>1, <1>5, <1>6, <1>7

\* syncEasyToLegacy: the steps of each part.
LEMMA SyncPlanOK ==
  ASSUME NEW op, NEW o
  PROVE  StepsOK(op, SyncPlan(o))
<1> DEFINE off == [site |-> o.id, enabled |-> FALSE]
           list == [site |-> o.id, deny |-> o.val.deny]
           limit == [site |-> o.id, enabled |-> o.val.limit]
<1>1. "site" \in DOMAIN off /\ "site" \in DOMAIN list /\ "deny" \in DOMAIN list
      /\ "site" \in DOMAIN limit
  OBVIOUS
<1> HIDE DEF off, list, limit
<1>2. ASSUME NEW do, NEW id
      PROVE  StepOK(op, Op("waf", do, id, off)) /\ StepOK(op, Op("access", do, id, list))
             /\ StepOK(op, Op("rate", do, id, limit)) /\ StepOK(op, SyncNext(o, do))
  BY <1>1, OpStep DEF SiteKinds, SyncNext
<1>3. CASE o.do = "waf"
  <2>1. PICK do, id : SyncPlan(o) = <<Op("waf", do, id, off), SyncNext(o, "access")>>
    BY <1>3 DEF SyncPlan, off
  <2> QED  BY <1>2, <2>1, StepsShort
<1>4. CASE o.do = "access"
  <2>1. CASE SyncPlan(o) = << >>
    BY <2>1, StepsShort
  <2>2. CASE \E do, id : SyncPlan(o) = <<Op("access", do, id, list), SyncNext(o, "rate")>>
    BY <1>2, <2>2, StepsShort
  <2> QED  BY <1>4, <2>1, <2>2 DEF SyncPlan, list
<1>5. CASE o.do \notin {"waf", "access"}
  <2>1. PICK do, id : SyncPlan(o) = <<Op("rate", do, id, limit)>>
    BY <1>5 DEF SyncPlan, limit
  <2> QED  BY <1>2, <2>1, StepsShort
<1> QED  BY <1>3, <1>4, <1>5

\* syncEasyToLegacy replaces its step by a write and its next part.
LEMMA SyncStep ==
  ASSUME Inv, NEW p \in Procs, SyncEasyToLegacy(p)
  PROVE  Inv'
<1> DEFINE b == call[p]
           ins == SyncPlan(Head(b.plan))
           c == [b EXCEPT !.plan = ins \o Tail(@)]
<1>1. /\ b.pc = "write" /\ b.plan # << >> /\ Head(b.plan).kind = "sync"
      /\ Put(p, c) /\ UNCHANGED <<db, live, touched>>
  BY DEF SyncEasyToLegacy, history
<1>2. /\ CallOK(p, b, db, touched) /\ Head(b.plan) = b.plan[1]
      /\ StepsOK(b.op, b.plan) /\ DOMAIN b = Fields
  BY <1>1, AdvanceCall
<1>3. StepsOK(b.op, ins)
  BY SyncPlanOK
<1> HIDE DEF ins
<1>4. Inserts(b, c, ins)
  BY <1>1, <1>2, <1>3 DEF Inserts
<1> HIDE DEF c
<1>5. DOMAIN c = Fields /\ c.pc = "write" /\ c.op = b.op /\ StepsOK(c.op, c.plan) /\ 1 \in DOMAIN b.plan
  BY <1>4, InsertFacts
<1>6. b.op # "site.rename"
  BY <1>1, <1>2, <1>5 DEF CallOK, RenameOK, RenameStep, RenameKinds, MovedKinds, SiteKinds, KeyKinds
<1>7. b.op # "bans.sync"
  BY <1>1, <1>2, <1>5 DEF CallOK, BanOK, BanStep
<1>8. CallOK(p, c, db, touched)
  BY <1>5, <1>6, <1>7 DEF CallOK, ReadOK, SnapshotOK, PlanOK, BanOK, RenameOK
<1> QED  BY <1>1, <1>8, PlainStep DEF Inv

\* The rename replaces a step of its own by steps on other documents.
LEMMA RenameInserted ==
  ASSUME NEW p, NEW b, NEW c, NEW d, NEW w, NEW ins, Inserts(b, c, ins), CallOK(p, b, d, w),
         b.plan[1].kind = "rename",
         \A k \in DOMAIN ins : ins[k].kind \in {"rename", "certificates", "materials", "management"}
  PROVE  CallOK(p, c, d, w)
<1>1. /\ DOMAIN c = Fields /\ c.pc = "write" /\ c.op = b.op /\ c.got = b.got
      /\ c.site = b.site /\ c.id = b.id /\ 1 \in DOMAIN b.plan /\ StepsOK(c.op, c.plan)
      /\ b.pc = "write"
  <2>1. b.pc = "write"
    BY DEF Inserts
  <2>2. /\ DOMAIN c = Fields /\ c.pc = "write" /\ c.op = b.op /\ c.got = b.got
        /\ c.site = b.site /\ c.id = b.id /\ 1 \in DOMAIN b.plan /\ StepsOK(c.op, c.plan)
    BY InsertFacts
  <2> QED  BY <2>1, <2>2
<1>2. /\ Len(ins) \in Nat /\ Len(b.plan) \in Nat \ {0} /\ DOMAIN b.plan = 1..Len(b.plan)
      /\ DOMAIN c.plan = 1..Len(c.plan) /\ Len(c.plan) = Len(ins) + Len(b.plan) - 1
      /\ \A k \in DOMAIN c.plan :
           \/ k \in DOMAIN ins /\ k <= Len(ins) /\ c.plan[k] = ins[k]
           \/ /\ k > Len(ins) /\ k - Len(ins) + 1 \in DOMAIN b.plan /\ k - Len(ins) + 1 > 1
              /\ c.plan[k] = b.plan[k - Len(ins) + 1]
      /\ \A k \in DOMAIN b.plan : k > 1 =>
           k + Len(ins) - 1 \in DOMAIN c.plan /\ c.plan[k + Len(ins) - 1] = b.plan[k]
  BY InsertFacts
<1>3. b.op # "bans.sync"
  BY <1>1 DEF CallOK, BanOK, BanStep
<1>4. RenameOK(p, c, d, w)
  <2>1. SUFFICES ASSUME b.op = "site.rename"
                 PROVE  RenameOK(p, c, d, w)
    BY <1>1 DEF RenameOK
  <2>2. /\ b.id # b.site
        /\ \A k \in DOMAIN b.plan : RenameStep(b, b.plan, k)
        /\ \A kind \in SiteKinds : \A id \in DOMAIN b.got[kind] :
             b.got[kind][id].site = b.site => RecordMoves(p, b, d, w, kind, id)
        /\ \A kind \in KeyKinds : b.site \in DOMAIN b.got[kind] => KeyMoves(p, b, d, w, kind)
    BY <1>1, <2>1 DEF CallOK, RenameOK
  <2>3. ASSUME NEW kind \in MovedKinds, NEW do, NEW id, Has(b.plan, kind, do, id)
        PROVE  Has(c.plan, kind, do, id)
    <3>1. PICK k \in DOMAIN b.plan : b.plan[k].kind = kind /\ b.plan[k].do = do /\ b.plan[k].id = id
      BY <2>3 DEF Has
    <3>2. k # 1
      BY <3>1 DEF MovedKinds, SiteKinds, KeyKinds
    <3>3. k > 1
      BY <1>2, <3>2
    <3>4. k + Len(ins) - 1 \in DOMAIN c.plan /\ c.plan[k + Len(ins) - 1] = b.plan[k]
      BY <1>2, <3>3
    <3> QED  BY <3>1, <3>4 DEF Has
  <2>4. ASSUME NEW k \in DOMAIN c.plan
        PROVE  RenameStep(c, c.plan, k)
    <3>1. CASE c.plan[k].kind \in {"rename", "certificates", "materials", "management"}
      BY <3>1 DEF RenameStep, RenameKinds, MovedKinds, SiteKinds, KeyKinds
    <3>2. CASE c.plan[k].kind \notin {"rename", "certificates", "materials", "management"}
      <4> DEFINE m == k - Len(ins) + 1
      <4>1. m \in DOMAIN b.plan /\ m > 1 /\ c.plan[k] = b.plan[m]
        BY <1>2, <3>2
      <4>2. RenameStep(b, b.plan, m)
        BY <2>2, <4>1
      <4>3. m + 1 \in DOMAIN b.plan => k + 1 \in DOMAIN c.plan /\ c.plan[k+1] = b.plan[m+1]
        <5>0. k \in Int /\ Len(ins) \in Int
          BY <1>2
        <5>1. m \in Int /\ (m + 1) + Len(ins) - 1 = k + 1 /\ (m > 1 => m + 1 > 1)
          BY <5>0
        <5> HIDE DEF m
        <5> QED  BY <1>2, <4>1, <5>1
      <4>4. ASSUME NEW n \in DOMAIN c.plan, c.plan[n].kind \in MovedKinds, c.plan[k].kind = "sites",
                   c.plan[k].do = "delete"
            PROVE  n < k
        <5> DEFINE x == n - Len(ins) + 1
        <5>1. x \in DOMAIN b.plan /\ c.plan[n] = b.plan[x]
          BY <1>2, <4>4 DEF MovedKinds, SiteKinds, KeyKinds
        <5>2. x < m
          BY <4>1, <4>2, <4>4, <5>1 DEF RenameStep
        <5> QED  BY <1>2, <4>4, <5>2
      <4> HIDE DEF m
      <4> QED  BY <1>1, <4>1, <4>2, <4>3, <4>4 DEF RenameStep
    <3> QED  BY <3>1, <3>2
  <2>5. ASSUME NEW kind \in SiteKinds, NEW id, RecordMoves(p, b, d, w, kind, id)
        PROVE  RecordMoves(p, c, d, w, kind, id)
    BY <1>1, <2>3, <2>5 DEF RecordMoves, MovedKinds
  <2>6. ASSUME NEW kind \in KeyKinds, KeyMoves(p, b, d, w, kind)
        PROVE  KeyMoves(p, c, d, w, kind)
    BY <1>1, <2>3, <2>6 DEF KeyMoves, MovedKinds
  <2> QED  BY <1>1, <2>2, <2>4, <2>5, <2>6 DEF RenameOK
<1> QED  BY <1>1, <1>3, <1>4 DEF CallOK, ReadOK, SnapshotOK, PlanOK, BanOK

\* A step of the rename that is replaced by others keeps Inv.
LEMMA InsertStep ==
  ASSUME Inv, NEW p \in Procs, call[p].pc = "write", call[p].plan # << >>,
         Head(call[p].plan).kind = "rename", NEW ins,
         Put(p, [call[p] EXCEPT !.plan = ins \o Tail(@)]), UNCHANGED <<db, live, touched>>,
         IsSeq(ins),
         \A k \in DOMAIN ins : ins[k].kind \in {"rename", "certificates", "materials", "management"}
  PROVE  Inv'
<1> DEFINE b == call[p]
           c == [b EXCEPT !.plan = ins \o Tail(@)]
<1>1. /\ CallOK(p, b, db, touched) /\ Head(b.plan) = b.plan[1]
      /\ StepsOK(b.op, b.plan) /\ DOMAIN b = Fields
  BY AdvanceCall
<1>2. StepsOK(b.op, ins)
  BY DEF StepsOK, StepOK, SiteKinds
<1>3. Inserts(b, c, ins)
  BY <1>1, <1>2 DEF Inserts
<1>4. Put(p, c)
  OBVIOUS
<1> HIDE DEF c
<1>5. CallOK(p, c, db, touched)
  BY <1>1, <1>3, RenameInserted
<1> QED  BY <1>4, <1>5, PlainStep DEF Inv

\* The three steps of a rename that look before they write.
LEMMA RenameSteps ==
  ASSUME Inv, NEW p \in Procs, RenameCertificate(p) \/ RenameMaterial(p) \/ MoveManagementHost(p)
  PROVE  Inv'
<1> DEFINE Kinds == {"rename", "certificates", "materials", "management"}
           Fine(q) == IsSeq(q) /\ \A k \in DOMAIN q : q[k].kind \in Kinds
<1>1. Fine(<< >>)
  BY ShortSeq
<1>2. ASSUME NEW ins, Fine(ins), call[p].pc = "write", call[p].plan # << >>,
             Head(call[p].plan).kind = "rename",
             Put(p, [call[p] EXCEPT !.plan = ins \o Tail(@)]), UNCHANGED <<db, live, touched>>
      PROVE  Inv'
  BY <1>2, InsertStep
<1>3. ASSUME NEW kind \in Kinds, NEW do, NEW id, NEW val
      PROVE  Op(kind, do, id, val).kind \in Kinds
  BY DEF Op
<1>4. CASE RenameCertificate(p)
  <2> DEFINE o == Head(call[p].plan)
             x == Op("certificates", "create", o.val, db.certificates[o.id])
             y == Op("rename", "material", o.id, o.val)
             z == Op("certificates", "delete", o.id, None)
  <2>1. x.kind \in Kinds /\ y.kind \in Kinds /\ z.kind \in Kinds
    BY <1>3
  <2> HIDE DEF x, y, z
  <2>2. Fine(<<x, y, z>>)
    <3>1. <<x, y, z>> \in Seq({x, y, z}) /\ DOMAIN <<x, y, z>> = 1..3
          /\ \A k \in 1..3 : <<x, y, z>>[k] \in {x, y, z}
      OBVIOUS
    <3>2. IsSeq(<<x, y, z>>)
      BY <3>1, SeqIsSeq
    <3> QED  BY <2>1, <3>1, <3>2
  <2>3. PICK ins : /\ ins = << >> \/ ins = <<x, y, z>>
                   /\ call[p].pc = "write" /\ call[p].plan # << >> /\ o.kind = "rename"
                   /\ Put(p, [call[p] EXCEPT !.plan = ins \o Tail(@)]) /\ UNCHANGED <<db, live, touched>>
    BY <1>4 DEF RenameCertificate, x, y, z, history
  <2>4. Fine(ins)
    BY <1>1, <2>2, <2>3
  <2> HIDE DEF Fine
  <2> QED  BY <1>2, <2>3, <2>4
<1>5. CASE RenameMaterial(p)
  <2> DEFINE o == Head(call[p].plan)
             x == Op("materials", "put", o.val, None)
             y == Op("materials", "try delete", o.id, None)
  <2>1. x.kind \in Kinds /\ y.kind \in Kinds
    BY <1>3
  <2> HIDE DEF x, y
  <2>2. Fine(<<x, y>>)
    <3>1. <<x, y>> \in Seq({x, y}) /\ DOMAIN <<x, y>> = 1..2
          /\ \A k \in 1..2 : <<x, y>>[k] \in {x, y}
      OBVIOUS
    <3>2. IsSeq(<<x, y>>)
      BY <3>1, SeqIsSeq
    <3> QED  BY <2>1, <3>1, <3>2
  <2>3. PICK ins : /\ ins = << >> \/ ins = <<x, y>>
                   /\ call[p].pc = "write" /\ call[p].plan # << >> /\ o.kind = "rename"
                   /\ Put(p, [call[p] EXCEPT !.plan = ins \o Tail(@)]) /\ UNCHANGED <<db, live, touched>>
    BY <1>5 DEF RenameMaterial, x, y, history
  <2>4. Fine(ins)
    BY <1>1, <2>2, <2>3
  <2> HIDE DEF Fine
  <2> QED  BY <1>2, <2>3, <2>4
<1>6. CASE MoveManagementHost(p)
  <2> DEFINE o == Head(call[p].plan)
             m == db.management
             x == Op("management", "update", m.version, (m.hosts \ {o.id}) \cup {o.val})
  <2>1. x.kind \in Kinds
    BY <1>3
  <2> HIDE DEF x
  <2>2. Fine(<<x>>)
    <3>1. <<x>> \in Seq({x}) /\ DOMAIN <<x>> = 1..1 /\ \A k \in 1..1 : <<x>>[k] = x
      OBVIOUS
    <3>2. IsSeq(<<x>>)
      BY <3>1, SeqIsSeq
    <3> QED  BY <2>1, <3>1, <3>2
  <2>3. PICK ins : /\ ins = << >> \/ ins = <<x>>
                   /\ call[p].pc = "write" /\ call[p].plan # << >> /\ o.kind = "rename"
                   /\ Put(p, [call[p] EXCEPT !.plan = ins \o Tail(@)]) /\ UNCHANGED <<db, live, touched>>
    BY <1>6 DEF MoveManagementHost, x, history
  <2>4. Fine(ins)
    BY <1>1, <2>2, <2>3
  <2> HIDE DEF Fine
  <2> QED  BY <1>2, <2>3, <2>4
<1> QED  BY <1>4, <1>5, <1>6

(***************************************************************************)
(* Auto-apply and restart.                                                 *)
(***************************************************************************)

\* runAutoApply begins a snapshot.
LEMMA EndWritesStep ==
  ASSUME Inv, NEW p \in Procs, EndWrites(p)
  PROVE  Inv'
<1> DEFINE got == [materials |-> {}, patches |-> << >>]
           c == [Idle EXCEPT !.pc = "snapshot", !.op = call[p].op, !.reads = SnapshotReads,
                             !.got = got, !.ask = {<<"none", None>>}]
<1>1. (Put(p, c) \/ Done(p)) /\ UNCHANGED <<db, live, touched>>
  BY DEF EndWrites, history
<1> HIDE DEF got
<1>2. DOMAIN c = Fields /\ c.pc = "snapshot" /\ c.reads = SnapshotReads
  BY IdleFields DEF Fields
<1> HIDE DEF c
<1>3. CallOK(p, c, db, touched)
  BY <1>2 DEF CallOK, ReadOK, SnapshotOK, PlanOK, BanOK, RenameOK
<1> QED  BY <1>1, <1>3, PlainStep, DoneStep DEF Inv

\* The sites of a snapshot are not read again.
LEMMA SnapshotKept ==
  ASSUME NEW p, NEW b, NEW c, NEW d, NEW w, CallOK(p, b, d, w), b.pc = "snapshot",
         DOMAIN c = Fields, c.pc = "snapshot", c.reads = b.reads,
         "sites" \in DOMAIN b.got => "sites" \in DOMAIN c.got /\ c.got["sites"] = b.got["sites"]
  PROVE  CallOK(p, c, d, w)
BY DEF CallOK, ReadOK, SnapshotOK, PlanOK, BanOK, RenameOK

\* Material and patches are added to the snapshot.
LEMMA SnapshotSteps ==
  ASSUME Inv, NEW p \in Procs,
         \/ AskMaterials(p) \/ (\E x \in Certificates : ReadMaterial(p, x))
         \/ (\E i \in Sites : collectActiveVirtualPatches(p, i))
  PROVE  Inv'
<1> DEFINE b == call[p]
<1>0. CallOK(p, b, db, touched) /\ DOMAIN b = Fields
  BY DEF Inv, CallOK
<1>1. CASE AskMaterials(p)
  <2>1. PICK ask : b.pc = "snapshot" /\ Put(p, [b EXCEPT !.ask = ask]) /\ UNCHANGED <<db, live, touched>>
    BY <1>1 DEF AskMaterials, history
  <2> DEFINE c == [b EXCEPT !.ask = ask]
  <2>2. DOMAIN c = Fields /\ c.pc = b.pc /\ c.reads = b.reads /\ c.got = b.got
    BY <1>0 DEF Fields
  <2> HIDE DEF c
  <2>3. CallOK(p, c, db, touched)
    BY <1>0, <2>1, <2>2, SnapshotKept
  <2>4. Put(p, c)
    BY <2>1 DEF c
  <2> QED  BY <2>1, <2>3, <2>4, PlainStep DEF Inv
<1>2. ASSUME NEW ask, NEW field \in {"materials", "patches"}, NEW val, b.pc = "snapshot",
             Put(p, [b EXCEPT !.ask = ask, !.got = [@ EXCEPT ![field] = val]]),
             UNCHANGED <<db, live, touched>>
      PROVE  Inv'
  <2> DEFINE c == [b EXCEPT !.ask = ask, !.got = [@ EXCEPT ![field] = val]]
  <2>1. DOMAIN c = Fields /\ c.pc = b.pc /\ c.reads = b.reads /\ c.got = [b.got EXCEPT ![field] = val]
    BY <1>0 DEF Fields
  <2>2. Put(p, c)
    BY <1>2
  <2> HIDE DEF c
  <2>3. "sites" \in DOMAIN b.got => "sites" \in DOMAIN c.got /\ c.got["sites"] = b.got["sites"]
    BY <2>1
  <2>4. CallOK(p, c, db, touched)
    BY <1>0, <1>2, <2>1, <2>3, SnapshotKept
  <2> QED  BY <1>2, <2>2, <2>4, PlainStep DEF Inv
<1>3. ASSUME NEW x, ReadMaterial(p, x)
      PROVE  Inv'
  <2> DEFINE ask == b.ask \ {<<"material", x>>}
             val == IF MaterialsRead(db.materials, x) THEN b.got.materials \cup {x} ELSE b.got.materials
  <2>1. b.pc = "snapshot" /\ UNCHANGED <<db, live, touched>>
    BY <1>3 DEF ReadMaterial, history
  <2>2. Put(p, [b EXCEPT !.ask = ask, !.got = [@ EXCEPT !["materials"] = val]])
    BY <1>3 DEF ReadMaterial
  <2> HIDE DEF ask, val
  <2> QED  BY <1>2, <2>1, <2>2
<1>4. ASSUME NEW i, collectActiveVirtualPatches(p, i)
      PROVE  Inv'
  <2> DEFINE ask == b.ask \ {<<"patches", i>>}
             on == PatchesListActive(db.patches, i)
             val == [id \in on \cup DOMAIN b.got.patches |->
                       IF id \in on THEN db.patches[id] ELSE b.got.patches[id]]
  <2>1. b.pc = "snapshot" /\ UNCHANGED <<db, live, touched>>
    BY <1>4 DEF collectActiveVirtualPatches, history
  <2>2. Put(p, [b EXCEPT !.ask = ask, !.got = [@ EXCEPT !["patches"] = val]])
    BY <1>4 DEF collectActiveVirtualPatches
  <2> HIDE DEF ask, val
  <2> QED  BY <1>2, <2>1, <2>2
<1> QED  BY <1>1, <1>3, <1>4

\* What is published was compiled from a snapshot with distinct hosts.
LEMMA PublishStep ==
  ASSUME Inv, NEW p \in Procs, Publish(p)
  PROVE  Inv'
<1> DEFINE b == call[p]
<1>1. /\ b.pc = "snapshot" /\ b.reads = << >> /\ Done(p) /\ UNCHANGED <<db, touched>>
      /\ live' = live \/ (compileBundle(b.got) # Refused /\ live' = compileBundle(b.got))
  BY DEF Publish, history
<1>2. SoundBundle(live) /\ ServingBundle(live) /\ CallOK(p, b, db, touched)
  BY DEF Inv
<1>3. HostsUnique(b.got["sites"])
  BY <1>1, <1>2, SnapshotReadsFacts DEF CallOK, SnapshotOK
<1>4. SoundBundle(live') /\ ServingBundle(live')
  <2>1. CASE live' = live
    BY <1>2, <2>1
  <2>2. CASE compileBundle(b.got) # Refused /\ live' = compileBundle(b.got)
    <3>1. Compiled(b.got) /\ live' = Bundle(b.got)
      BY <2>2, CompiledBundle
    <3>2. b.got.sites = b.got["sites"]
      OBVIOUS
    <3>3. SoundBundle(Bundle(b.got)) /\ ServingBundle(Bundle(b.got))
      BY <1>3, <3>1, <3>2, CompiledSound, CompiledServing
    <3> QED  BY <3>1, <3>3
  <2> QED  BY <1>1, <2>1, <2>2
<1> QED  BY <1>1, <1>4, DoneStep

\* A restart ends the calls and keeps the documents.
LEMMA RestartStep ==
  ASSUME Inv, Restart
  PROVE  Inv'
<1>1. /\ call' = [p \in Procs |-> IF call[p].pc = "idle" THEN Idle ELSE [Idle EXCEPT !.pc = "done"]]
      /\ db' = db /\ live' = live /\ touched' = touched
  BY DEF Restart, history
<1>2. DOMAIN call' = Procs
  BY <1>1
<1>3. ASSUME NEW p \in Procs
      PROVE  CallOK(p, call'[p], db', touched')
  <2>1. call'[p] = Idle \/ call'[p] = [Idle EXCEPT !.pc = "done"]
    BY <1>1
  <2> QED  BY <2>1, EndedOK
<1> QED  BY <1>1, <1>2, <1>3 DEF Inv

(***************************************************************************)
(* The plan of a rename. It is put together from parts, each of which has  *)
(* what RenameStep asks of a step but its place before the removal.        *)
(***************************************************************************)

\* The ids of a finite document, in some order.
LEMMA ListedIds ==
  ASSUME NEW S, IsFiniteSet(S)
  PROVE  /\ IsSeq(Listed(S)) /\ Len(Listed(S)) \in Nat /\ DOMAIN Listed(S) = 1..Len(Listed(S))
         /\ \A k \in DOMAIN Listed(S) : Listed(S)[k] \in S
         /\ \A x \in S : \E k \in DOMAIN Listed(S) : Listed(S)[k] = x
<1> DEFINE n == Cardinality(S)
<1>1. n \in Nat /\ ExistsBijection(1..n, S)
  BY FS_CardinalityType
<1>2. PICK f \in [1..n -> S] : \A x \in S : \E k \in 1..n : f[k] = x
  BY <1>1 DEF ExistsBijection, Bijection, Injection, Surjection
<1>3. {f[k] : k \in DOMAIN f} = S
  BY <1>2
<1>4. Listed(S) \in [1..n -> S] /\ {Listed(S)[k] : k \in DOMAIN Listed(S)} = S
  <2>1. \E q \in [1..n -> S] : {q[k] : k \in DOMAIN q} = S
    BY <1>3
  <2> QED  BY <2>1, Zenon DEF Listed
<1> HIDE DEF n
<1>5. IsSeq(Listed(S)) /\ Len(Listed(S)) = n /\ DOMAIN Listed(S) = 1..n
  BY <1>1, <1>4, FunctionIsSeq
<1> QED  BY <1>1, <1>4, <1>5

PartStep(c, q, k) ==
  LET o == q[k] IN
  /\ o.kind \in RenameKinds
  /\ o.kind \in SiteKinds \ {"patches"} => o.do = "update" /\ o.val.site = c.id
  /\ o.kind = "patches" => \/ o.do = "create" /\ o.val.site = c.id
                           \/ /\ o.do = "delete" /\ k + 1 \in DOMAIN q
                              /\ q[k+1].kind = "patches" /\ q[k+1].do = "create" /\ q[k+1].id = o.id
  /\ o.kind \in KeyKinds => \/ o.do = "create" /\ o.id = c.id
                            \/ o.do = "delete" /\ o.id = c.site
Part(c, q) ==
  /\ StepsOK("site.rename", q)
  /\ \A k \in DOMAIN q : PartStep(c, q, k) /\ ~(q[k].kind = "sites" /\ q[k].do = "delete")

\* Where the steps of two plans are in their concatenation.
Joins(s, t, q) ==
  /\ Len(s) \in Nat /\ DOMAIN s = 1..Len(s) /\ DOMAIN t = 1..Len(t) /\ Len(t) \in Nat
  /\ \A k \in DOMAIN s : k \in DOMAIN q /\ q[k] = s[k]
  /\ \A k \in DOMAIN t : Len(s) + k \in DOMAIN q /\ q[Len(s) + k] = t[k]
  /\ \A k \in DOMAIN q : k \in DOMAIN s \/ (\E m \in DOMAIN t : k = Len(s) + m)
LEMMA ConcatPlaces ==
  ASSUME NEW s, NEW t, IsSeq(s), IsSeq(t)
  PROVE  Joins(s, t, s \o t)
<1>1. /\ Len(s) \in Nat /\ DOMAIN s = 1..Len(s) /\ DOMAIN t = 1..Len(t) /\ Len(t) \in Nat
      /\ DOMAIN (s \o t) = 1..(Len(s) + Len(t)) /\ IsSeq(s \o t)
      /\ \A k \in 1..(Len(s) + Len(t)) : (s \o t)[k] = IF k <= Len(s) THEN s[k] ELSE t[k - Len(s)]
  BY ConcatOf
<1>2. ASSUME NEW k \in DOMAIN s
      PROVE  k \in DOMAIN (s \o t) /\ (s \o t)[k] = s[k]
  BY <1>1
<1>3. ASSUME NEW k \in DOMAIN t
      PROVE  Len(s) + k \in DOMAIN (s \o t) /\ (s \o t)[Len(s) + k] = t[k]
  <2>1. Len(s) + k \in 1..(Len(s) + Len(t)) /\ ~(Len(s) + k <= Len(s)) /\ Len(s) + k - Len(s) = k
    BY <1>1
  <2> QED  BY <1>1, <2>1
<1>4. ASSUME NEW k \in DOMAIN (s \o t), k \notin DOMAIN s
      PROVE  \E m \in DOMAIN t : k = Len(s) + m
  <2>1. k - Len(s) \in 1..Len(t) /\ k = Len(s) + (k - Len(s))
    BY <1>1, <1>4
  <2> QED  BY <1>1, <2>1
<1> QED  BY <1>1, <1>2, <1>3, <1>4 DEF Joins

\* A step of either plan is a step of their concatenation.
LEMMA HasConcat ==
  ASSUME NEW s, NEW t, IsSeq(s), IsSeq(t), NEW kind, NEW do, NEW id
  PROVE  /\ Has(s, kind, do, id) => Has(s \o t, kind, do, id)
         /\ Has(t, kind, do, id) => Has(s \o t, kind, do, id)
<1> DEFINE q == s \o t
<1>1. Joins(s, t, q)
  BY ConcatPlaces
<1> HIDE DEF q
<1>2. /\ Has(s, kind, do, id) => Has(q, kind, do, id)
      /\ Has(t, kind, do, id) => Has(q, kind, do, id)
  BY <1>1 DEF Joins, Has
<1> QED  BY <1>2 DEF q

\* Parts put one after the other are a part.
LEMMA PartConcat ==
  ASSUME NEW c, NEW s, NEW t, Part(c, s), Part(c, t)
  PROVE  Part(c, s \o t)
<1>1. IsSeq(s) /\ IsSeq(t) /\ StepsOK("site.rename", s \o t)
  BY StepsConcat DEF Part, StepsOK
<1> DEFINE q == s \o t
<1>2. /\ Len(s) \in Nat /\ DOMAIN s = 1..Len(s) /\ DOMAIN t = 1..Len(t) /\ Len(t) \in Nat
      /\ \A k \in DOMAIN s : k \in DOMAIN q /\ q[k] = s[k]
      /\ \A k \in DOMAIN t : Len(s) + k \in DOMAIN q /\ q[Len(s) + k] = t[k]
      /\ \A k \in DOMAIN q : k \in DOMAIN s \/ (\E m \in DOMAIN t : k = Len(s) + m)
  <2>1. Joins(s, t, q)
    BY <1>1, ConcatPlaces
  <2> HIDE DEF q
  <2> QED  BY <2>1 DEF Joins
<1> HIDE DEF q
<1>3. ASSUME NEW k \in DOMAIN q
      PROVE  PartStep(c, q, k) /\ ~(q[k].kind = "sites" /\ q[k].do = "delete")
  <2>1. CASE k \in DOMAIN s
    <3>1. q[k] = s[k] /\ PartStep(c, s, k) /\ ~(s[k].kind = "sites" /\ s[k].do = "delete")
      BY <1>2, <2>1 DEF Part
    <3>2. k + 1 \in DOMAIN s => k + 1 \in DOMAIN q /\ q[k+1] = s[k+1]
      BY <1>2
    <3> QED  BY <3>1, <3>2 DEF PartStep
  <2>2. ASSUME NEW m \in DOMAIN t, k = Len(s) + m
        PROVE  PartStep(c, q, k) /\ ~(q[k].kind = "sites" /\ q[k].do = "delete")
    <3>1. q[k] = t[m] /\ PartStep(c, t, m) /\ ~(t[m].kind = "sites" /\ t[m].do = "delete")
      BY <1>2, <2>2 DEF Part
    <3>2. Len(s) + (m + 1) = k + 1
      BY <1>2, <2>2
    <3>3. m + 1 \in DOMAIN t => k + 1 \in DOMAIN q /\ q[k+1] = t[m+1]
      BY <1>2, <3>2
    <3> QED  BY <3>1, <3>3 DEF PartStep
  <2> QED  BY <1>2, <2>1, <2>2
<1> QED  BY <1>1, <1>3 DEF Part, q

\* Parts of at most two steps that stand for themselves.
OwnStep(c, o) ==
  /\ o.kind \in KeyKinds \cup {"rename", "sites"}
  /\ o.kind \in KeyKinds => \/ o.do = "create" /\ o.id = c.id
                            \/ o.do = "delete" /\ o.id = c.site
  /\ o.kind = "sites" => o.do # "delete"
\* Such a step is in order wherever it stands.
LEMMA OwnStepOK ==
  ASSUME NEW c, NEW o, OwnStep(c, o), NEW q, NEW k, q[k] = o
  PROVE  StepOK("site.rename", o) /\ PartStep(c, q, k) /\ ~(q[k].kind = "sites" /\ q[k].do = "delete")
<1>1. StepOK("site.rename", o)
  BY DEF StepOK, KeyKinds, SiteKinds, OwnStep
<1>2. o.kind \in RenameKinds /\ o.kind \notin SiteKinds
  BY DEF RenameKinds, MovedKinds, SiteKinds, KeyKinds, OwnStep
<1>3. PartStep(c, q, k) /\ ~(q[k].kind = "sites" /\ q[k].do = "delete")
  BY <1>2 DEF PartStep, SiteKinds, OwnStep
<1> QED  BY <1>1, <1>3
LEMMA ShortParts ==
  ASSUME NEW c, NEW a, NEW b
  PROVE  /\ Part(c, << >>)
         /\ OwnStep(c, a) => Part(c, <<a>>)
         /\ OwnStep(c, a) /\ OwnStep(c, b) => Part(c, <<a, b>>)
<1>1. Part(c, << >>)
  BY StepsShort, ShortSeq DEF Part
<1>2. ASSUME OwnStep(c, a)
      PROVE  Part(c, <<a>>)
  <2> DEFINE q == <<a>>
  <2>1. DOMAIN q = {1} /\ q[1] = a
    BY ShortSeq
  <2>2. StepsOK("site.rename", q)
    BY <1>2, <2>1, OwnStepOK, StepsShort
  <2> HIDE DEF q
  <2>3. PartStep(c, q, 1) /\ ~(q[1].kind = "sites" /\ q[1].do = "delete")
    BY <1>2, <2>1, OwnStepOK
  <2> QED  BY <2>1, <2>2, <2>3 DEF Part, q
<1>3. ASSUME OwnStep(c, a), OwnStep(c, b)
      PROVE  Part(c, <<a, b>>)
  <2> DEFINE q == <<a, b>>
  <2>1. DOMAIN q = {1, 2} /\ q[1] = a /\ q[2] = b
    BY ShortSeq
  <2>2. StepsOK("site.rename", q)
    BY <1>3, <2>1, OwnStepOK, StepsShort
  <2> HIDE DEF q
  <2>3. PartStep(c, q, 1) /\ ~(q[1].kind = "sites" /\ q[1].do = "delete")
    BY <1>3, <2>1, OwnStepOK
  <2>4. PartStep(c, q, 2) /\ ~(q[2].kind = "sites" /\ q[2].do = "delete")
    BY <1>3, <2>1, OwnStepOK
  <2>5. \A k \in DOMAIN q : PartStep(c, q, k) /\ ~(q[k].kind = "sites" /\ q[k].do = "delete")
    BY <2>1, <2>3, <2>4
  <2> QED  BY <2>2, <2>5 DEF Part, q
<1> QED  BY <1>1, <1>2, <1>3

\* The steps of a short plan.
LEMMA ShortHas ==
  ASSUME NEW kind, NEW do, NEW id, NEW val, NEW o
  PROVE  /\ Has(<<Op(kind, do, id, val)>>, kind, do, id)
         /\ Has(<<Op(kind, do, id, val), o>>, kind, do, id)
         /\ Has(<<o, Op(kind, do, id, val)>>, kind, do, id)
<1> DEFINE x == Op(kind, do, id, val)
<1>1. x.kind = kind /\ x.do = do /\ x.id = id
  BY DEF Op
<1> HIDE DEF x
<1>2. /\ DOMAIN <<x>> = {1} /\ <<x>>[1] = x /\ DOMAIN <<x, o>> = {1, 2} /\ <<x, o>>[1] = x
      /\ DOMAIN <<o, x>> = {1, 2} /\ <<o, x>>[2] = x
  BY ShortSeq
<1>3. Has(<<x>>, kind, do, id)
  BY <1>1, <1>2 DEF Has
<1>4. Has(<<x, o>>, kind, do, id)
  BY <1>1, <1>2 DEF Has
<1>5. Has(<<o, x>>, kind, do, id)
  BY <1>1, <1>2 DEF Has
<1> QED  BY <1>3, <1>4, <1>5 DEF x

\* The records of a document that name the old site, each written once with
\* the new one.
AtSite(t, s) == {id \in DOMAIN t : t[id].site = s}
LEMMA MoveAllPart ==
  ASSUME NEW c, NEW kind \in SiteKinds \ {"patches"}, NEW t, DocumentOK(kind, t)
  PROVE  /\ Part(c, MoveAll(kind, t, c.site, c.id))
         /\ \A id \in AtSite(t, c.site) : Has(MoveAll(kind, t, c.site, c.id), kind, "update", id)
<1> DEFINE S == AtSite(t, c.site)
           ids == Listed(S)
           q == MoveAll(kind, t, c.site, c.id)
           n == Len(ids)
<1>1. S \in SUBSET DOMAIN t /\ IsFiniteSet(DOMAIN t)
  BY DEF DocumentOK, AtSite
<1>2. IsFiniteSet(S)
  BY <1>1, FS_Subset
<1>3. q = [k \in DOMAIN ids |-> Op(kind, "update", ids[k], [t[ids[k]] EXCEPT !.site = c.id])]
  BY DEF MoveAll, AtSite
<1> HIDE DEF S
<1>4. /\ n \in Nat /\ DOMAIN ids = 1..n /\ \A k \in 1..n : ids[k] \in S
      /\ \A x \in S : \E k \in 1..n : ids[k] = x
  BY <1>2, ListedIds
<1> HIDE DEF ids, n
<1>5. DOMAIN q = 1..n
  BY <1>3, <1>4
<1>6. ASSUME NEW k \in 1..n
      PROVE  /\ q[k].kind = kind /\ q[k].do = "update" /\ q[k].id = ids[k]
             /\ q[k].val = [t[ids[k]] EXCEPT !.site = c.id]
  BY <1>3, <1>4 DEF Op
<1>7. ASSUME NEW k \in 1..n
      PROVE  /\ "site" \in DOMAIN q[k].val /\ q[k].val.site = c.id
             /\ kind = "access" => "deny" \in DOMAIN q[k].val
  <2>1. ids[k] \in DOMAIN t
    BY <1>1, <1>4
  <2>2. "site" \in DOMAIN t[ids[k]] /\ (kind = "access" => "deny" \in DOMAIN t[ids[k]])
    BY <2>1 DEF DocumentOK
  <2> QED  BY <1>6, <2>2
<1>8. q \in [1..n -> {q[k] : k \in 1..n}]
  BY <1>3, <1>4
<1> HIDE DEF q
<1>9. IsSeq(q)
  BY <1>4, <1>8, FunctionIsSeq
<1>10. ASSUME NEW k \in 1..n
       PROVE  StepOK("site.rename", q[k])
  BY <1>6, <1>7 DEF StepOK, SiteKinds
<1>11. ASSUME NEW k \in 1..n
       PROVE  PartStep(c, q, k) /\ ~(q[k].kind = "sites" /\ q[k].do = "delete")
  <2>1. kind \in RenameKinds /\ kind \notin KeyKinds /\ kind # "sites" /\ kind # "patches"
    BY DEF RenameKinds, MovedKinds, SiteKinds, KeyKinds
  <2> QED  BY <1>6, <1>7, <2>1 DEF PartStep
<1>12. Part(c, q)
  BY <1>5, <1>9, <1>10, <1>11 DEF Part, StepsOK
<1>13. ASSUME NEW id \in S
       PROVE  Has(q, kind, "update", id)
  <2>1. PICK k \in 1..n : ids[k] = id
    BY <1>4
  <2>2. q[k].kind = kind /\ q[k].do = "update" /\ q[k].id = id /\ k \in DOMAIN q
    BY <1>5, <1>6, <2>1
  <2> QED  BY <2>2 DEF Has
<1> QED  BY <1>12, <1>13 DEF q, S

\* The patches of the old site, each removed and made again.
LEMMA MovePatchesPart ==
  ASSUME NEW c, NEW t, DocumentOK("patches", t)
  PROVE  /\ Part(c, MovePatches(t, c.site, c.id))
         /\ \A id \in AtSite(t, c.site) : Has(MovePatches(t, c.site, c.id), "patches", "create", id)
<1> DEFINE S == AtSite(t, c.site)
           ids == Listed(S)
           q == MovePatches(t, c.site, c.id)
           n == Len(ids)
           at(k) == ids[(k + 1) \div 2]
<1>1. S \in SUBSET DOMAIN t /\ IsFiniteSet(DOMAIN t)
  BY DEF DocumentOK, AtSite, SiteKinds
<1>2. IsFiniteSet(S)
  BY <1>1, FS_Subset
<1>3. q = [k \in 1..(2 * n) |->
             IF k % 2 = 1 THEN Op("patches", "delete", at(k), None)
             ELSE Op("patches", "create", at(k), [t[at(k)] EXCEPT !.site = c.id])]
  BY DEF MovePatches, AtSite
<1> HIDE DEF S
<1>4. /\ n \in Nat /\ DOMAIN ids = 1..n /\ \A k \in 1..n : ids[k] \in S
      /\ \A x \in S : \E k \in 1..n : ids[k] = x
  BY <1>2, ListedIds
<1> HIDE DEF ids, n
<1>5. DOMAIN q = 1..(2 * n) /\ 2 * n \in Nat
  BY <1>3, <1>4
<1>6. ASSUME NEW k \in 1..(2 * n)
      PROVE  at(k) \in S
  <2>1. (k + 1) \div 2 \in 1..n
    BY <1>4
  <2> QED  BY <1>4, <2>1
<1> HIDE DEF at
<1>7. ASSUME NEW k \in 1..(2 * n)
      PROVE  /\ q[k].kind = "patches" /\ q[k].id = at(k)
             /\ k % 2 = 1 => q[k].do = "delete"
             /\ k % 2 # 1 => q[k].do = "create" /\ q[k].val = [t[at(k)] EXCEPT !.site = c.id]
  BY <1>3 DEF Op
<1>8. ASSUME NEW k \in 1..(2 * n), k % 2 # 1
      PROVE  "site" \in DOMAIN q[k].val /\ q[k].val.site = c.id
  <2>1. at(k) \in DOMAIN t
    BY <1>1, <1>6
  <2>2. "site" \in DOMAIN t[at(k)]
    BY <2>1 DEF DocumentOK, SiteKinds
  <2> QED  BY <1>7, <1>8, <2>2
<1>9. q \in [1..(2 * n) -> {q[k] : k \in 1..(2 * n)}]
  BY <1>3
<1> HIDE DEF q
<1>10. IsSeq(q)
  BY <1>5, <1>9, FunctionIsSeq
<1>11. ASSUME NEW k \in 1..(2 * n)
       PROVE  StepOK("site.rename", q[k])
  BY <1>7, <1>8 DEF StepOK, SiteKinds
<1>12. ASSUME NEW k \in 1..(2 * n)
       PROVE  PartStep(c, q, k) /\ ~(q[k].kind = "sites" /\ q[k].do = "delete")
  <2>1. CASE k % 2 # 1
    BY <1>7, <1>8, <2>1 DEF PartStep, RenameKinds, MovedKinds, SiteKinds, KeyKinds
  <2>2. CASE k % 2 = 1
    <3>1. k + 1 \in 1..(2 * n) /\ (k + 1) % 2 # 1 /\ (k + 1 + 1) \div 2 = (k + 1) \div 2
      BY <1>4, <2>2
    <3>2. at(k + 1) = at(k)
      BY <3>1 DEF at
    <3>3. q[k+1].kind = "patches" /\ q[k+1].do = "create" /\ q[k+1].id = q[k].id
      <4> DEFINE m == k + 1
      <4>1. m \in 1..(2 * n) /\ m % 2 # 1 /\ at(m) = at(k)
        BY <3>1, <3>2
      <4> HIDE DEF m
      <4>2. q[m].kind = "patches" /\ q[m].do = "create" /\ q[m].id = at(m)
        BY <1>7, <4>1
      <4>3. q[k].id = at(k)
        BY <1>7
      <4> QED  BY <4>1, <4>2, <4>3 DEF m
    <3>4. k + 1 \in DOMAIN q
      BY <1>5, <3>1
    <3> QED  BY <1>7, <2>2, <3>3, <3>4 DEF PartStep, RenameKinds, MovedKinds, SiteKinds, KeyKinds
  <2> QED  BY <2>1, <2>2
<1>13. Part(c, q)
  BY <1>5, <1>10, <1>11, <1>12 DEF Part, StepsOK
<1>14. ASSUME NEW id \in S
       PROVE  Has(q, "patches", "create", id)
  <2>1. PICK j \in 1..n : ids[j] = id
    BY <1>4
  <2>2. 2 * j \in 1..(2 * n) /\ (2 * j) % 2 # 1 /\ (2 * j + 1) \div 2 = j
    BY <1>4
  <2>3. at(2 * j) = id
    BY <2>1, <2>2 DEF at
  <2>4. q[2 * j].kind = "patches" /\ q[2 * j].do = "create" /\ q[2 * j].id = id
    BY <1>7, <2>2, <2>3
  <2> QED  BY <1>5, <2>2, <2>4 DEF Has
<1> QED  BY <1>13, <1>14 DEF q, S

\* Concatenation keeps the form of parts and every step of both.
LEMMA Joined ==
  ASSUME NEW c, NEW s, NEW t, Part(c, s), Part(c, t)
  PROVE  /\ Part(c, s \o t)
         /\ \A kind, do, id : Has(s, kind, do, id) => Has(s \o t, kind, do, id)
         /\ \A kind, do, id : Has(t, kind, do, id) => Has(s \o t, kind, do, id)
BY PartConcat, HasConcat DEF Part, StepsOK

\* The removal of the old site ends the plan, but for the management host.
LEMMA PlanEnds ==
  ASSUME NEW c, NEW s, Part(c, s), NEW a, NEW b,
         a.kind = "sites", a.do = "delete", b.kind = "rename"
  PROVE  /\ StepsOK("site.rename", s \o <<a, b>>)
         /\ \A k \in DOMAIN (s \o <<a, b>>) : RenameStep(c, s \o <<a, b>>, k)
         /\ \A kind, do, id : Has(s, kind, do, id) => Has(s \o <<a, b>>, kind, do, id)
<1> DEFINE t == <<a, b>>
           q == s \o t
<1>1. StepOK("site.rename", a) /\ StepOK("site.rename", b)
  BY DEF StepOK, SiteKinds
<1>2. StepsOK("site.rename", t) /\ IsSeq(t) /\ DOMAIN t = {1, 2} /\ t[1] = a /\ t[2] = b
  <2>1. StepsOK("site.rename", t)
    BY <1>1, StepsShort
  <2>2. IsSeq(t)
    BY ShortSeq
  <2>3. DOMAIN t = {1, 2} /\ t[1] = a /\ t[2] = b
    OBVIOUS
  <2> QED  BY <2>1, <2>2, <2>3
<1>3. IsSeq(s) /\ StepsOK("site.rename", s)
  BY DEF Part, StepsOK
<1> HIDE DEF t
<1>4. StepsOK("site.rename", q)
  BY <1>2, <1>3, StepsConcat
<1>5. /\ Len(s) \in Nat /\ DOMAIN s = 1..Len(s)
      /\ \A k \in DOMAIN s : k \in DOMAIN q /\ q[k] = s[k]
      /\ \A k \in DOMAIN t : Len(s) + k \in DOMAIN q /\ q[Len(s) + k] = t[k]
      /\ \A k \in DOMAIN q : k \in DOMAIN s \/ (\E m \in DOMAIN t : k = Len(s) + m)
  <2>1. Joins(s, t, q)
    BY <1>2, <1>3, ConcatPlaces
  <2> HIDE DEF q
  <2> QED  BY <2>1 DEF Joins
<1>6. \A kind, do, id : Has(s, kind, do, id) => Has(q, kind, do, id)
  BY <1>2, <1>3, HasConcat
<1> HIDE DEF q
<1>7. ASSUME NEW k \in DOMAIN q
      PROVE  RenameStep(c, q, k)
  <2>1. CASE k \in DOMAIN s
    <3>1. q[k] = s[k] /\ PartStep(c, s, k) /\ ~(s[k].kind = "sites" /\ s[k].do = "delete")
      BY <1>5, <2>1 DEF Part
    <3>2. k + 1 \in DOMAIN s => k + 1 \in DOMAIN q /\ q[k+1] = s[k+1]
      BY <1>5
    <3> QED  BY <3>1, <3>2 DEF PartStep, RenameStep
  <2>2. CASE k = Len(s) + 1
    <3>1. q[k] = a
      BY <1>2, <1>5, <2>2
    <3>2. ASSUME NEW m \in DOMAIN q, q[m].kind \in MovedKinds
          PROVE  m < k
      <4>1. a.kind \notin MovedKinds /\ b.kind \notin MovedKinds
        BY DEF MovedKinds, SiteKinds, KeyKinds
      <4>2. q[Len(s) + 1] = a /\ q[Len(s) + 2] = b
        BY <1>2, <1>5
      <4>3. m # Len(s) + 1 /\ m # Len(s) + 2
        BY <3>2, <4>1, <4>2
      <4>4. m \in DOMAIN s
        BY <1>2, <1>5, <4>3
      <4> QED  BY <1>5, <2>2, <4>4
    <3> QED  BY <3>1, <3>2 DEF RenameStep, RenameKinds, MovedKinds, SiteKinds, KeyKinds
  <2>3. CASE k = Len(s) + 2
    <3>1. q[k] = b
      BY <1>2, <1>5, <2>3
    <3> QED  BY <3>1 DEF RenameStep, RenameKinds, MovedKinds, SiteKinds, KeyKinds
  <2> QED  BY <1>2, <1>5, <2>1, <2>2, <2>3
<1> QED  BY <1>4, <1>6, <1>7 DEF q, t

\* The whole plan: every record found at the old site has a step of its own.
LEMMA RenamePlanned ==
  ASSUME NEW c, NEW g, NEW v, \A kind \in SiteKinds : DocumentOK(kind, g[kind])
  PROVE  LET q == RenamePlan(g, c.site, c.id, v) IN
         /\ StepsOK("site.rename", q)
         /\ \A k \in DOMAIN q : RenameStep(c, q, k)
         /\ \A kind \in SiteKinds : \A id \in AtSite(g[kind], c.site) :
              Has(q, kind, IF kind = "patches" THEN "create" ELSE "update", id)
         /\ \A kind \in KeyKinds : c.site \in DOMAIN g[kind] =>
              Has(q, kind, "create", c.id) /\ Has(q, kind, "delete", c.site)
<1> DEFINE old == c.site
           new == c.id
           tls == MoveTLS(g, old, new)
           ups == MoveAll("upstreams", g["upstreams"], old, new)
           waf == MoveAll("waf", g["waf"], old, new)
           access == MoveAll("access", g["access"], old, new)
           rate == MoveAll("rate", g["rate"], old, new)
           easy == IF old \in DOMAIN g.easy
                   THEN <<Op("easy", "create", new, g.easy[old]), Op("easy", "delete", old, None)>>
                   ELSE << >>
           patches == MovePatches(g.patches, old, new)
           create == <<Op("sites", "create", new, v)>>
           untls == IF old \in DOMAIN g.tls THEN <<Op("tls", "delete", old, None)>> ELSE << >>
           a == Op("sites", "delete", old, None)
           b == Op("rename", "host", g.sites[old].host, v.host)
           q == RenamePlan(g, old, new, v)
<1>1. q = tls \o ups \o waf \o access \o rate \o easy \o patches \o create \o untls \o <<a, b>>
  BY DEF RenamePlan
<1>2. /\ Part(c, ups) /\ \A id \in AtSite(g["upstreams"], old) : Has(ups, "upstreams", "update", id)
      /\ Part(c, waf) /\ \A id \in AtSite(g["waf"], old) : Has(waf, "waf", "update", id)
      /\ Part(c, access) /\ \A id \in AtSite(g["access"], old) : Has(access, "access", "update", id)
      /\ Part(c, rate) /\ \A id \in AtSite(g["rate"], old) : Has(rate, "rate", "update", id)
  BY MoveAllPart DEF SiteKinds
<1>3. Part(c, patches) /\ \A id \in AtSite(g["patches"], old) : Has(patches, "patches", "create", id)
  BY MovePatchesPart DEF SiteKinds
<1>4. ASSUME NEW kind \in KeyKinds, NEW val
      PROVE  /\ OwnStep(c, Op(kind, "create", new, val)) /\ OwnStep(c, Op(kind, "delete", old, val))
  BY DEF OwnStep, Op, KeyKinds
<1>5. ASSUME NEW id, NEW val, NEW do
      PROVE  OwnStep(c, Op("sites", "create", id, val)) /\ OwnStep(c, Op("rename", do, id, val))
  BY DEF OwnStep, Op, KeyKinds
<1>6. Part(c, tls) /\ (old \in DOMAIN g["tls"] => Has(tls, "tls", "create", new))
  <2> DEFINE x == Op("rename", "certificate", old, new)
             y == Op("tls", "create", new, new)
             z == Op("tls", "create", new, g.tls[old])
  <2>1. OwnStep(c, x) /\ OwnStep(c, y) /\ OwnStep(c, z)
    BY <1>4, <1>5 DEF KeyKinds
  <2>2. Has(<<x, y>>, "tls", "create", new) /\ Has(<<z>>, "tls", "create", new)
    BY ShortHas
  <2>3. \/ tls = << >> /\ old \notin DOMAIN g["tls"]
        \/ tls = <<x, y>> \/ tls = <<z>>
    BY DEF MoveTLS
  <2> HIDE DEF x, y, z, tls
  <2>4. Part(c, << >>) /\ Part(c, <<x, y>>) /\ Part(c, <<z>>)
    BY <2>1, ShortParts
  <2> QED  BY <2>2, <2>3, <2>4
<1>7. Part(c, easy) /\ (old \in DOMAIN g["easy"] =>
                          Has(easy, "easy", "create", new) /\ Has(easy, "easy", "delete", old))
  <2> DEFINE x == Op("easy", "create", new, g.easy[old])
             y == Op("easy", "delete", old, None)
  <2>1. OwnStep(c, x) /\ OwnStep(c, y)
    BY <1>4 DEF KeyKinds
  <2>2. Has(<<x, y>>, "easy", "create", new) /\ Has(<<x, y>>, "easy", "delete", old)
    BY ShortHas
  <2>3. easy = IF old \in DOMAIN g["easy"] THEN <<x, y>> ELSE << >>
    OBVIOUS
  <2> HIDE DEF x, y, easy
  <2>4. Part(c, << >>) /\ Part(c, <<x, y>>)
    BY <2>1, ShortParts
  <2> QED  BY <2>2, <2>3, <2>4
<1>8. Part(c, create)
  BY <1>5, ShortParts
<1>9. Part(c, untls) /\ (old \in DOMAIN g["tls"] => Has(untls, "tls", "delete", old))
  <2> DEFINE x == Op("tls", "delete", old, None)
  <2>1. OwnStep(c, x)
    BY <1>4 DEF KeyKinds
  <2>2. Has(<<x>>, "tls", "delete", old)
    BY ShortHas
  <2>3. untls = IF old \in DOMAIN g["tls"] THEN <<x>> ELSE << >>
    OBVIOUS
  <2> HIDE DEF x, untls
  <2>4. Part(c, << >>) /\ Part(c, <<x>>)
    BY <2>1, ShortParts
  <2> QED  BY <2>2, <2>3, <2>4
<1>10. a.kind = "sites" /\ a.do = "delete" /\ b.kind = "rename"
  BY DEF Op
<1> HIDE DEF tls, ups, waf, access, rate, easy, patches, create, untls, a, b, q
<1> DEFINE Whole(s, t, r) == /\ Part(c, r)
                             /\ \A kind, do, id : Has(s, kind, do, id) => Has(r, kind, do, id)
                             /\ \A kind, do, id : Has(t, kind, do, id) => Has(r, kind, do, id)
           q1 == tls \o ups
           q2 == q1 \o waf
           q3 == q2 \o access
           q4 == q3 \o rate
           q5 == q4 \o easy
           q6 == q5 \o patches
           q7 == q6 \o create
           q8 == q7 \o untls
<1>11. ASSUME NEW s, NEW t, Part(c, s), Part(c, t)
       PROVE  Whole(s, t, s \o t)
  BY <1>11, Joined
<1> HIDE DEF Whole
<1>12. Whole(tls, ups, q1) /\ Part(c, q1)
  BY <1>2, <1>6, <1>11 DEF Whole
<1> HIDE DEF q1
<1>13. Whole(q1, waf, q2) /\ Part(c, q2)
  BY <1>2, <1>12, <1>11 DEF Whole
<1> HIDE DEF q2
<1>14. Whole(q2, access, q3) /\ Part(c, q3)
  BY <1>2, <1>13, <1>11 DEF Whole
<1> HIDE DEF q3
<1>15. Whole(q3, rate, q4) /\ Part(c, q4)
  BY <1>2, <1>14, <1>11 DEF Whole
<1> HIDE DEF q4
<1>16. Whole(q4, easy, q5) /\ Part(c, q5)
  BY <1>7, <1>15, <1>11 DEF Whole
<1> HIDE DEF q5
<1>17. Whole(q5, patches, q6) /\ Part(c, q6)
  BY <1>3, <1>16, <1>11 DEF Whole
<1> HIDE DEF q6
<1>18. Whole(q6, create, q7) /\ Part(c, q7)
  BY <1>8, <1>17, <1>11 DEF Whole
<1> HIDE DEF q7
<1>19. Whole(q7, untls, q8) /\ Part(c, q8)
  BY <1>9, <1>18, <1>11 DEF Whole
<1>20. q = q8 \o <<a, b>>
  BY <1>1 DEF q1, q2, q3, q4, q5, q6, q7
<1> HIDE DEF q8
<1>21. /\ StepsOK("site.rename", q) /\ \A k \in DOMAIN q : RenameStep(c, q, k)
       /\ \A kind, do, id : Has(q8, kind, do, id) => Has(q, kind, do, id)
  BY <1>10, <1>19, <1>20, PlanEnds
<1>22. ASSUME NEW kind, NEW do, NEW id,
              \/ Has(tls, kind, do, id) \/ Has(ups, kind, do, id) \/ Has(waf, kind, do, id)
              \/ Has(access, kind, do, id) \/ Has(rate, kind, do, id) \/ Has(easy, kind, do, id)
              \/ Has(patches, kind, do, id) \/ Has(untls, kind, do, id)
       PROVE  Has(q, kind, do, id)
  BY <1>12, <1>13, <1>14, <1>15, <1>16, <1>17, <1>18, <1>19, <1>21, <1>22 DEF Whole
<1>23. ASSUME NEW kind \in SiteKinds, NEW id \in AtSite(g[kind], old)
       PROVE  Has(q, kind, IF kind = "patches" THEN "create" ELSE "update", id)
  <2>1. CASE kind = "patches"
    BY <1>3, <1>22, <2>1
  <2>2. CASE kind = "upstreams"
    BY <1>2, <1>22, <2>2
  <2>3. CASE kind = "waf"
    BY <1>2, <1>22, <2>3
  <2>4. CASE kind = "access"
    BY <1>2, <1>22, <2>4
  <2>5. CASE kind = "rate"
    BY <1>2, <1>22, <2>5
  <2> QED  BY <2>1, <2>2, <2>3, <2>4, <2>5 DEF SiteKinds
<1>24. ASSUME NEW kind \in KeyKinds, old \in DOMAIN g[kind]
       PROVE  Has(q, kind, "create", new) /\ Has(q, kind, "delete", old)
  <2>1. CASE kind = "tls"
    BY <1>6, <1>9, <1>22, <1>24, <2>1
  <2>2. CASE kind = "easy"
    BY <1>7, <1>22, <1>24, <2>2
  <2> QED  BY <2>1, <2>2 DEF KeyKinds
<1> QED  BY <1>21, <1>23, <1>24 DEF q

\* What a call that has read all it needs holds.
LEMMA ReadAll ==
  ASSUME Inv, NEW p \in Procs, NEW op \in {"site.rename", "bans.sync"}, Ready(p, {op})
  PROVE  /\ CallOK(p, call[p], db, touched) /\ DOMAIN call[p] = Fields /\ call[p].op = op
         /\ \A kind \in DOMAIN call[p].got : DocumentOK(kind, call[p].got[kind])
         /\ "sites" \in DOMAIN call[p].got
         /\ op = "site.rename" => MovedKinds \subseteq DOMAIN call[p].got
<1> DEFINE b == call[p]
<1>1. CallOK(p, b, db, touched) /\ DOMAIN b = Fields /\ b.op = op /\ b.pc = "read" /\ b.reads = << >>
  BY DEF Inv, CallOK, Ready
<1>2. /\ Elements(ReadsOf[op]) \subseteq Elements(b.reads) \cup DOMAIN b.got
      /\ \A kind \in DOMAIN b.got : DocumentOK(kind, b.got[kind])
  BY <1>1 DEF CallOK, ReadOK
<1>3. Elements(b.reads) = {}
  BY <1>1, ShortSeq DEF Elements
<1>4. /\ op = "bans.sync" => Elements(ReadsOf[op]) = {"sites"}
      /\ op = "site.rename" => Elements(ReadsOf[op]) = MovedKinds \cup {"sites"}
  BY ReadsOfSeq
<1> QED  BY <1>1, <1>2, <1>3, <1>4

\* Rename decides on the documents it has read.
LEMMA RenameBegins ==
  ASSUME Inv, NEW p \in Procs, Rename(p)
  PROVE  Inv'
<1> DEFINE b == call[p]
           q == RenamePlan(b.got, b.site, b.id, b.val)
           c == [b EXCEPT !.pc = "write", !.plan = q]
<1>1. /\ Ready(p, {"site.rename"}) /\ UNCHANGED <<db, live, touched>>
      /\ Done(p) \/ (b.id # b.site /\ Put(p, c))
  BY DEF Rename, history
<1>2. /\ DOMAIN b = Fields /\ b.op = "site.rename"
      /\ \A kind \in DOMAIN b.got : DocumentOK(kind, b.got[kind])
      /\ MovedKinds \subseteq DOMAIN b.got
  BY <1>1, ReadAll
<1>3. \A kind \in SiteKinds : DocumentOK(kind, b.got[kind])
  BY <1>2 DEF MovedKinds
<1>4. /\ StepsOK("site.rename", q)
      /\ \A k \in DOMAIN q : RenameStep(b, q, k)
      /\ \A kind \in SiteKinds : \A id \in AtSite(b.got[kind], b.site) :
           Has(q, kind, IF kind = "patches" THEN "create" ELSE "update", id)
      /\ \A kind \in KeyKinds : b.site \in DOMAIN b.got[kind] =>
           Has(q, kind, "create", b.id) /\ Has(q, kind, "delete", b.site)
  BY <1>3, RenamePlanned
<1> HIDE DEF q
<1>5. /\ DOMAIN c = Fields /\ c.pc = "write" /\ c.op = "site.rename" /\ c.plan = q
      /\ c.got = b.got /\ c.site = b.site /\ c.id = b.id
  BY <1>2 DEF Fields
<1> HIDE DEF c
<1>6. ASSUME b.id # b.site
      PROVE  RenameOK(p, c, db, touched)
  <2>1. \A k \in DOMAIN c.plan : RenameStep(c, c.plan, k)
    BY <1>4, <1>5 DEF RenameStep
  <2>2. ASSUME NEW kind \in SiteKinds, NEW id \in DOMAIN c.got[kind], c.got[kind][id].site = c.site
        PROVE  RecordMoves(p, c, db, touched, kind, id)
    <3>1. id \in AtSite(b.got[kind], b.site)
      BY <1>5, <2>2 DEF AtSite
    <3> QED  BY <1>4, <1>5, <3>1 DEF RecordMoves
  <2>3. ASSUME NEW kind \in KeyKinds, c.site \in DOMAIN c.got[kind]
        PROVE  KeyMoves(p, c, db, touched, kind)
    BY <1>4, <1>5, <2>3 DEF KeyMoves
  <2> QED  BY <1>5, <1>6, <2>1, <2>2, <2>3 DEF RenameOK
<1>7. ASSUME b.id # b.site
      PROVE  CallOK(p, c, db, touched)
  BY <1>4, <1>5, <1>6, <1>7 DEF CallOK, ReadOK, SnapshotOK, PlanOK, BanOK
<1> QED  BY <1>1, <1>7, PlainStep, DoneStep DEF Inv

(***************************************************************************)
(* The plan of the ban synchronisation: a ban for each site, one mark.     *)
(***************************************************************************)
LEMMA PromotePlanned ==
  ASSUME NEW ids, IsSeq(ids)
  PROVE  LET q == PromotePlan(ids) IN
         /\ StepsOK("bans.sync", q) /\ \A k \in DOMAIN q : BanStep(q, k)
         /\ \A k \in DOMAIN ids : BanPending(q, ids[k])
         /\ q # << >> /\ q[1].kind = "ban"
<1> DEFINE n == Len(ids)
           s == BanAll(ids)
           m == Op("ban", "mark", None, TRUE)
           q == PromotePlan(ids)
<1>1. n \in Nat /\ DOMAIN ids = 1..n
  BY SeqDomain
<1>2. s = [k \in 1..n |-> BanSite(ids[k], TRUE)]
  BY <1>1 DEF BanAll
<1>3. q = s \o <<m>>
  BY DEF PromotePlan
<1> HIDE DEF n, q, s
<1>5. ASSUME NEW k \in 1..n
      PROVE  s[k].kind = "ban" /\ s[k].do = "resolve" /\ s[k].id = ids[k] /\ s[k].val = TRUE
  BY <1>2 DEF BanSite, Op
<1>6. s \in [1..n -> {s[k] : k \in 1..n}]
  <2> DEFINE f(k) == BanSite(ids[k], TRUE)
  <2>1. s = [k \in 1..n |-> f(k)]
    BY <1>2
  <2> HIDE DEF f
  <2> QED  BY <1>1, <2>1
<1>7. IsSeq(s) /\ Len(s) = n /\ DOMAIN s = 1..n
  BY <1>1, <1>6, FunctionIsSeq
<1>8. m.kind = "ban" /\ m.do = "mark"
  BY DEF Op
<1> HIDE DEF m
<1>9. StepOK("bans.sync", m) /\ \A k \in DOMAIN s : StepOK("bans.sync", s[k])
  BY <1>5, <1>7, <1>8 DEF StepOK, SiteKinds
<1>10. IsSeq(<<m>>) /\ DOMAIN <<m>> = {1} /\ <<m>>[1] = m /\ Len(<<m>>) = 1
  BY ShortSeq
<1>11. StepsOK("bans.sync", q)
  <2>1. StepsOK("bans.sync", s)
    BY <1>7, <1>9 DEF StepsOK
  <2>2. StepsOK("bans.sync", <<m>>)
    BY <1>9, StepsShort
  <2> QED  BY <1>3, <2>1, <2>2, StepsConcat
<1>12. /\ DOMAIN q = 1..(n + 1) /\ Len(q) = n + 1
       /\ \A k \in 1..n : q[k] = s[k]
       /\ q[n + 1] = m
  <2>1. /\ Len(s \o <<m>>) = Len(s) + Len(<<m>>) /\ DOMAIN (s \o <<m>>) = 1..(Len(s) + Len(<<m>>))
        /\ \A k \in 1..(Len(s) + Len(<<m>>)) :
             (s \o <<m>>)[k] = IF k <= Len(s) THEN s[k] ELSE <<m>>[k - Len(s)]
    BY <1>7, <1>10, ConcatOf
  <2>2. /\ Len(q) = n + 1 /\ DOMAIN q = 1..(n + 1)
        /\ \A k \in 1..(n + 1) : q[k] = IF k <= n THEN s[k] ELSE <<m>>[k - n]
    BY <1>3, <1>7, <1>10, <2>1
  <2>3. \A k \in 1..n : k \in 1..(n + 1) /\ k <= n
    BY <1>1
  <2>4. q[n + 1] = m
    <3> DEFINE z == n + 1
    <3>1. z \in 1..(n + 1) /\ ~(z <= n) /\ z - n = 1
      BY <1>1
    <3> HIDE DEF z
    <3>2. q[z] = <<m>>[z - n]
      BY <2>2, <3>1
    <3>3. q[z] = m
      BY <1>10, <3>1, <3>2
    <3> QED  BY <3>3 DEF z
  <2>5. \A k \in 1..n : q[k] = s[k]
    BY <2>2, <2>3
  <2> QED  BY <2>2, <2>4, <2>5
<1>13. ASSUME NEW k \in DOMAIN q
       PROVE  BanStep(q, k)
  <2>1. CASE k \in 1..n
    BY <1>5, <1>12, <2>1 DEF BanStep
  <2>2. CASE k = n + 1
    BY <1>8, <1>12, <2>2 DEF BanStep
  <2>3. k \in 1..n \/ k = n + 1
    BY <1>1, <1>12
  <2> QED  BY <2>1, <2>2, <2>3
<1>14. ASSUME NEW j \in 1..n
       PROVE  BanPending(q, ids[j])
  <2>1. j \in DOMAIN q /\ q[j] = s[j]
    BY <1>1, <1>12
  <2> QED  BY <1>5, <2>1 DEF BanPending
<1>15. q # << >> /\ q[1].kind = "ban"
  <2>1. 1 \in DOMAIN q /\ (1 \in 1..n \/ 1 = n + 1)
    BY <1>1, <1>12
  <2>2. q[1].kind = "ban"
    BY <1>5, <1>8, <1>12, <2>1
  <2> QED  BY <2>1, <2>2, ShortSeq
<1> QED  BY <1>1, <1>11, <1>13, <1>14, <1>15 DEF q

\* syncOnce plans a ban for every site it has read.
LEMMA SyncBegins ==
  ASSUME Inv, NEW p \in Procs, syncOnce(p)
  PROVE  Inv'
<1> DEFINE b == call[p]
           S == DOMAIN b.got["sites"]
           ids == Listed(S)
           q == PromotePlan(ids)
           c == [b EXCEPT !.pc = "write", !.plan = q]
<1>1. /\ Ready(p, {"bans.sync"}) /\ UNCHANGED <<db, live, touched>>
      /\ Done(p) \/ Put(p, c)
  BY DEF syncOnce, history
<1>2. /\ DOMAIN b = Fields /\ b.op = "bans.sync" /\ IsFiniteSet(S)
  <2>1. /\ DOMAIN b = Fields /\ b.op = "bans.sync" /\ "sites" \in DOMAIN b.got
        /\ \A kind \in DOMAIN b.got : DocumentOK(kind, b.got[kind])
    BY <1>1, ReadAll
  <2>2. DocumentOK("sites", b.got["sites"])
    BY <2>1
  <2> QED  BY <2>1, <2>2 DEF DocumentOK
<1>3. IsSeq(ids) /\ \A x \in S : \E k \in DOMAIN ids : ids[k] = x
  BY <1>2, ListedIds
<1> HIDE DEF ids
<1>4. /\ StepsOK("bans.sync", q) /\ \A k \in DOMAIN q : BanStep(q, k)
      /\ \A k \in DOMAIN ids : BanPending(q, ids[k])
      /\ q # << >> /\ q[1].kind = "ban"
  BY <1>3, PromotePlanned
<1> HIDE DEF q
<1>5. /\ DOMAIN c = Fields /\ c.pc = "write" /\ c.op = "bans.sync" /\ c.plan = q /\ c.got = b.got
  BY <1>2 DEF Fields
<1> HIDE DEF c
<1>6. BanOK(p, c, db, touched)
  <2>1. \A s \in DOMAIN c.got["sites"] : BanPending(c.plan, s)
    BY <1>3, <1>4, <1>5
  <2> QED  BY <1>4, <1>5, <2>1 DEF BanOK
<1>7. CallOK(p, c, db, touched)
  BY <1>4, <1>5, <1>6 DEF CallOK, ReadOK, SnapshotOK, PlanOK, RenameOK
<1> QED  BY <1>1, <1>7, PlainStep, DoneStep DEF Inv

(***************************************************************************)
(* The initial documents compile, and Inv holds of them.                   *)
(***************************************************************************)
LEMMA OnlyOf ==
  ASSUME NEW id, NEW v
  PROVE  DOMAIN Only(id, v) = {id} /\ Only(id, v)[id] = v /\ IsFiniteSet(DOMAIN Only(id, v))
<1>1. DOMAIN Only(id, v) = {id} /\ Only(id, v)[id] = v
  BY DEF Only
<1> QED  BY <1>1, FS_Singleton

\* ManagementBootstrap names the host of the configured site.
LEMMA InitialHosts ==
  ASSUME NEW h, NEW m, m = [hosts |-> {}, version |-> 0, migrated |-> FALSE, block |-> FALSE]
  PROVE  ManagementBootstrap(m, h).hosts = {h} /\ ~m.migrated
BY DEF ManagementBootstrap

\* The documents of Init, by name.
LEMMA InitialDocuments ==
  ASSUME Init
  PROVE  LET s == Configured  h == CHOOSE x \in Hosts : TRUE IN
         /\ DOMAIN db = Documents
         /\ db["sites"] = Only(s, [host |-> h, enabled |-> TRUE])
         /\ db["upstreams"] = Only(1, [site |-> s, ui |-> TRUE])
         /\ db["tls"] = Only(s, s) /\ db["materials"] = {s}
         /\ db["waf"] = Only(EasyId(s), [site |-> s, enabled |-> FALSE])
         /\ db["access"] = Only(PolicyId(s), [site |-> s, deny |-> FALSE])
         /\ db["rate"] = Only(PolicyId(s), [site |-> s, enabled |-> TRUE])
         /\ DOMAIN db["easy"] = {s} /\ db["easy"][s].ca = None /\ ~db["easy"][s].deny
         /\ db["patches"] = [id \in Patches |-> [site |-> s, expired |-> FALSE]]
         /\ db["management"].migrated => db["management"].hosts = {h}
<1> DEFINE s == Configured
           h == CHOOSE x \in Hosts : TRUE
           noHosts == [hosts |-> {}, version |-> 0, migrated |-> FALSE, block |-> FALSE]
           sites == Only(s, [host |-> h, enabled |-> TRUE])
           upstreams == Only(1, [site |-> s, ui |-> TRUE])
           certificates == Only(s, {})
           tls == Only(s, s)
           waf == Only(EasyId(s), [site |-> s, enabled |-> FALSE])
           access == Only(PolicyId(s), [site |-> s, deny |-> FALSE])
           rate == Only(PolicyId(s), [site |-> s, enabled |-> TRUE])
           profile == [mode |-> "block", secret |-> CHOOSE x \in Secrets : TRUE, ca |-> None,
                       deny |-> FALSE, limit |-> TRUE]
           easy == Only(s, profile)
           patches == [id \in Patches |-> [site |-> s, expired |-> FALSE]]
<1>1. \E management :
        /\ management = ManagementBootstrap(noHosts, h) \/ management = noHosts
        /\ db = [sites |-> sites, upstreams |-> upstreams, certificates |-> certificates, tls |-> tls,
                 materials |-> {s}, waf |-> waf, access |-> access, rate |-> rate, easy |-> easy,
                 patches |-> patches, management |-> management, antiddos |-> FALSE]
  BY DEF Init, InitDocuments
<1>2. PICK management :
        /\ management = ManagementBootstrap(noHosts, h) \/ management = noHosts
        /\ db = [sites |-> sites, upstreams |-> upstreams, certificates |-> certificates, tls |-> tls,
                 materials |-> {s}, waf |-> waf, access |-> access, rate |-> rate, easy |-> easy,
                 patches |-> patches, management |-> management, antiddos |-> FALSE]
  BY <1>1
<1>3. DOMAIN easy = {s} /\ easy[s] = profile /\ profile.ca = None /\ ~profile.deny
  BY OnlyOf
<1>4. management.migrated => management.hosts = {h}
  <2> HIDE DEF h, noHosts
  <2>1. ManagementBootstrap(noHosts, h).hosts = {h} /\ ~noHosts.migrated
    BY InitialHosts DEF noHosts
  <2> QED  BY <1>2, <2>1
<1> HIDE DEF sites, upstreams, certificates, tls, waf, access, rate, easy, patches, profile
<1>5. DOMAIN db = Documents
  BY <1>2 DEF Documents, MovedKinds, SiteKinds, KeyKinds
<1>6. /\ db["sites"] = sites /\ db["upstreams"] = upstreams /\ db["tls"] = tls /\ db["materials"] = {s}
      /\ db["waf"] = waf /\ db["access"] = access /\ db["rate"] = rate /\ db["easy"] = easy
      /\ db["patches"] = patches /\ db["management"] = management
  BY <1>2
<1> QED  BY <1>3, <1>4, <1>5, <1>6 DEF sites, upstreams, certificates, tls, waf, access, rate, patches

\* They have the form of documents, and they compile.
LEMMA InitDocumentsOK ==
  ASSUME Init
  PROVE  DocumentsOK(db) /\ Compiled(db)
<1> DEFINE s == Configured
           h == CHOOSE x \in Hosts : TRUE
<1>1. /\ DOMAIN db = Documents
      /\ db["sites"] = Only(s, [host |-> h, enabled |-> TRUE])
      /\ db["upstreams"] = Only(1, [site |-> s, ui |-> TRUE])
      /\ db["tls"] = Only(s, s) /\ db["materials"] = {s}
      /\ db["waf"] = Only(EasyId(s), [site |-> s, enabled |-> FALSE])
      /\ db["access"] = Only(PolicyId(s), [site |-> s, deny |-> FALSE])
      /\ db["rate"] = Only(PolicyId(s), [site |-> s, enabled |-> TRUE])
      /\ DOMAIN db["easy"] = {s} /\ db["easy"][s].ca = None /\ ~db["easy"][s].deny
      /\ db["patches"] = [id \in Patches |-> [site |-> s, expired |-> FALSE]]
      /\ db["management"].migrated => db["management"].hosts = {h}
  BY InitialDocuments
<1> HIDE DEF h
<1>2. ASSUME NEW kind, NEW id, NEW v, kind \in SiteKinds => "site" \in DOMAIN v,
             kind = "access" => "deny" \in DOMAIN v
      PROVE  DocumentOK(kind, Only(id, v))
  <2> DEFINE t == Only(id, v)
  <2>1. DOMAIN t = {id} /\ t[id] = v /\ IsFiniteSet(DOMAIN t)
    BY OnlyOf
  <2> HIDE DEF t
  <2>2. DocumentOK(kind, t)
    BY <1>2, <2>1 DEF DocumentOK
  <2> QED  BY <2>2 DEF t
<1>3. DocumentOK("sites", db["sites"])
  BY <1>1, OnlyOf DEF DocumentOK, SiteKinds
<1>4. DocumentOK("upstreams", db["upstreams"]) /\ DocumentOK("waf", db["waf"])
  <2>1. "site" \in DOMAIN [site |-> s, ui |-> TRUE] /\ "site" \in DOMAIN [site |-> s, enabled |-> FALSE]
    OBVIOUS
  <2> QED  BY <1>1, <1>2, <2>1
<1>5. DocumentOK("access", db["access"]) /\ DocumentOK("rate", db["rate"])
  <2>1. /\ "site" \in DOMAIN [site |-> s, deny |-> FALSE] /\ "deny" \in DOMAIN [site |-> s, deny |-> FALSE]
        /\ "site" \in DOMAIN [site |-> s, enabled |-> TRUE]
    OBVIOUS
  <2> QED  BY <1>1, <1>2, <2>1
<1>6. DocumentOK("patches", db["patches"])
  BY <1>1, PatchesAssumption DEF DocumentOK
<1>7. DocumentsOK(db)
  <2>1. HostsUnique(db["sites"])
    <3>1. DOMAIN db["sites"] = {s}
      BY <1>1 DEF Only
    <3> QED  BY <3>1 DEF HostsUnique
  <2>2. ASSUME NEW kind \in Documents
        PROVE  DocumentOK(kind, db[kind])
    <3>1. CASE kind \notin SiteKinds \cup {"sites"}
      BY <3>1 DEF DocumentOK, SiteKinds
    <3>2. CASE kind \in SiteKinds \cup {"sites"}
      BY <1>3, <1>4, <1>5, <1>6, <3>2 DEF SiteKinds
    <3> QED  BY <3>1, <3>2
  <2>3. Paired(db["access"])
    <3>1. DOMAIN db["access"] = {PolicyId(s)}
      BY <1>1 DEF Only
    <3> QED  BY <3>1 DEF Paired
  <2> QED  BY <1>1, <2>1, <2>2, <2>3 DEF DocumentsOK
<1>8. /\ DOMAIN db.sites = {s} /\ db.sites[s].host = h /\ db.sites[s].enabled
      /\ DOMAIN db.upstreams = {1} /\ db.upstreams[1].site = s
      /\ DOMAIN db.tls = {s} /\ db.tls[s] = s
  <2>1. DOMAIN db.sites = {s} /\ db.sites[s] = [host |-> h, enabled |-> TRUE]
    BY <1>1 DEF Only
  <2>2. DOMAIN db.upstreams = {1} /\ db.upstreams[1] = [site |-> s, ui |-> TRUE]
    BY <1>1 DEF Only
  <2>3. DOMAIN db.tls = {s} /\ db.tls[s] = s
    BY <1>1 DEF Only
  <2> QED  BY <2>1, <2>2, <2>3
<1>9. EnabledSites(db) = {s} /\ UpstreamsOf(db, s) = {1}
  BY <1>8 DEF EnabledSites, UpstreamsOf
<1>10. DefaultUpstream(db, s) = 1 /\ 1 # None
  BY <1>9, UpstreamAssumption DEF DefaultUpstream, Least
<1>11. normalizeInputs(db)
  BY <1>8, <1>9, <1>10 DEF normalizeInputs
<1>12. BoundCertificates(db) = {s} /\ ClientCAs(db) = {}
  BY <1>1, <1>8 DEF BoundCertificates, ClientCAs
<1>13. mapTLSInputs(db)
  BY <1>1, <1>12 DEF mapTLSInputs
<1>14. RenderTLSArtifacts(db) /\ AssembleRevisionBundle(db)
  BY <1>8 DEF RenderTLSArtifacts, AssembleRevisionBundle
<1>15. validateManagementSafeguard(db)
  BY <1>1, <1>8, <1>9 DEF validateManagementSafeguard
<1> QED  BY <1>7, <1>11, <1>13, <1>14, <1>15 DEF Compiled

LEMMA InitInv == Init => Inv
<1> SUFFICES ASSUME Init PROVE Inv
  OBVIOUS
<1>1. DocumentsOK(db) /\ Compiled(db)
  BY InitDocumentsOK
<1>2. live = Bundle(db)
  BY <1>1, CompiledBundle DEF Init
<1>3. HostsUnique(db.sites)
  BY <1>1 DEF DocumentsOK
<1>4. SoundBundle(live) /\ ServingBundle(live)
  BY <1>1, <1>2, <1>3, CompiledSound, CompiledServing
<1>5. DOMAIN call = Procs /\ \A p \in Procs : call[p] = Idle
  BY DEF Init
<1>6. \A p \in Procs : CallOK(p, call[p], db, touched)
  BY <1>5, EndedOK
<1> QED  BY <1>1, <1>4, <1>5, <1>6 DEF Inv

(***************************************************************************)
(* Every step keeps Inv.                                                   *)
(***************************************************************************)
LEMMA ProcStep ==
  ASSUME Inv, NEW p \in Procs, ProcNext(p)
  PROVE  Inv'
<1>1. CASE \E c \in Calls : Begin(p, c)
  BY <1>1, BeginStep
<1>2. CASE Read(p)
  BY <1>2, ReadStep
<1>3. CASE Services(p)
  <2>1. CASE \/ SiteCalls(p) \/ UpstreamCalls(p) \/ TLSCalls(p) \/ CertificateCalls(p)
             \/ WAFPolicyCalls(p) \/ AccessPolicyCalls(p) \/ AccessPolicyUpsert(p)
             \/ RateLimitPolicyCalls(p) \/ PatchCalls(p) \/ ManagementHostsUpdate(p)
             \/ SettingsCalls(p) \/ EasyProfileDelete(p)
    BY <2>1, SimpleServices
  <2>2. CASE CertificateUpload(p) \/ ManualBan(p) \/ EasyProfileUpsert(p)
    BY <2>2, DoubleServices
  <2>3. CASE Rename(p)
    BY <2>3, RenameBegins
  <2>4. CASE syncOnce(p)
    BY <2>4, SyncBegins
  <2> QED  BY <1>3, <2>1, <2>2, <2>3, <2>4 DEF Services
<1>4. CASE Stores(p)
  BY <1>4, StoresInv
<1>5. CASE resolveSiteID(p) \/ markPromoted(p)
  BY <1>5, ResolveStep, MarkStep
<1>6. CASE findBySite(p)
  BY <1>6, FindStep
<1>7. CASE SyncEasyToLegacy(p)
  BY <1>7, SyncStep
<1>8. CASE RenameCertificate(p) \/ RenameMaterial(p) \/ MoveManagementHost(p)
  BY <1>8, RenameSteps
<1>9. CASE EndWrites(p)
  BY <1>9, EndWritesStep
<1>10. CASE \/ AskMaterials(p) \/ (\E x \in Certificates : ReadMaterial(p, x))
            \/ (\E i \in Sites : collectActiveVirtualPatches(p, i))
  BY <1>10, SnapshotSteps
<1>11. CASE Publish(p)
  BY <1>11, PublishStep
<1> QED
  BY <1>1, <1>2, <1>3, <1>4, <1>5, <1>6, <1>7, <1>8, <1>9, <1>10, <1>11 DEF ProcNext

LEMMA NextInv == Inv /\ [Next]_vars => Inv'
<1> SUFFICES ASSUME Inv, [Next]_vars PROVE Inv'
  OBVIOUS
<1>1. CASE Restart
  BY <1>1, RestartStep
<1>2. CASE \E p \in Procs : ProcNext(p)
  BY <1>2, ProcStep
<1>3. CASE UNCHANGED vars
  BY <1>3 DEF vars, history, Inv, DocumentsOK, CallOK, ReadOK, SnapshotOK, PlanOK, BanOK, RenameOK
<1> QED  BY <1>1, <1>2, <1>3 DEF Next

\* The documents keep their hosts apart, and every call holds what it has read
\* and has still to write: what the theorems below follow from.
THEOREM Invariance == Spec => []Inv
BY InitInv, NextInv, PTL DEF Spec

\* PublishedSound, for every set of sites and calls: the compiler refuses a
\* snapshot torn between calls unless its sites are sound.
THEOREM SoundPublished == Spec => []PublishedSound
<1>1. Inv => PublishedSound
  BY DEF Inv, SoundBundle, PublishedSound
<1> QED  BY <1>1, Invariance, PTL

(***************************************************************************)
(* Whose profile denies: in the documents, in a snapshot that has read the *)
(* profiles and in the published bundle, only sites whose profile somebody *)
(* wrote.                                                                  *)
(***************************************************************************)
DeniesOwn(t, f) == \A i \in DOMAIN t : t[i].deny => i \in f
OwnedCall(c, f) ==
  c.pc = "snapshot" =>
    /\ IsSeq(c.reads)
    /\ "easy" \in Elements(c.reads) \/ ("easy" \in DOMAIN c.got /\ DeniesOwn(c.got["easy"], f))
OwnedBundle(b, f) == \A i \in DOMAIN b.sites : b.sites[i].easy.deny => i \in f
Owned ==
  /\ DeniesOwn(db["easy"], profiled) /\ OwnedBundle(live, profiled)
  /\ \A p \in Procs : OwnedCall(call[p], profiled)

\* The renderers deny nobody the profile does not.
LEMMA CompiledOwned ==
  ASSUME NEW s, NEW f, DeniesOwn(s.easy, f)
  PROVE  OwnedBundle(Bundle(s), f)
<1> DEFINE b == Bundle(s)
<1>1. b.sites = [i \in EnabledSites(s) |-> RenderSite(s, i)]
  BY DEF Bundle
<1>2. /\ DOMAIN b.sites = EnabledSites(s)
      /\ \A i \in EnabledSites(s) : b.sites[i] = RenderSite(s, i)
  BY <1>1
<1> HIDE DEF b
<1>3. ASSUME NEW i, renderEasySiteArtifacts(s, i).deny
      PROVE  i \in f
  <2> DEFINE e == EasyInput(s, i)
  <2>1. renderEasySiteArtifacts(s, i).deny = (Blocks(e.mode) /\ e.deny)
    BY DEF renderEasySiteArtifacts, applySecurityModePolicy
  <2>2. e.deny
    BY <1>3, <2>1
  <2>3. i \in DOMAIN s.easy /\ e.deny = s.easy[i].deny
    BY <2>2 DEF EasyInput, mapEasyInputs, applyAntiDDoSDefaultEasyProfiles
  <2> QED  BY <2>2, <2>3 DEF DeniesOwn
<1> QED  BY <1>2, <1>3, RenderedSite DEF OwnedBundle, b

LEMMA InitOwned == Init => Owned
<1> SUFFICES ASSUME Init PROVE Owned
  OBVIOUS
<1>1. DeniesOwn(db["easy"], profiled)
  BY InitialDocuments DEF DeniesOwn
<1>2. live = Bundle(db)
  BY InitDocumentsOK, CompiledBundle DEF Init
<1>3. OwnedBundle(live, profiled)
  BY <1>1, <1>2, CompiledOwned
<1>4. \A p \in Procs : OwnedCall(call[p], profiled)
  BY IdleFields DEF Init, OwnedCall
<1> QED  BY <1>1, <1>3, <1>4 DEF Owned

\* A step that writes no document, and leaves the bundle alone.
LEMMA OwnedPut ==
  ASSUME Inv, Owned, NEW p \in Procs, NEW c, Put(p, c), OwnedCall(c, profiled),
         UNCHANGED <<db, live, profiled>>
  PROVE  Owned'
<1>1. call'[p] = c /\ \A q \in Procs \ {p} : call'[q] = call[q]
  BY DEF Inv, Put
<1>2. \A q \in Procs : OwnedCall(call'[q], profiled)
  BY <1>1 DEF Owned
<1> QED  BY <1>2 DEF Owned
LEMMA OwnedDone ==
  ASSUME Inv, Owned, NEW p \in Procs, Done(p), UNCHANGED <<db, live, profiled>>
  PROVE  Owned'
<1> DEFINE c == [Idle EXCEPT !.pc = "done"]
<1>1. Put(p, c) /\ c.pc = "done"
  BY IdleFields DEF Done, Fields
<1> HIDE DEF c
<1> QED  BY <1>1, OwnedPut DEF OwnedCall

\* A step that begins a call, or plans its writes.
LEMMA OwnedPlans ==
  ASSUME Inv, Owned, NEW p \in Procs,
         \/ \E c : Begin(p, c)
         \/ Services(p) \/ resolveSiteID(p) \/ findBySite(p) \/ markPromoted(p) \/ SyncEasyToLegacy(p)
         \/ RenameCertificate(p) \/ RenameMaterial(p) \/ MoveManagementHost(p)
  PROVE  Owned'
<1> DEFINE b == call[p]
<1>0. DOMAIN b = Fields
  BY DEF Inv, CallOK
<1>1. CASE \E c : Begin(p, c)
  <2>1. PICK a : Begin(p, a)
    BY <1>1
  <2> DEFINE c == [Idle EXCEPT !.pc = "read", !.op = a[1], !.site = a[2], !.id = a[3],
                               !.val = a[4], !.reads = ReadsOf[a[1]]]
  <2>2. Put(p, c) /\ UNCHANGED <<db, live, profiled>>
    BY <2>1 DEF Begin, history
  <2>3. c.pc = "read"
    BY IdleFields DEF Fields
  <2> HIDE DEF c
  <2> QED  BY <2>2, <2>3, OwnedPut DEF OwnedCall
<1>2. ASSUME NEW ok, NEW plan, Proceed(p, ok, plan)
      PROVE  Owned'
  <2> DEFINE c == [b EXCEPT !.pc = "write", !.plan = plan, !.got = << >>]
  <2>1. UNCHANGED <<db, live, profiled>> /\ (Put(p, c) \/ Done(p))
    BY <1>2 DEF Proceed, history
  <2>2. c.pc = "write"
    BY <1>0 DEF Fields
  <2> HIDE DEF c
  <2> QED  BY <2>1, <2>2, OwnedPut, OwnedDone DEF OwnedCall
<1>3. ASSUME NEW plan, UNCHANGED <<db, live, profiled>>,
             Put(p, [b EXCEPT !.pc = "write", !.plan = plan]) \/ Done(p)
      PROVE  Owned'
  <2> DEFINE c == [b EXCEPT !.pc = "write", !.plan = plan]
  <2>1. c.pc = "write"
    BY <1>0 DEF Fields
  <2>2. Put(p, c) \/ Done(p)
    BY <1>3
  <2> HIDE DEF c
  <2> QED  BY <1>3, <2>1, <2>2, OwnedPut, OwnedDone DEF OwnedCall
<1>4. ASSUME NEW plan, b.pc = "write", UNCHANGED <<db, live, profiled>>,
             Put(p, [b EXCEPT !.plan = plan]) \/ Done(p)
      PROVE  Owned'
  <2> DEFINE c == [b EXCEPT !.plan = plan]
  <2>1. c.pc = "write"
    BY <1>0, <1>4 DEF Fields
  <2>2. Put(p, c) \/ Done(p)
    BY <1>4
  <2> HIDE DEF c
  <2> QED  BY <1>4, <2>1, <2>2, OwnedPut, OwnedDone DEF OwnedCall
<1>5. CASE Services(p)
  <2>1. CASE \E ok, plan : Proceed(p, ok, plan)
    BY <1>2, <2>1
  <2>2. CASE Rename(p)
    BY <1>3, <2>2 DEF Rename, history
  <2>3. CASE syncOnce(p)
    BY <1>3, <2>3 DEF syncOnce, history
  <2>4. CASE \/ SiteCalls(p) \/ UpstreamCalls(p) \/ TLSCalls(p) \/ CertificateCalls(p)
             \/ CertificateUpload(p) \/ WAFPolicyCalls(p) \/ AccessPolicyCalls(p)
    BY <2>1, <2>4 DEF SiteCalls, UpstreamCalls, TLSCalls, CertificateCalls, CertificateUpload,
                      WAFPolicyCalls, AccessPolicyCalls
  <2>5. CASE \/ AccessPolicyUpsert(p) \/ RateLimitPolicyCalls(p) \/ PatchCalls(p)
             \/ ManagementHostsUpdate(p) \/ SettingsCalls(p) \/ EasyProfileUpsert(p)
             \/ EasyProfileDelete(p) \/ ManualBan(p)
    BY <2>1, <2>5 DEF AccessPolicyUpsert, RateLimitPolicyCalls, PatchCalls, ManagementHostsUpdate,
                      SettingsCalls, EasyProfileUpsert, EasyProfileDelete, ManualBan
  <2> QED  BY <1>5, <2>2, <2>3, <2>4, <2>5 DEF Services
<1>6. CASE resolveSiteID(p) \/ findBySite(p) \/ markPromoted(p)
  BY <1>4, <1>6 DEF resolveSiteID, findBySite, markPromoted, BanAt, history
<1>7. CASE SyncEasyToLegacy(p)
  BY <1>4, <1>7 DEF SyncEasyToLegacy, history
<1>8. CASE RenameCertificate(p) \/ RenameMaterial(p) \/ MoveManagementHost(p)
  BY <1>4, <1>8 DEF RenameCertificate, RenameMaterial, MoveManagementHost, history
<1> QED  BY <1>1, <1>5, <1>6, <1>7, <1>8

\* A read of the profiles takes them as they are stored.
LEMMA OwnedRead ==
  ASSUME Inv, Owned, NEW p \in Procs, Read(p)
  PROVE  Owned'
<1> DEFINE b == call[p]
           h == Head(b.reads)
           c == [b EXCEPT !.reads = Tail(@), !.got = Bind(@, h, db[h])]
<1>1. /\ Put(p, c) /\ UNCHANGED <<db, live, profiled>> /\ b.reads # << >>
  BY DEF Read, history
<1>2. /\ c.pc = b.pc /\ c.reads = Tail(b.reads) /\ c.got = Bind(b.got, h, db[h])
  BY DEF Inv, CallOK, Fields
<1>3. OwnedCall(b, profiled) /\ DeniesOwn(db["easy"], profiled)
  BY DEF Owned
<1> HIDE DEF b, c, h
<1>4. /\ DOMAIN c.got = DOMAIN b.got \cup {h} /\ c.got[h] = db[h]
      /\ \A x \in DOMAIN b.got : x # h => c.got[x] = b.got[x]
  BY <1>2 DEF Bind
<1>5. OwnedCall(c, profiled)
  <2>1. SUFFICES ASSUME b.pc = "snapshot"
                 PROVE  /\ IsSeq(c.reads)
                        /\ \/ "easy" \in Elements(c.reads)
                           \/ "easy" \in DOMAIN c.got /\ DeniesOwn(c.got["easy"], profiled)
    BY <1>2 DEF OwnedCall
  <2>2. /\ IsSeq(b.reads)
        /\ \/ "easy" \in Elements(b.reads)
           \/ "easy" \in DOMAIN b.got /\ DeniesOwn(b.got["easy"], profiled)
    BY <1>3, <2>1 DEF OwnedCall
  <2>3. IsSeq(c.reads) /\ Elements(b.reads) \subseteq Elements(c.reads) \cup {h}
    BY <1>1, <1>2, <2>2, TailElements DEF h
  <2>4. CASE h = "easy"
    BY <1>3, <1>4, <2>3, <2>4
  <2>5. CASE h # "easy"
    BY <1>4, <2>2, <2>3, <2>5
  <2> QED  BY <2>4, <2>5
<1> QED  BY <1>1, <1>5, OwnedPut

\* A store call that writes a profile is recorded.
LEMMA OwnedStores ==
  ASSUME Inv, Owned, NEW p \in Procs, Stores(p)
  PROVE  Owned'
<1> DEFINE b == call[p]
           c == [b EXCEPT !.plan = Tail(@)]
<1>1. DocumentsOK(db) /\ HostsUnique(db["sites"]) /\ Paired(db["access"]) /\ DOMAIN b = Fields
  BY DEF Inv, DocumentsOK, CallOK
<1>2. StoreResult(p)
  BY <1>1, StoresStep
<1>3. CASE Done(p) /\ UNCHANGED <<db, history>>
  BY <1>2, <1>3, OwnedDone DEF StoreResult, history
<1>4. CASE \E o, T : StoreStep(p, o, T)
  <2>1. PICK o, T : StoreStep(p, o, T)
    BY <1>4
  <2>2. /\ b.pc = "write" /\ o.kind \in Documents
        /\ db' = [db EXCEPT ![o.kind] = T] /\ Put(p, c) /\ live' = live
        /\ profiled' = IF o.kind = "easy" THEN profiled \cup {o.id} ELSE profiled
        /\ o.kind = "easy" => Written(o, db["easy"], T)
    BY <1>2, <2>1 DEF StoreStep, StoreResult, MovedKinds, KeyKinds
  <2>3. profiled \subseteq profiled'
    BY <2>2
  <2>4. DeniesOwn(db'["easy"], profiled')
    <3>1. "easy" \in DOMAIN db
      BY <1>1 DEF DocumentsOK, Documents, MovedKinds, KeyKinds
    <3>2. CASE o.kind # "easy"
      BY <2>2, <3>1, <3>2 DEF Owned
    <3>3. CASE o.kind = "easy"
      <4>1. db'["easy"] = T /\ Written(o, db["easy"], T) /\ o.id \in profiled'
        BY <2>2, <3>1, <3>3
      <4>2. ASSUME NEW i \in DOMAIN T, T[i].deny
            PROVE  i \in profiled'
        <5>1. CASE i = o.id
          BY <4>1, <5>1
        <5>2. CASE i # o.id
          <6>1. i \in DOMAIN db["easy"] /\ T[i] = db["easy"][i]
            BY <4>1, <5>2 DEF Written
          <6> QED  BY <2>3, <4>2, <6>1 DEF Owned, DeniesOwn
        <5> QED  BY <5>1, <5>2
      <4> QED  BY <4>1, <4>2 DEF DeniesOwn
    <3> QED  BY <3>2, <3>3
  <2>5. OwnedBundle(live', profiled')
    BY <2>2, <2>3 DEF Owned, OwnedBundle
  <2>6. c.pc = "write"
    BY <1>1, <2>2 DEF Fields
  <2> HIDE DEF c
  <2>7. call'[p] = c /\ \A q \in Procs \ {p} : call'[q] = call[q]
    BY <2>2 DEF Inv, Put
  <2>8. ASSUME NEW q \in Procs
        PROVE  OwnedCall(call'[q], profiled')
    <3>1. CASE q = p
      BY <2>6, <2>7, <3>1 DEF OwnedCall
    <3>2. CASE q # p
      <4>1. OwnedCall(call[q], profiled) /\ call'[q] = call[q]
        BY <2>7, <3>2 DEF Owned
      <4>2. ASSUME NEW t, DeniesOwn(t, profiled)
            PROVE  DeniesOwn(t, profiled')
        BY <2>3, <4>2 DEF DeniesOwn
      <4> QED  BY <4>1, <4>2 DEF OwnedCall
    <3> QED  BY <3>1, <3>2
  <2> QED  BY <2>4, <2>5, <2>8 DEF Owned
<1> QED  BY <1>2, <1>3, <1>4 DEF StoreResult

\* A snapshot begins with every document to be read, the profiles too.
LEMMA OwnedSnapshot ==
  ASSUME Inv, Owned, NEW p \in Procs,
         \/ EndWrites(p) \/ AskMaterials(p) \/ (\E x \in Certificates : ReadMaterial(p, x))
         \/ (\E i \in Sites : collectActiveVirtualPatches(p, i))
  PROVE  Owned'
<1> DEFINE b == call[p]
<1>0. DOMAIN b = Fields /\ OwnedCall(b, profiled)
  BY DEF Inv, CallOK, Owned
<1>1. CASE EndWrites(p)
  <2> DEFINE got == [materials |-> {}, patches |-> << >>]
             c == [Idle EXCEPT !.pc = "snapshot", !.op = call[p].op, !.reads = SnapshotReads,
                               !.got = got, !.ask = {<<"none", None>>}]
  <2>1. (Put(p, c) \/ Done(p)) /\ UNCHANGED <<db, live, profiled>>
    BY <1>1 DEF EndWrites, history
  <2> HIDE DEF got
  <2>2. c.reads = SnapshotReads
    BY IdleFields DEF Fields
  <2> HIDE DEF c
  <2>3. "easy" \in Elements(SnapshotReads) /\ IsSeq(SnapshotReads)
    <3>1. 8 \in DOMAIN SnapshotReads /\ SnapshotReads[8] = "easy"
      BY DEF SnapshotReads
    <3> QED  BY <3>1, SnapshotReadsFacts DEF Elements
  <2>4. OwnedCall(c, profiled)
    BY <2>2, <2>3 DEF OwnedCall
  <2> QED  BY <2>1, <2>4, OwnedPut, OwnedDone
<1>2. CASE AskMaterials(p)
  <2>1. PICK ask : Put(p, [b EXCEPT !.ask = ask]) /\ UNCHANGED <<db, live, profiled>>
    BY <1>2 DEF AskMaterials, history
  <2> DEFINE c == [b EXCEPT !.ask = ask]
  <2>2. c.pc = b.pc /\ c.reads = b.reads /\ c.got = b.got
    BY <1>0 DEF Fields
  <2>3. Put(p, c)
    BY <2>1
  <2> HIDE DEF c
  <2>4. OwnedCall(c, profiled)
    BY <1>0, <2>2 DEF OwnedCall
  <2> QED  BY <2>1, <2>3, <2>4, OwnedPut
<1>3. ASSUME NEW ask, NEW field \in {"materials", "patches"}, NEW val,
             Put(p, [b EXCEPT !.ask = ask, !.got = [@ EXCEPT ![field] = val]]),
             UNCHANGED <<db, live, profiled>>
      PROVE  Owned'
  <2> DEFINE c == [b EXCEPT !.ask = ask, !.got = [@ EXCEPT ![field] = val]]
  <2>1. c.pc = b.pc /\ c.reads = b.reads /\ c.got = [b.got EXCEPT ![field] = val]
    BY <1>0 DEF Fields
  <2>2. Put(p, c)
    BY <1>3
  <2> HIDE DEF c
  <2>3. "easy" \in DOMAIN b.got => "easy" \in DOMAIN c.got /\ c.got["easy"] = b.got["easy"]
    BY <2>1
  <2>4. OwnedCall(c, profiled)
    BY <1>0, <2>1, <2>3 DEF OwnedCall
  <2> QED  BY <1>3, <2>2, <2>4, OwnedPut
<1>4. ASSUME NEW x, ReadMaterial(p, x)
      PROVE  Owned'
  <2> DEFINE ask == b.ask \ {<<"material", x>>}
             val == IF MaterialsRead(db.materials, x) THEN b.got.materials \cup {x} ELSE b.got.materials
  <2>1. UNCHANGED <<db, live, profiled>>
    BY <1>4 DEF ReadMaterial, history
  <2>2. Put(p, [b EXCEPT !.ask = ask, !.got = [@ EXCEPT !["materials"] = val]])
    BY <1>4 DEF ReadMaterial
  <2> HIDE DEF ask, val
  <2> QED  BY <1>3, <2>1, <2>2
<1>5. ASSUME NEW i, collectActiveVirtualPatches(p, i)
      PROVE  Owned'
  <2> DEFINE ask == b.ask \ {<<"patches", i>>}
             on == PatchesListActive(db.patches, i)
             val == [id \in on \cup DOMAIN b.got.patches |->
                       IF id \in on THEN db.patches[id] ELSE b.got.patches[id]]
  <2>1. UNCHANGED <<db, live, profiled>>
    BY <1>5 DEF collectActiveVirtualPatches, history
  <2>2. Put(p, [b EXCEPT !.ask = ask, !.got = [@ EXCEPT !["patches"] = val]])
    BY <1>5 DEF collectActiveVirtualPatches
  <2> HIDE DEF ask, val
  <2> QED  BY <1>3, <2>1, <2>2
<1> QED  BY <1>1, <1>2, <1>4, <1>5

\* What is published was compiled from profiles that had been read.
LEMMA OwnedPublish ==
  ASSUME Inv, Owned, NEW p \in Procs, Publish(p)
  PROVE  Owned'
<1> DEFINE b == call[p]
           c == [Idle EXCEPT !.pc = "done"]
<1>1. /\ b.pc = "snapshot" /\ b.reads = << >> /\ Put(p, c) /\ UNCHANGED <<db, profiled>>
      /\ live' = live \/ (compileBundle(b.got) # Refused /\ live' = compileBundle(b.got))
  BY DEF Publish, Done, history
<1>2. c.pc = "done"
  BY IdleFields DEF Fields
<1> HIDE DEF c
<1>3. DeniesOwn(b.got["easy"], profiled)
  <2>1. "easy" \notin Elements(b.reads)
    BY <1>1, ShortSeq DEF Elements
  <2> QED  BY <1>1, <2>1 DEF Owned, OwnedCall
<1>4. OwnedBundle(live', profiled)
  <2>1. CASE live' = live
    BY <2>1 DEF Owned
  <2>2. CASE compileBundle(b.got) # Refused /\ live' = compileBundle(b.got)
    <3>1. live' = Bundle(b.got)
      BY <2>2, CompiledBundle
    <3>2. DeniesOwn(b.got.easy, profiled)
      BY <1>3
    <3> QED  BY <3>1, <3>2, CompiledOwned
  <2> QED  BY <1>1, <2>1, <2>2
<1>5. call'[p] = c /\ \A q \in Procs \ {p} : call'[q] = call[q]
  BY <1>1 DEF Inv, Put
<1>6. \A q \in Procs : OwnedCall(call'[q], profiled)
  BY <1>2, <1>5 DEF Owned, OwnedCall
<1> QED  BY <1>1, <1>4, <1>6 DEF Owned

LEMMA NextOwned == Inv /\ Owned /\ [Next]_vars => Owned'
<1> SUFFICES ASSUME Inv, Owned, [Next]_vars PROVE Owned'
  OBVIOUS
<1>1. CASE Restart
  <2>1. /\ call' = [p \in Procs |-> IF call[p].pc = "idle" THEN Idle ELSE [Idle EXCEPT !.pc = "done"]]
        /\ db' = db /\ live' = live /\ profiled' = profiled
    BY <1>1 DEF Restart, history
  <2>2. ASSUME NEW p \in Procs
        PROVE  OwnedCall(call'[p], profiled)
    <3>1. call'[p] = Idle \/ call'[p] = [Idle EXCEPT !.pc = "done"]
      BY <2>1
    <3>2. call'[p].pc \in {"idle", "done"}
      BY <3>1, IdleFields DEF Fields
    <3> QED  BY <3>2 DEF OwnedCall
  <2> QED  BY <2>1, <2>2 DEF Owned
<1>2. CASE \E p \in Procs : ProcNext(p)
  <2>1. PICK p \in Procs : ProcNext(p)
    BY <1>2
  <2> QED  BY <2>1, OwnedPlans, OwnedRead, OwnedStores, OwnedSnapshot, OwnedPublish DEF ProcNext
<1>3. CASE UNCHANGED vars
  BY <1>3 DEF vars, history, Owned, OwnedCall
<1> QED  BY <1>1, <1>2, <1>3 DEF Next

\* ManagementServed, for every set of sites and calls: validateManagementSafeguard
\* and the renderers keep the management hosts reachable, but for whom a profile
\* that somebody wrote denies.
THEOREM ServedManagement == Spec => []ManagementServed
<1>1. Inv /\ Owned => ManagementServed
  BY DEF Inv, ServingBundle, Owned, OwnedBundle, ManagementServed
<1>2. Spec => []Owned
  BY Invariance, InitOwned, NextOwned, PTL DEF Spec
<1> QED  BY <1>1, <1>2, Invariance, PTL

\* PromotedDenied, for every number of sites: syncOnce marks an address when
\* every site its ids resolve to denies it, or another call changed sites or
\* policies; only a site whose easy policy comes first may not render the ban.
THEOREM DeniedPromoted == Spec => PromotedDenied
<1>1. ASSUME Inv, NEW p \in Procs, BanAt(p, "mark"), NEW s \in DOMAIN call[p].got.sites
      PROVE  \/ \E t \in touched : t[1] \in {"access", "sites"} /\ t[3] = p
             \/ LET i == Resolved(db.sites, s) IN mapAccessInputs(db, i) \/ Shadowed(i)
  <2> DEFINE b == call[p]
             i == Resolved(db["sites"], s)
             t == db["access"]
  <2> HIDE DEF i
  <2>1. b.pc = "write" /\ b.plan # << >> /\ Head(b.plan).kind = "ban" /\ Head(b.plan).do = "mark"
    BY <1>1 DEF BanAt
  <2>2. CallOK(p, b, db, touched)
    BY <1>1 DEF Inv
  <2>3. IsSeq(b.plan) /\ StepOK(b.op, b.plan[1]) /\ Head(b.plan) = b.plan[1]
    BY <2>1, <2>2, StepsTail DEF CallOK, PlanOK, StepsOK
  <2>4. b.op = "bans.sync"
    BY <2>1, <2>3 DEF StepOK
  <2>5. Len(b.plan) \in Nat /\ DOMAIN b.plan = 1..Len(b.plan) /\ 1 \in DOMAIN b.plan
    BY <2>1, <2>3, SeqDomain
  <2>6. BanStep(b.plan, 1)
    BY <2>1, <2>2, <2>4, <2>5 DEF CallOK, BanOK
  <2>7. Len(b.plan) = 1
    BY <2>1, <2>3, <2>6 DEF BanStep
  <2>8. ~BanPending(b.plan, s) /\ (BanOwed(b.plan, t, i) => Denies(t, i))
    BY <2>1, <2>3, <2>5, <2>7 DEF BanPending, BanOwed, BanLooks, BanWrite
  <2>9. Interfered(p, touched) \/ Denies(t, i)
    BY <1>1, <2>1, <2>2, <2>4, <2>8 DEF CallOK, BanOK, i
  <2>10. ASSUME Denies(t, i)
         PROVE  mapAccessInputs(db, i) \/ Shadowed(i)
    <3>1. PICK x \in DOMAIN t : Chosen(t, i, x) /\ t[x].deny
      BY <2>10 DEF Denies
    <3>2. CASE x[1] = "own" \/ PolicyFor(t, i) = {x}
      BY <3>1, <3>2 DEF Chosen, mapAccessInputs
    <3>3. CASE i \in EasyFirst /\ x = EasyId(i) /\ {PolicyId(i), EasyId(i)} \subseteq PolicyFor(t, i)
      BY <3>1, <3>3 DEF Shadowed
    <3> QED  BY <3>1, <3>2, <3>3 DEF Chosen
  <2> QED  BY <2>9, <2>10 DEF Interfered, i
<1> DEFINE Promotes == \A p \in Procs :
      ~sync.promoted /\ sync'.promoted /\ BanAt(p, "mark") =>
        \A s \in DOMAIN call[p].got.sites :
          \/ \E t \in touched : t[1] \in {"access", "sites"} /\ t[3] = p
          \/ LET i == Resolved(db.sites, s) IN mapAccessInputs(db, i) \/ Shadowed(i)
<1>2. Inv => [Promotes]_vars
  BY <1>1
<1> QED  BY <1>2, Invariance, PTL DEF PromotedDenied

\* RenameMoves, for every document: when Rename removes the old site, nothing it
\* found there is left to be written.
THEOREM MovesRename == Spec => RenameMoves
<1>1. ASSUME Inv, NEW p \in Procs, call[p].op = "site.rename", At(p, "sites"),
             Head(call[p].plan).do = "delete"
      PROVE  Moved(p, call[p].got, call[p].site, call[p].id)
  <2> DEFINE b == call[p]
  <2>1. b.pc = "write" /\ b.plan # << >> /\ Head(b.plan).kind = "sites"
    BY <1>1 DEF At
  <2>2. CallOK(p, b, db, touched)
    BY <1>1 DEF Inv
  <2>3. IsSeq(b.plan) /\ Head(b.plan) = b.plan[1]
    BY <2>1, <2>2, StepsTail DEF CallOK, PlanOK, StepsOK
  <2>4. Len(b.plan) \in Nat /\ DOMAIN b.plan = 1..Len(b.plan) /\ 1 \in DOMAIN b.plan
    BY <2>1, <2>3, SeqDomain
  <2>5. /\ RenameStep(b, b.plan, 1)
        /\ \A kind \in SiteKinds : \A id \in DOMAIN b.got[kind] :
             b.got[kind][id].site = b.site => RecordMoves(p, b, db, touched, kind, id)
        /\ \A kind \in KeyKinds : b.site \in DOMAIN b.got[kind] => KeyMoves(p, b, db, touched, kind)
    BY <1>1, <2>1, <2>2, <2>4 DEF CallOK, RenameOK
  <2>6. \A m \in DOMAIN b.plan : b.plan[m].kind \notin MovedKinds
    <3>1. \A m \in DOMAIN b.plan : b.plan[m].kind \in MovedKinds => m < 1
      BY <1>1, <2>1, <2>3, <2>5 DEF RenameStep
    <3> QED  BY <2>4, <3>1
  <2>7. ASSUME NEW kind \in MovedKinds, NEW do, NEW id
        PROVE  ~Has(b.plan, kind, do, id)
    BY <2>6 DEF Has
  <2>8. ASSUME NEW kind \in SiteKinds, NEW id \in DOMAIN b.got[kind],
               b.got[kind][id].site = b.site, ~Foreign(p, kind, id)
        PROVE  id \in DOMAIN db[kind] /\ db[kind][id].site = b.id
    BY <2>5, <2>7, <2>8 DEF RecordMoves, Elsewhere, Foreign, MovedKinds
  <2>9. ASSUME NEW kind \in KeyKinds, b.site \in DOMAIN b.got[kind],
               ~Foreign(p, kind, b.site), ~Foreign(p, kind, b.id)
        PROVE  b.id \in DOMAIN db[kind] /\ b.site \notin DOMAIN db[kind]
    BY <2>5, <2>7, <2>9 DEF KeyMoves, Elsewhere, Foreign, MovedKinds
  <2> QED  BY <2>8, <2>9 DEF Moved, SiteKinds, KeyKinds
<1> DEFINE Moves == \A p \in Procs :
       call[p].op = "site.rename" /\ At(p, "sites") /\ Head(call[p].plan).do = "delete"
       /\ call[p].site \in DOMAIN db.sites /\ call[p].site \notin DOMAIN db'.sites
         => Moved(p, call[p].got, call[p].site, call[p].id)
<1>2. Inv => [Moves]_vars
  BY <1>1
<1> QED  BY <1>2, Invariance, PTL DEF RenameMoves
=============================================================================
