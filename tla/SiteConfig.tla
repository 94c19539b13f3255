----------------------------- MODULE SiteConfig -----------------------------
(***************************************************************************)
(* Administration of sites: concurrent HTTP calls that change the          *)
(* configuration documents, the rename of a site across all of them, and   *)
(* the auto-apply that ends most calls.                                    *)
(*                                                                         *)
(* A call is a sequence of store calls, each atomic by itself: it reads    *)
(* the documents it checks one after another, decides, then writes one     *)
(* document after another and stops at the first error. Auto-apply reads   *)
(* every document in turn, as buildSnapshot does, and publishes what       *)
(* compiles; staging and reload of the revision are RevisionRollout's.     *)
(***************************************************************************)
EXTENDS BundleCompile, Sequences

CONSTANTS
  Sites, Hosts,
  Upstreams,   \* upstream ids, numbers in the order of the ids
  Patches,     \* virtual patch ids
  Secrets,     \* basic auth passwords
  Configured,  \* the site that is fully configured at first
  Procs,       \* HTTP calls; each is served once
  Quiet,       \* those that send X-WAF-Auto-Apply-Disabled
  EasyFirst,   \* sites whose name sorts after "easy-"
  Rank,        \* the order of the site ids
  Token,       \* normalizeSiteAliasToken of site ids and hosts
  Calls        \* what they may ask for: <<op, site, id, val>>

\* Upstream 1 is there at first; no upstream has the empty id.
ASSUME UpstreamAssumption == 1 \in Upstreams /\ None \notin Upstreams
ASSUME PatchesAssumption == IsFiniteSet(Patches)
ASSUME NamesAssumption ==
  /\ Rank \in [Sites -> Nat] /\ \A x, y \in Sites : Rank[x] = Rank[y] => x = y
  /\ Sites \cup Hosts \subseteq DOMAIN Token

Masked == "masked"  \* maskedSecretValue
\* The certificate "s-tls" is named by its site.
Certificates == Sites

VARIABLES
  db,       \* the documents, by name
  call,     \* calls in progress
  live,     \* the published bundle
  sync,     \* the ban synchronisation's mark, in memory and in its file
  touched,  \* history: <<document, id, p>>, written by another call while the
            \* rename or ban synchronisation p was in progress
  profiled  \* history: sites whose easy profile was written

history == <<touched, profiled>>
vars == <<db, call, live, sync, history>>

\* reads is what the call still has to read, plan what it has to write.
Idle == [pc |-> "idle", op |-> None, site |-> None, id |-> None, val |-> None,
         reads |-> << >>, got |-> << >>, plan |-> << >>, ask |-> {}]
Put(p, c) == call' = [call EXCEPT ![p] = c]
Done(p) == Put(p, [Idle EXCEPT !.pc = "done"])
Op(kind, do, id, val) == [kind |-> kind, do |-> do, id |-> id, val |-> val]

-----------------------------------------------------------------------------
(* Calls: what each reads before it decides                                *)

\* The calls each HTTP handler decodes and passes to its service.
SitesHandler == {"site.create", "site.update", "site.rename", "site.delete", "site.ban", "site.unban"}
UpstreamsHandler == {"upstream.create", "upstream.update", "upstream.delete"}
TLSConfigsHandler == {"tls.create", "tls.update", "tls.delete"}
CertificatesHandler == {"certificate.create", "certificate.update", "certificate.delete"}
CertificateUploadHandler == {"certificate.upload"}
WAFPoliciesHandler == {"waf.create", "waf.update", "waf.delete"}
AccessPoliciesHandler == {"access.create", "access.update", "access.upsert", "access.delete"}
RateLimitPoliciesHandler == {"rate.create", "rate.update", "rate.delete"}
EasySiteProfilesHandler == {"easy.upsert", "easy.delete"}
VirtualPatchesHandler == {"patch.create", "patch.delete"}
ManagementHostsHandler == {"hosts.update"}
DirectIPAccessHandler == {"directip.update"}
AntiDDoSHandler == {"antiddos.upsert"}
\* The background loop that turns Sentinel's drops into bans.
SentinelBanSync == {"bans.sync"}
Operations ==
  UNION {SitesHandler, UpstreamsHandler, TLSConfigsHandler, CertificatesHandler,
         CertificateUploadHandler, WAFPoliciesHandler, AccessPoliciesHandler,
         RateLimitPoliciesHandler, EasySiteProfilesHandler, VirtualPatchesHandler,
         ManagementHostsHandler, DirectIPAccessHandler, AntiDDoSHandler, SentinelBanSync}

\* Most calls that write a record for a site look whether the site exists.
ReadsOf ==
  [op \in Operations |->
     CASE op \in {"upstream.create", "waf.create", "waf.update", "access.create", "access.update",
                  "rate.create", "rate.update", "bans.sync"} -> <<"sites">>
       [] op = "upstream.update" -> <<"sites", "upstreams">>
       [] op \in {"tls.create", "tls.update"} -> <<"sites", "certificates">>
       [] op = "access.upsert" -> <<"sites", "access">>
       [] op = "easy.upsert" -> <<"sites", "easy">>
       [] op = "certificate.upload" -> <<"certificates">>
       [] op = "hosts.update" -> <<"management", "sites">>
       [] op = "site.rename" ->
            <<"sites", "upstreams", "tls", "waf", "access", "rate", "easy", "patches">>
       [] OTHER -> << >>]

Begin(p, c) ==
  /\ call[p].pc = "idle" /\ c[1] \in Operations /\ (c[1] \in SentinelBanSync => p \notin Quiet)
  /\ Put(p, [Idle EXCEPT !.pc = "read", !.op = c[1], !.site = c[2], !.id = c[3],
                         !.val = c[4], !.reads = ReadsOf[c[1]]])
  /\ UNCHANGED <<db, live, sync, history>>

\* One List or Get of a store.
Read(p) ==
  LET c == call[p] IN
  /\ c.pc \in {"read", "snapshot"} /\ c.reads # << >>
  /\ Put(p, [c EXCEPT !.reads = Tail(@), !.got = Bind(@, Head(c.reads), db[Head(c.reads)])])
  /\ UNCHANGED <<db, live, sync, history>>

\* The decision after the reads: an error ends the call.
Ready(p, ops) == call[p].pc = "read" /\ call[p].reads = << >> /\ call[p].op \in ops
Proceed(p, ok, plan) ==
  /\ IF ok THEN Put(p, [call[p] EXCEPT !.pc = "write", !.plan = plan, !.got = << >>])
     ELSE Done(p)
  /\ UNCHANGED <<db, live, sync, history>>
SiteKnown(p) == call[p].site \in DOMAIN call[p].got.sites

-----------------------------------------------------------------------------
(* Services                                                                *)

SiteCalls(p) ==
  LET c == call[p] IN
  \/ Ready(p, {"site.create"}) /\ Proceed(p, TRUE, <<Op("sites", "create", c.site, c.val)>>)
  \/ Ready(p, {"site.update"}) /\ Proceed(p, TRUE, <<Op("sites", "update", c.site, c.val)>>)
  \/ Ready(p, {"site.delete"}) /\ Proceed(p, TRUE, <<Op("sites", "delete", c.site, None)>>)

UpstreamCalls(p) ==
  LET c == call[p] v == [site |-> c.site, ui |-> c.val] IN
  \/ Ready(p, {"upstream.create"}) /\ Proceed(p, SiteKnown(p), <<Op("upstreams", "create", c.id, v)>>)
  \/ /\ Ready(p, {"upstream.update"})
     /\ Proceed(p, SiteKnown(p) /\ (c.id \in DOMAIN c.got.upstreams => c.got.upstreams[c.id].site = c.site),
                <<Op("upstreams", "update", c.id, v)>>)
  \/ Ready(p, {"upstream.delete"}) /\ Proceed(p, TRUE, <<Op("upstreams", "delete", c.id, None)>>)

\* ensureCertificateMatchesSite: a certificate that names no host fits all.
CertificateMatches(p) ==
  LET c == call[p] IN
  /\ SiteKnown(p) /\ c.id \in DOMAIN c.got.certificates
  /\ c.got.certificates[c.id] = {} \/ c.got.sites[c.site].host \in c.got.certificates[c.id]
TLSCalls(p) ==
  LET c == call[p] IN
  \/ Ready(p, {"tls.create"}) /\ Proceed(p, CertificateMatches(p), <<Op("tls", "create", c.site, c.id)>>)
  \/ Ready(p, {"tls.update"}) /\ Proceed(p, CertificateMatches(p), <<Op("tls", "update", c.site, c.id)>>)
  \/ Ready(p, {"tls.delete"}) /\ Proceed(p, TRUE, <<Op("tls", "delete", c.site, None)>>)

\* Upload makes the certificate when it is not listed, then puts its material.
CertificateCalls(p) ==
  LET c == call[p] IN
  \/ Ready(p, {"certificate.create"}) /\ Proceed(p, TRUE, <<Op("certificates", "create", c.id, c.val)>>)
  \/ Ready(p, {"certificate.update"}) /\ Proceed(p, TRUE, <<Op("certificates", "update", c.id, c.val)>>)
  \/ Ready(p, {"certificate.delete"}) /\ Proceed(p, TRUE, <<Op("certificates", "delete", c.id, None)>>)
CertificateUpload(p) ==
  LET c == call[p] put == <<Op("materials", "put", c.id, None)>> IN
  /\ Ready(p, {"certificate.upload"})
  /\ Proceed(p, TRUE, IF c.id \in DOMAIN c.got.certificates THEN put
                      ELSE <<Op("certificates", "create", c.id, c.val)>> \o put)

WAFPolicyCalls(p) ==
  LET c == call[p] v == [site |-> c.site, enabled |-> c.val] IN
  \/ Ready(p, {"waf.create"}) /\ Proceed(p, SiteKnown(p), <<Op("waf", "create", c.id, v)>>)
  \/ Ready(p, {"waf.update"}) /\ Proceed(p, SiteKnown(p), <<Op("waf", "update", c.id, v)>>)
  \/ Ready(p, {"waf.delete"}) /\ Proceed(p, TRUE, <<Op("waf", "delete", c.id, None)>>)

AccessPolicyCalls(p) ==
  LET c == call[p] v == [site |-> c.site, deny |-> c.val] IN
  \/ Ready(p, {"access.create"}) /\ Proceed(p, SiteKnown(p), <<Op("access", "create", c.id, v)>>)
  \/ Ready(p, {"access.update"}) /\ Proceed(p, SiteKnown(p), <<Op("access", "update", c.id, v)>>)
  \/ Ready(p, {"access.delete"}) /\ Proceed(p, TRUE, <<Op("access", "delete", c.id, None)>>)
AccessPolicyUpsert(p) ==
  LET c == call[p] v == [site |-> c.site, deny |-> c.val] IN
  /\ Ready(p, {"access.upsert"})
  /\ Proceed(p, SiteKnown(p),
       <<Op("access", IF c.id \in DOMAIN c.got.access THEN "update" ELSE "create", c.id, v)>>)

RateLimitPolicyCalls(p) ==
  LET c == call[p] v == [site |-> c.site, enabled |-> c.val] IN
  \/ Ready(p, {"rate.create"}) /\ Proceed(p, SiteKnown(p), <<Op("rate", "create", c.id, v)>>)
  \/ Ready(p, {"rate.update"}) /\ Proceed(p, SiteKnown(p), <<Op("rate", "update", c.id, v)>>)
  \/ Ready(p, {"rate.delete"}) /\ Proceed(p, TRUE, <<Op("rate", "delete", c.id, None)>>)

PatchCalls(p) ==
  LET c == call[p] IN
  \/ /\ Ready(p, {"patch.create"})
     /\ Proceed(p, TRUE, <<Op("patches", "create", c.id, [site |-> c.site, expired |-> c.val])>>)
  \/ Ready(p, {"patch.delete"}) /\ Proceed(p, TRUE, <<Op("patches", "delete", c.id, None)>>)

\* The version was read by the client; c.id is what it sends back.
ManagementHostsUpdate(p) ==
  LET c == call[p]
      enabled == {c.got.sites[i].host : i \in {x \in DOMAIN c.got.sites : c.got.sites[x].enabled}} IN
  /\ Ready(p, {"hosts.update"})
  /\ Proceed(p, c.id = c.got.management.version /\ c.val # {} /\ c.val \subseteq enabled,
             <<Op("management", "update", c.id, c.val)>>)
SettingsCalls(p) ==
  LET c == call[p] IN
  \/ Ready(p, {"directip.update"}) /\ Proceed(p, TRUE, <<Op("management", "block", None, c.val)>>)
  \/ Ready(p, {"antiddos.upsert"}) /\ Proceed(p, TRUE, <<Op("antiddos", "upsert", None, c.val)>>)

-----------------------------------------------------------------------------
(* Bans: one address, denied at a site or at all of them                   *)

\* The ids of a document as a sequence, in any fixed order.
Listed(S) == CHOOSE q \in [1..Cardinality(S) -> S] : {q[k] : k \in DOMAIN q} = S

\* banSite and unbanSite: look the site up, find its policy, write it back.
BanSite(s, deny) == Op("ban", "resolve", s, deny)
ManualBan(p) ==
  LET c == call[p] IN
  \/ Ready(p, {"site.ban"}) /\ Proceed(p, TRUE, <<BanSite(c.site, TRUE)>>)
  \/ Ready(p, {"site.unban"}) /\ Proceed(p, TRUE, <<BanSite(c.site, FALSE)>>)

BanAt(p, do) == call[p].pc = "write" /\ call[p].plan # << >> /\ Head(call[p].plan).kind = "ban"
                /\ Head(call[p].plan).do = do
\* The first site by id whose id or host reads like the name asked for, which
\* need not be the site with that id. A deleted site may still be unbanned.
Alike(t, s) == {x \in DOMAIN t : Token[s] \in {Token[x], Token[t[x].host]}}
Resolved(t, s) == CHOOSE x \in Alike(t, s) : \A y \in Alike(t, s) : Rank[x] <= Rank[y]
resolveSiteID(p) ==
  LET c == call[p] o == Head(c.plan)
      found == Alike(db.sites, o.id) # {}
      stale == ~o.val /\ PolicyFor(db.access, o.id) # {}
      to == IF found THEN Resolved(db.sites, o.id) ELSE o.id IN
  /\ BanAt(p, "resolve")
  /\ IF found \/ stale THEN Put(p, [c EXCEPT !.plan = <<Op("ban", "find", to, o.val)>> \o Tail(@)])
     ELSE Done(p)
  /\ UNCHANGED <<db, live, sync, history>>
\* findBySite takes the first policy by id; nothing to change ends the call.
findBySite(p) ==
  LET c == call[p] o == Head(c.plan)
      ids == PolicyFor(db.access, o.id)
      both == {PolicyId(o.id), EasyId(o.id)} \subseteq ids
      first == IF ~both THEN CHOOSE id \in ids : TRUE
               ELSE IF o.id \in EasyFirst THEN EasyId(o.id) ELSE PolicyId(o.id)
      same == IF ids = {} THEN ~o.val ELSE db.access[first].deny = o.val
      write == IF ids = {} THEN Op("access", "create", PolicyId(o.id), [site |-> o.id, deny |-> TRUE])
               ELSE Op("access", "update", first, [db.access[first] EXCEPT !.deny = o.val]) IN
  /\ BanAt(p, "find")
  /\ IF ~same THEN Put(p, [c EXCEPT !.plan = <<write>> \o Tail(@)])
     ELSE IF c.op = "bans.sync" THEN Put(p, [c EXCEPT !.plan = Tail(@)]) ELSE Done(p)
  /\ UNCHANGED <<db, live, sync, history>>

\* banAllSites
BanAll(ids) == [k \in DOMAIN ids |-> BanSite(ids[k], TRUE)]
\* Mutant: the address is marked before it is banned.
MarkFirst(ids) == <<Op("ban", "mark", None, TRUE)>> \o BanAll(ids)

\* syncOnce for an address Sentinel drops: ban it at every site, mark it, apply,
\* save the mark. An error leaves it to the next tick.
PromotePlan(ids) == BanAll(ids) \o <<Op("ban", "mark", None, TRUE)>>
syncOnce(p) ==
  LET c == call[p] ids == Listed(DOMAIN c.got.sites) IN
  /\ Ready(p, {"bans.sync"})
  /\ IF sync.promoted \/ ids = << >> THEN Done(p)
     ELSE Put(p, [c EXCEPT !.pc = "write", !.plan = PromotePlan(ids)])
  /\ UNCHANGED <<db, live, sync, history>>
markPromoted(p) ==
  /\ BanAt(p, "mark")
  /\ sync' = [sync EXCEPT !.promoted = TRUE]
  /\ Put(p, [call[p] EXCEPT !.plan = Tail(@)])
  /\ UNCHANGED <<db, live, history>>

-----------------------------------------------------------------------------
(* Easy site profiles                                                      *)

\* mergeMaskedSecrets: a masked secret stands for the stored one.
mergeMaskedSecrets(new, old) == [new EXCEPT !.secret = IF @ = Masked THEN old.secret ELSE @]

\* Upsert, then syncEasyToLegacy.
EasyProfileUpsert(p) ==
  LET c == call[p]
      stored == c.site \in DOMAIN c.got.easy
      v == IF stored THEN mergeMaskedSecrets(c.val, c.got.easy[c.site]) ELSE c.val IN
  /\ Ready(p, {"easy.upsert"})
  /\ Proceed(p, SiteKnown(p), <<Op("easy", IF stored THEN "update" ELSE "create", c.site, v),
                                Op("sync", "waf", c.site, v)>>)
EasyProfileDelete(p) ==
  LET c == call[p] IN
  /\ Ready(p, {"easy.delete"}) /\ Proceed(p, TRUE, <<Op("easy", "delete", c.site, None)>>)

\* syncEasyToLegacy: each part lists a store, then writes it. The site's WAF
\* policies are switched off; a first-class access policy ends the
\* synchronisation; the rate limit policy takes the profile's limit.
SyncNext(o, do) == Op("sync", do, o.id, o.val)
SyncPlan(o) ==
  LET waf == PolicyFor(db.waf, o.id)
      foreign == \E id \in PolicyFor(db.access, o.id) : id # EasyId(o.id)
      rate == PolicyFor(db.rate, o.id)
      off == [site |-> o.id, enabled |-> FALSE]
      list == [site |-> o.id, deny |-> o.val.deny]
      limit == [site |-> o.id, enabled |-> o.val.limit] IN
  IF o.do = "waf"
  THEN <<IF waf = {} THEN Op("waf", "create", EasyId(o.id), off)
         ELSE Op("waf", "update", CHOOSE id \in waf : TRUE, off), SyncNext(o, "access")>>
  ELSE IF o.do = "access"
  THEN IF foreign THEN << >>
       ELSE <<Op("access", IF EasyId(o.id) \in DOMAIN db.access THEN "update" ELSE "create",
                 EasyId(o.id), list), SyncNext(o, "rate")>>
  ELSE IF rate = {} THEN <<Op("rate", "create", EasyId(o.id), limit)>>
  ELSE <<Op("rate", "update", CHOOSE id \in rate : TRUE, limit)>>

SyncEasyToLegacy(p) ==
  LET c == call[p] IN
  /\ c.pc = "write" /\ c.plan # << >> /\ Head(c.plan).kind = "sync"
  /\ Put(p, [c EXCEPT !.plan = SyncPlan(Head(c.plan)) \o Tail(@)])
  /\ UNCHANGED <<db, live, sync, history>>

-----------------------------------------------------------------------------
(* Rename                                                                  *)

MoveAll(kind, t, old, new) ==
  LET ids == Listed({id \in DOMAIN t : t[id].site = old}) IN
  [k \in DOMAIN ids |-> Op(kind, "update", ids[k], [t[ids[k]] EXCEPT !.site = new])]
\* Mutant: the patch is made again at the old site.
KeepPatchSite(t, old, new) ==
  LET ids == Listed({id \in DOMAIN t : t[id].site = old}) IN
  [k \in 1..(2 * Len(ids)) |->
     LET id == ids[(k + 1) \div 2] IN
     IF k % 2 = 1 THEN Op("patches", "delete", id, None) ELSE Op("patches", "create", id, t[id])]

MovePatches(t, old, new) ==
  LET ids == Listed({id \in DOMAIN t : t[id].site = old}) IN
  [k \in 1..(2 * Len(ids)) |->
     LET id == ids[(k + 1) \div 2] IN
     IF k % 2 = 1 THEN Op("patches", "delete", id, None)
     ELSE Op("patches", "create", id, [t[id] EXCEPT !.site = new])]

\* The certificate moves when it carries the site's name.
MoveTLS(g, old, new) ==
  IF old \notin DOMAIN g.tls THEN << >>
  ELSE IF g.tls[old] = old THEN <<Op("rename", "certificate", old, new), Op("tls", "create", new, new)>>
  ELSE <<Op("tls", "create", new, g.tls[old])>>

RenamePlan(g, old, new, v) ==
  LET move(kind) == MoveAll(kind, g[kind], old, new) IN
  MoveTLS(g, old, new) \o move("upstreams") \o move("waf") \o move("access") \o move("rate")
  \o (IF old \in DOMAIN g.easy
      THEN <<Op("easy", "create", new, g.easy[old]), Op("easy", "delete", old, None)>> ELSE << >>)
  \o MovePatches(g.patches, old, new)
  \o <<Op("sites", "create", new, v)>>
  \o (IF old \in DOMAIN g.tls THEN <<Op("tls", "delete", old, None)>> ELSE << >>)
  \o <<Op("sites", "delete", old, None), Op("rename", "host", g.sites[old].host, v.host)>>

\* The read documents stay with the call until it ends.
Rename(p) ==
  LET c == call[p] IN
  /\ Ready(p, {"site.rename"})
  /\ IF SiteKnown(p) /\ c.id \notin DOMAIN c.got.sites /\ c.id # c.site
     THEN Put(p, [c EXCEPT !.pc = "write", !.plan = RenamePlan(c.got, c.site, c.id, c.val)])
     ELSE Done(p)
  /\ UNCHANGED <<db, live, sync, history>>

\* renameCertificate: an unlisted certificate is left alone; material that
\* cannot be read is not moved, and failing to delete the old is no error.
RenameCertificate(p) ==
  LET c == call[p] o == Head(c.plan)
      steps == <<Op("certificates", "create", o.val, db.certificates[o.id]), Op("rename", "material", o.id, o.val),
                 Op("certificates", "delete", o.id, None)>> IN
  /\ c.pc = "write" /\ c.plan # << >> /\ o.kind = "rename" /\ o.do = "certificate"
  /\ Put(p, [c EXCEPT !.plan = (IF o.id \in DOMAIN db.certificates THEN steps ELSE << >>) \o Tail(@)])
  /\ UNCHANGED <<db, live, sync, history>>
RenameMaterial(p) ==
  LET c == call[p] o == Head(c.plan)
      steps == <<Op("materials", "put", o.val, None), Op("materials", "try delete", o.id, None)>> IN
  /\ c.pc = "write" /\ c.plan # << >> /\ o.kind = "rename" /\ o.do = "material"
  /\ Put(p, [c EXCEPT !.plan = (IF MaterialsRead(db.materials, o.id) THEN steps ELSE << >>) \o Tail(@)])
  /\ UNCHANGED <<db, live, sync, history>>

\* moveManagementHost: Get, then Update under the version read.
MoveManagementHost(p) ==
  LET c == call[p] o == Head(c.plan) m == db.management IN
  /\ c.pc = "write" /\ c.plan # << >> /\ o.kind = "rename" /\ o.do = "host"
  /\ Put(p, [c EXCEPT !.plan =
       (IF m.migrated /\ o.id \in m.hosts
        THEN <<Op("management", "update", m.version, (m.hosts \ {o.id}) \cup {o.val})>>
        ELSE << >>) \o Tail(@)])
  /\ UNCHANGED <<db, live, sync, history>>

-----------------------------------------------------------------------------
(* The store calls                                                         *)

At(p, kind) == call[p].pc = "write" /\ call[p].plan # << >> /\ Head(call[p].plan).kind = kind
\* The calls whose promise is about what nobody else has written meanwhile.
Watched(q) == call[q].op \in {"site.rename", "bans.sync"}
Write(p, do, t) ==
  LET c == call[p] o == Head(c.plan) IN
  /\ o.do = do
  /\ IF t = Refused THEN Done(p) /\ UNCHANGED <<db, history>>
     ELSE /\ db' = [db EXCEPT ![o.kind] = t]
          /\ Put(p, [c EXCEPT !.plan = Tail(@)])
          /\ touched' = touched \cup {<<o.kind, o.id, q>> : q \in {x \in Procs \ {p} : Watched(x)}}
          /\ profiled' = IF o.kind = "easy" THEN profiled \cup {o.id} ELSE profiled
  /\ UNCHANGED <<live, sync>>

WriteSites(p) ==
  LET o == Head(call[p].plan) t == db.sites IN
  /\ At(p, "sites")
  /\ \/ Write(p, "create", SitesCreate(t, o.id, o.val))
     \/ Write(p, "update", SitesUpdate(t, o.id, o.val))
     \/ Write(p, "delete", SitesDelete(t, o.id))
WriteUpstreams(p) ==
  LET o == Head(call[p].plan) t == db.upstreams IN
  /\ At(p, "upstreams")
  /\ \/ Write(p, "create", UpstreamsCreate(t, o.id, o.val))
     \/ Write(p, "update", UpstreamsUpdate(t, o.id, o.val))
     \/ Write(p, "delete", UpstreamsDelete(t, o.id))
WriteTLS(p) ==
  LET o == Head(call[p].plan) t == db.tls IN
  /\ At(p, "tls")
  /\ \/ Write(p, "create", TLSConfigsCreate(t, o.id, o.val))
     \/ Write(p, "update", TLSConfigsUpdate(t, o.id, o.val))
     \/ Write(p, "delete", TLSConfigsDelete(t, o.id))
WriteCertificates(p) ==
  LET o == Head(call[p].plan) t == db.certificates IN
  /\ At(p, "certificates")
  /\ \/ Write(p, "create", CertificatesCreate(t, o.id, o.val))
     \/ Write(p, "update", CertificatesUpdate(t, o.id, o.val))
     \/ Write(p, "delete", CertificatesDelete(t, o.id))
WriteMaterials(p) ==
  LET o == Head(call[p].plan) t == db.materials IN
  /\ At(p, "materials")
  /\ \/ Write(p, "put", MaterialsPut(t, o.id))
     \/ Write(p, "try delete", IF MaterialsDelete(t, o.id) = Refused THEN t ELSE MaterialsDelete(t, o.id))
WriteWAF(p) ==
  LET o == Head(call[p].plan) t == db.waf IN
  /\ At(p, "waf")
  /\ \/ Write(p, "create", WAFPoliciesCreate(t, o.id, o.val))
     \/ Write(p, "update", WAFPoliciesUpdate(t, o.id, o.val))
     \/ Write(p, "delete", WAFPoliciesDelete(t, o.id))
WriteAccess(p) ==
  LET o == Head(call[p].plan) t == db.access IN
  /\ At(p, "access")
  /\ \/ Write(p, "create", AccessPoliciesCreate(t, o.id, o.val))
     \/ Write(p, "update", AccessPoliciesUpdate(t, o.id, o.val))
     \/ Write(p, "delete", AccessPoliciesDelete(t, o.id))
WriteRate(p) ==
  LET o == Head(call[p].plan) t == db.rate IN
  /\ At(p, "rate")
  /\ \/ Write(p, "create", RateLimitPoliciesCreate(t, o.id, o.val))
     \/ Write(p, "update", RateLimitPoliciesUpdate(t, o.id, o.val))
     \/ Write(p, "delete", RateLimitPoliciesDelete(t, o.id))
WriteEasy(p) ==
  LET o == Head(call[p].plan) t == db.easy IN
  /\ At(p, "easy")
  /\ \/ Write(p, "create", EasyProfilesCreate(t, o.id, o.val))
     \/ Write(p, "update", EasyProfilesUpdate(t, o.id, o.val))
     \/ Write(p, "delete", EasyProfilesDelete(t, o.id))
WritePatches(p) ==
  LET o == Head(call[p].plan) t == db.patches IN
  /\ At(p, "patches")
  /\ \/ Write(p, "create", PatchesCreate(t, o.id, o.val))
     \/ Write(p, "delete", PatchesDelete(t, o.id))
WriteSettings(p) ==
  LET o == Head(call[p].plan) IN
  \/ At(p, "management") /\ Write(p, "update", ManagementUpdate(db.management, o.val, o.id))
  \/ At(p, "management") /\ Write(p, "block", UpdateDirectIPAccess(db.management, o.val))
  \/ At(p, "antiddos") /\ Write(p, "upsert", o.val)

-----------------------------------------------------------------------------
(* Auto-apply                                                              *)

SnapshotReads == <<"sites", "upstreams", "certificates", "tls", "waf", "access", "rate", "easy",
                   "antiddos", "management">>
\* Certificates and their material take effect with the next apply, like the
\* management hosts.
AutoApplies(op) ==
  op \notin {"certificate.create", "certificate.update", "certificate.delete", "certificate.upload",
             "hosts.update"}

\* runAutoApply, unless the client asked for none.
EndWrites(p) ==
  LET c == call[p] IN
  /\ c.pc = "write" /\ c.plan = << >>
  /\ IF AutoApplies(c.op) /\ p \notin Quiet
     THEN Put(p, [Idle EXCEPT !.pc = "snapshot", !.op = c.op, !.reads = SnapshotReads,
                              !.got = [materials |-> {}, patches |-> << >>], !.ask = {<<"none", None>>}])
     ELSE Done(p)
  /\ UNCHANGED <<db, live, sync, history>>

\* Then the material of each certificate listed or named by a profile, in the
\* order of a map, and the active patches of each site listed.
AskMaterials(p) ==
  LET c == call[p] IN
  /\ c.pc = "snapshot" /\ c.reads = << >> /\ c.ask = {<<"none", None>>}
  /\ Put(p, [c EXCEPT !.ask = {<<"material", x>> : x \in DOMAIN c.got.certificates \cup ClientCAs(c.got)}
                              \cup {<<"patches", i>> : i \in DOMAIN c.got.sites}])
  /\ UNCHANGED <<db, live, sync, history>>
ReadMaterial(p, x) ==
  LET c == call[p] IN
  /\ c.pc = "snapshot" /\ <<"material", x>> \in c.ask
  /\ Put(p, [c EXCEPT !.ask = @ \ {<<"material", x>>},
                      !.got.materials = IF MaterialsRead(db.materials, x) THEN @ \cup {x} ELSE @])
  /\ UNCHANGED <<db, live, sync, history>>
collectActiveVirtualPatches(p, i) ==
  LET c == call[p] IN
  /\ c.pc = "snapshot" /\ <<"patches", i>> \in c.ask /\ \A a \in c.ask : a[1] = "patches"
  /\ Put(p, [c EXCEPT !.ask = @ \ {<<"patches", i>>},
       !.got.patches = [id \in PatchesListActive(db.patches, i) \cup DOMAIN @ |->
                          IF id \in PatchesListActive(db.patches, i) THEN db.patches[id] ELSE @[id]]])
  /\ UNCHANGED <<db, live, sync, history>>

\* Apply: a bundle that compiles is published, unless the runtime refuses it.
\* Only then is the mark of the ban synchronisation saved.
Publish(p) ==
  LET c == call[p] bundle == compileBundle(c.got) IN
  /\ c.pc = "snapshot" /\ c.reads = << >> /\ c.ask = {}
  /\ \/ UNCHANGED <<live, sync>>
     \/ /\ bundle # Refused /\ live' = bundle
        /\ sync' = IF c.op = "bans.sync" THEN [sync EXCEPT !.saved = sync.promoted] ELSE sync
  /\ Done(p) /\ UNCHANGED <<db, history>>

\* The control plane restarts: calls die where they are, documents stay. Where
\* no write has begun, that is the same as the call not being made.
Restart ==
  /\ \E p \in Procs : call[p].pc = "write"
  /\ call' = [p \in Procs |-> IF call[p].pc = "idle" THEN Idle ELSE [Idle EXCEPT !.pc = "done"]]
  /\ sync' = [sync EXCEPT !.promoted = sync.saved]
  /\ UNCHANGED <<db, live, history>>

-----------------------------------------------------------------------------
Profile == [mode : {"block", "monitor", "transparent"}, secret : Secrets \cup {None, Masked},
            ca : Certificates \cup {None}, deny : BOOLEAN, limit : BOOLEAN]

\* One site with every kind of record, management hosts configured or not.
InitDocuments ==
  LET s == Configured h == CHOOSE x \in Hosts : TRUE
      noHosts == [hosts |-> {}, version |-> 0, migrated |-> FALSE, block |-> FALSE] IN
  {[sites |-> Only(s, [host |-> h, enabled |-> TRUE]),
    upstreams |-> Only(1, [site |-> s, ui |-> TRUE]),
    certificates |-> Only(s, {}), tls |-> Only(s, s), materials |-> {s},
    waf |-> Only(EasyId(s), [site |-> s, enabled |-> FALSE]),
    access |-> Only(PolicyId(s), [site |-> s, deny |-> FALSE]),
    rate |-> Only(PolicyId(s), [site |-> s, enabled |-> TRUE]),
    easy |-> Only(s, [mode |-> "block", secret |-> CHOOSE x \in Secrets : TRUE, ca |-> None,
                      deny |-> FALSE, limit |-> TRUE]),
    patches |-> [id \in Patches |-> [site |-> s, expired |-> FALSE]],
    management |-> IF migrated THEN ManagementBootstrap(noHosts, h) ELSE noHosts,
    antiddos |-> FALSE] : migrated \in BOOLEAN}

Init ==
  /\ db \in InitDocuments
  /\ live = compileBundle(db)
  /\ call = [p \in Procs |-> Idle] /\ sync = [promoted |-> FALSE, saved |-> FALSE]
  /\ touched = {} /\ profiled = {}

Services(p) ==
  \/ SiteCalls(p) \/ UpstreamCalls(p) \/ TLSCalls(p) \/ CertificateCalls(p) \/ CertificateUpload(p)
  \/ WAFPolicyCalls(p) \/ AccessPolicyCalls(p) \/ AccessPolicyUpsert(p) \/ RateLimitPolicyCalls(p)
  \/ PatchCalls(p) \/ ManagementHostsUpdate(p) \/ SettingsCalls(p)
  \/ EasyProfileUpsert(p) \/ EasyProfileDelete(p) \/ Rename(p) \/ ManualBan(p) \/ syncOnce(p)
Stores(p) ==
  \/ WriteSites(p) \/ WriteUpstreams(p) \/ WriteTLS(p) \/ WriteCertificates(p) \/ WriteMaterials(p)
  \/ WriteWAF(p) \/ WriteAccess(p) \/ WriteRate(p) \/ WriteEasy(p) \/ WritePatches(p) \/ WriteSettings(p)

ProcNext(p) ==
    \/ \E c \in Calls : Begin(p, c)
    \/ Read(p) \/ Services(p) \/ Stores(p) \/ resolveSiteID(p) \/ findBySite(p) \/ markPromoted(p)
    \/ SyncEasyToLegacy(p) \/ RenameCertificate(p) \/ RenameMaterial(p) \/ MoveManagementHost(p)
    \/ EndWrites(p) \/ AskMaterials(p)
    \/ \E x \in Certificates : ReadMaterial(p, x)
    \/ \E i \in Sites : collectActiveVirtualPatches(p, i)
    \/ Publish(p)
Next == Restart \/ \E p \in Procs : ProcNext(p)

Spec == Init /\ [][Next]_vars

-----------------------------------------------------------------------------
\* However calls and snapshots interleave, every site of the published bundle
\* has a host of its own and an upstream no other site uses, and an HTTPS site
\* a certificate of its own whose material is among the files: the compiler
\* refuses a torn snapshot that would break this.
PublishedSound ==
  LET on == live.sites IN
  /\ \A i \in DOMAIN on :
       /\ on[i].upstream # None
       /\ on[i].certificate # None => on[i].certificate \in live.files
  /\ \A i, j \in DOMAIN on : i # j =>
       /\ on[i].host # on[j].host /\ on[i].upstream # on[j].upstream
       /\ on[i].certificate # None => on[i].certificate # on[j].certificate

\* The administrator can always reach the control plane: a published bundle
\* serves every management host it names, whatever was deleted, disabled or
\* renamed meanwhile, and no access policy, ban or rule of the engine closes
\* it. It turns away only whom its own easy profile denies, and only after
\* somebody wrote that profile.
ManagementServed ==
  \A h \in live.hosts : \E i \in DOMAIN live.sites :
    LET on == live.sites[i] IN
    /\ on.host = h /\ on.management /\ on.access = "allow" /\ ~on.easy.modsecurity
    /\ on.easy.deny => i \in profiled

\* When a rename removes the old site, each record it found there has moved
\* to the new site, but for what another call wrote in the meantime.
Foreign(p, kind, id) == <<kind, id, p>> \in touched
Moved(p, g, old, new) ==
  /\ \A kind \in {"upstreams", "waf", "access", "rate", "patches"} :
       \A id \in DOMAIN g[kind] :
         g[kind][id].site = old /\ ~Foreign(p, kind, id) =>
           id \in DOMAIN db[kind] /\ db[kind][id].site = new
  /\ \A kind \in {"tls", "easy"} :
       old \in DOMAIN g[kind] /\ ~Foreign(p, kind, old) /\ ~Foreign(p, kind, new) =>
         new \in DOMAIN db[kind] /\ old \notin DOMAIN db[kind]
RenameMoves ==
  [][\A p \in Procs :
       call[p].op = "site.rename" /\ At(p, "sites") /\ Head(call[p].plan).do = "delete"
       /\ call[p].site \in DOMAIN db.sites /\ call[p].site \notin DOMAIN db'.sites
         => Moved(p, call[p].got, call[p].site, call[p].id)]_vars

\* An address is marked as promoted, never to be banned again, only when the
\* site each listed id resolves to denies it in the policy that is rendered,
\* but for sites and policies another call wrote while the bans were made: a
\* ban that failed half way is tried again. The exception is a site with two
\* policies whose easy one comes first by id: the ban goes into that one, and
\* the other is rendered.
Shadowed(i) ==
  /\ i \in EasyFirst /\ {PolicyId(i), EasyId(i)} \subseteq PolicyFor(db.access, i)
  /\ db.access[EasyId(i)].deny
PromotedDenied ==
  [][\A p \in Procs :
       ~sync.promoted /\ sync'.promoted /\ BanAt(p, "mark") =>
         \A s \in DOMAIN call[p].got.sites :
           \/ \E t \in touched : t[1] \in {"access", "sites"} /\ t[3] = p
           \/ LET i == Resolved(db.sites, s) IN mapAccessInputs(db, i) \/ Shadowed(i)]_vars
=============================================================================
