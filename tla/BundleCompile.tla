--------------------------- MODULE BundleCompile ---------------------------
(***************************************************************************)
(* From a snapshot of the configuration documents to the bundle a revision *)
(* publishes: compileBundle of the apply service and the renderers of the  *)
(* compiler. A bundle keeps what its files decide for each enabled site:   *)
(* host, upstream, certificate, WAF engine, access, limits, easy profile.  *)
(***************************************************************************)
EXTENDS ConfigStores

CONSTANT BuiltInNames  \* site ids and hosts that are the UI's by name

Least(S) == CHOOSE x \in S : \A y \in S : x <= y
EnabledSites(s) == {i \in DOMAIN s.sites : s.sites[i].enabled}

-----------------------------------------------------------------------------
(* Inputs of the renderers                                                 *)

\* The site's first upstream by id.
UpstreamsOf(s, i) == {u \in DOMAIN s.upstreams : s.upstreams[u].site = i}
DefaultUpstream(s, i) == IF UpstreamsOf(s, i) = {} THEN None ELSE Least(UpstreamsOf(s, i))

\* Before hosts are configured, the only enabled site in front of the UI.
legacyManagementUIProxySiteIDs(s) ==
  LET uis == {i \in EnabledSites(s) :
                DefaultUpstream(s, i) # None /\ s.upstreams[DefaultUpstream(s, i)].ui} IN
  IF Cardinality(uis) = 1 THEN uis ELSE {}

\* mapSiteUpstreamInputs: a TLS binding makes the site HTTPS only.
isManagementSite(s, i) ==
  IF s.management.migrated THEN s.sites[i].host \in s.management.hosts
  ELSE i \in legacyManagementUIProxySiteIDs(s) \/ {i, s.sites[i].host} \cap BuiltInNames # {}
mapSiteUpstreamInputs(s, i) ==
  [host |-> s.sites[i].host, upstream |-> DefaultUpstream(s, i),
   https |-> i \in DOMAIN s.tls, management |-> isManagementSite(s, i)]

\* Mutant: a certificate without material is skipped.
SkipMissing(s) == TRUE

\* mapTLSInputs: the material of every bound certificate, of an unknown or
\* disabled site too, and of every client CA a profile names.
BoundCertificates(s) == {s.tls[i] : i \in DOMAIN s.tls}
ClientCAs(s) == {s.easy[i].ca : i \in DOMAIN s.easy} \ {None}
mapTLSInputs(s) == BoundCertificates(s) \cup ClientCAs(s) \subseteq s.materials

\* The document of policies as a function of the site.
PolicyFor(t, i) == {id \in DOMAIN t : t[id].site = i}
mapWAFInputs(s, i) == \E id \in PolicyFor(s.waf, i) : s.waf[id].enabled

\* mapAccessInputs: the first-class policy before the easy one; whether it is
\* enabled does not matter. A profile may switch blocking off.
mapAccessInputs(s, i) ==
  LET ids == PolicyFor(s.access, i)
      own == {id \in ids : id[1] = "own"}
      kept == IF own # {} THEN own ELSE ids IN
  \E id \in kept : s.access[id].deny

mapRateLimitInputs(s, i) == \E id \in PolicyFor(s.rate, i) : s.rate[id].enabled
\* The anti-DDoS limit, for sites without a policy of their own.
applyAntiDDoSRateOverrides(s, i) ==
  s.antiddos /\ PolicyFor(s.rate, i) = {} /\ ~isManagementSite(s, i)

\* mapEasyInputs gives a stored profile the active patches of its site; the
\* default profile of a site without one has none, and denies nobody.
mapEasyInputs(s, i) ==
  [mode |-> s.easy[i].mode, secret |-> s.easy[i].secret, deny |-> s.easy[i].deny,
   patches |-> {id \in DOMAIN s.patches : s.patches[id].site = i}]
applyAntiDDoSDefaultEasyProfiles ==
  [mode |-> "block", secret |-> None, deny |-> FALSE, patches |-> {}]
EasyInput(s, i) ==
  IF i \in DOMAIN s.easy THEN mapEasyInputs(s, i) ELSE applyAntiDDoSDefaultEasyProfiles

-----------------------------------------------------------------------------
(* Renderers                                                               *)

\* normalizeInputs: each enabled site has a default upstream of its own.
normalizeInputs(s) ==
  \A i \in EnabledSites(s) :
    /\ DefaultUpstream(s, i) # None
    /\ s.upstreams[DefaultUpstream(s, i)].site = i

\* RenderTLSArtifacts keeps one site for each certificate and refuses another
\* enabled one that uses it.
RenderTLSArtifacts(s) ==
  \A i, j \in EnabledSites(s) \cap DOMAIN s.tls : s.tls[j] = s.tls[i] => j = i
\* AssembleRevisionBundle: two bindings of a certificate are one path twice.
AssembleRevisionBundle(s) ==
  \A i, j \in DOMAIN s.tls : s.tls[i] = s.tls[j] => i = j

\* applySecurityModePolicy: transparent turns ModSecurity off, and monitor
\* as well as transparent every block and list.
Blocks(mode) == mode = "block"
applySecurityModePolicy(e) ==
  [modsecurity |-> e.mode # "transparent",
   secret |-> IF Blocks(e.mode) THEN e.secret ELSE None,
   deny |-> Blocks(e.mode) /\ e.deny,
   patches |-> IF e.mode # "transparent" THEN e.patches ELSE {}]

\* Mutant: the management site is treated like any other.
RenderAccessEverywhere(s, i) ==
  IF Blocks(EasyInput(s, i).mode) /\ mapAccessInputs(s, i) THEN "deny" ELSE "allow"

\* A management site is never closed by an access policy, nor given the easy
\* ModSecurity file; its API location bypasses the engine. The lists of its
\* own profile are rendered like those of any other site.
RenderAccess(s, i) ==
  IF isManagementSite(s, i) \/ ~Blocks(EasyInput(s, i).mode) THEN "allow"
  ELSE IF mapAccessInputs(s, i) THEN "deny" ELSE "allow"

RenderRateLimits(s, i) == mapRateLimitInputs(s, i) \/ applyAntiDDoSRateOverrides(s, i)
RenderWAFArtifacts(s, i) == mapWAFInputs(s, i)

renderEasySiteArtifacts(s, i) ==
  LET e == applySecurityModePolicy(EasyInput(s, i)) IN
  [e EXCEPT !.modsecurity = @ /\ ~isManagementSite(s, i)]

RenderSite(s, i) ==
  LET in == mapSiteUpstreamInputs(s, i) IN
  [host |-> in.host, upstream |-> in.upstream,
   certificate |-> IF in.https THEN s.tls[i] ELSE None,
   management |-> in.management, waf |-> RenderWAFArtifacts(s, i),
   access |-> RenderAccess(s, i), limited |-> RenderRateLimits(s, i),
   easy |-> renderEasySiteArtifacts(s, i)]

-----------------------------------------------------------------------------
\* validateManagementSafeguard: every configured host has an enabled site. A
\* rendered management site always has the bypass.
validateManagementSafeguard(s) ==
  s.management.migrated =>
    \A h \in s.management.hosts : \E i \in EnabledSites(s) : s.sites[i].host = h

compileBundle(s) ==
  IF /\ mapTLSInputs(s) /\ normalizeInputs(s) /\ RenderTLSArtifacts(s)
     /\ AssembleRevisionBundle(s) /\ validateManagementSafeguard(s)
  THEN [sites |-> [i \in EnabledSites(s) |-> RenderSite(s, i)],
        files |-> (BoundCertificates(s) \cup ClientCAs(s)) \cap s.materials,
        hosts |-> IF s.management.migrated THEN s.management.hosts ELSE {},
        blockDirectIP |-> s.management.block]
  ELSE Refused
=============================================================================
