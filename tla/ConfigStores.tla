---------------------------- MODULE ConfigStores ----------------------------
(***************************************************************************)
(* The configuration documents of the control plane: sites, upstreams,     *)
(* certificates and their key material, TLS bindings, policies, easy site  *)
(* profiles, virtual patches, management hosts and anti-DDoS settings.     *)
(*                                                                         *)
(* A document is a function from the ids it lists to their records. Each   *)
(* operator is one store call under the store's mutex: it returns the new  *)
(* document, or Refused when the call returns an error.                    *)
(***************************************************************************)
EXTENDS Integers, FiniteSets

CONSTANTS
  Refused,  \* the error of a store call
  None      \* an empty reference or secret

\* A policy id names the site it was made for: <<"own", s>> is "s-access",
\* <<"easy", s>> is "easy-s-access".
PolicyId(s) == <<"own", s>>
EasyId(s) == <<"easy", s>>

\* A document of one record, one in which v is the record of id, one without it.
Only(id, v) == [x \in {id} |-> v]
Bind(t, id, v) == [x \in DOMAIN t \cup {id} |-> IF x = id THEN v ELSE t[x]]
Drop(t, id) == [x \in DOMAIN t \ {id} |-> t[x]]
Insert(t, id, v, free) == IF id \notin DOMAIN t /\ free THEN Bind(t, id, v) ELSE Refused
Replace(t, id, v, free) == IF id \in DOMAIN t /\ free THEN [t EXCEPT ![id] = v] ELSE Refused
Remove(t, id) == IF id \in DOMAIN t THEN Drop(t, id) ELSE Refused

-----------------------------------------------------------------------------
\* Sites: no two share a primary host.
HostFree(t, id, v) == \A x \in DOMAIN t \ {id} : t[x].host # v.host
SitesCreate(t, id, v) == Insert(t, id, v, HostFree(t, id, v))
SitesUpdate(t, id, v) == Replace(t, id, v, HostFree(t, id, v))
SitesDelete(t, id) == Remove(t, id)

UpstreamsCreate(t, id, v) == Insert(t, id, v, TRUE)
UpstreamsUpdate(t, id, v) == Replace(t, id, v, TRUE)
UpstreamsDelete(t, id) == Remove(t, id)

CertificatesCreate(t, id, v) == Insert(t, id, v, TRUE)
CertificatesUpdate(t, id, v) == Replace(t, id, v, TRUE)
CertificatesDelete(t, id) == Remove(t, id)

\* TLS bindings, keyed by site: the certificate bound.
TLSConfigsCreate(t, s, c) == Insert(t, s, c, TRUE)
TLSConfigsUpdate(t, s, c) == Replace(t, s, c, TRUE)
TLSConfigsDelete(t, s) == Remove(t, s)

-----------------------------------------------------------------------------
\* One WAF, one access and one rate limit policy for each site; only an easy
\* access policy may stand beside the site's own.
SiteFree(t, id, v) == \A x \in DOMAIN t \ {id} : t[x].site # v.site
isEasyCompatibilityPair(s, x, y) == {x, y} = {PolicyId(s), EasyId(s)}

WAFPoliciesCreate(t, id, v) == Insert(t, id, v, SiteFree(t, id, v))
WAFPoliciesUpdate(t, id, v) == Replace(t, id, v, SiteFree(t, id, v))
WAFPoliciesDelete(t, id) == Remove(t, id)

AccessFree(t, id, v) ==
  \A x \in DOMAIN t \ {id} : t[x].site = v.site => isEasyCompatibilityPair(v.site, x, id)
AccessPoliciesCreate(t, id, v) == Insert(t, id, v, AccessFree(t, id, v))
AccessPoliciesUpdate(t, id, v) == Replace(t, id, v, AccessFree(t, id, v))
AccessPoliciesDelete(t, id) == Remove(t, id)

RateLimitPoliciesCreate(t, id, v) == Insert(t, id, v, SiteFree(t, id, v))
RateLimitPoliciesUpdate(t, id, v) == Replace(t, id, v, SiteFree(t, id, v))
RateLimitPoliciesDelete(t, id) == Remove(t, id)

-----------------------------------------------------------------------------
\* Easy site profiles, keyed by site.
EasyProfilesCreate(t, s, v) == Insert(t, s, v, TRUE)
EasyProfilesUpdate(t, s, v) == Replace(t, s, v, TRUE)
EasyProfilesDelete(t, s) == Remove(t, s)

\* Virtual patches; ListActive leaves out what has expired.
PatchesCreate(t, id, v) == Insert(t, id, v, TRUE)
PatchesDelete(t, id) == Remove(t, id)
PatchesListActive(t, s) == {id \in DOMAIN t : t[id].site = s /\ ~t[id].expired}

\* Key material: Put replaces what is there, blobs before the index entry.
MaterialsPut(t, c) == t \cup {c}
MaterialsDelete(t, c) == IF c \in t THEN t \ {c} ELSE Refused
MaterialsRead(t, c) == c \in t

\* Management hosts: optimistic versions, shared with the direct-IP setting.
ManagementUpdate(m, hosts, version) ==
  IF m.version = version /\ hosts # {}
  THEN [m EXCEPT !.hosts = hosts, !.version = @ + 1, !.migrated = TRUE] ELSE Refused
UpdateDirectIPAccess(m, block) ==
  IF m.block = block THEN m ELSE [m EXCEPT !.block = block, !.version = @ + 1]
ManagementBootstrap(m, host) ==
  IF m.migrated \/ m.hosts # {} THEN m
  ELSE [m EXCEPT !.hosts = {host}, !.version = 1, !.migrated = TRUE]
=============================================================================
