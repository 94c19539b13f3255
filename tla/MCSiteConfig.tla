---------------------------- MODULE MCSiteConfig ----------------------------
(***************************************************************************)
(* The calls of the run on SiteConfig. The configured site is a, b is the  *)
(* other id. Everything an administrator can do to a is there, and enough  *)
(* of what can be done to b to collide with a rename of a to b.            *)
(***************************************************************************)
EXTENDS SiteConfig

CONSTANTS a, b, h1, h2

Plain == [mode |-> "block", secret |-> Masked, ca |-> None, deny |-> TRUE, limit |-> FALSE]
Profiles == {Plain, [Plain EXCEPT !.mode = "transparent", !.ca = b]}
SiteRecords == {[host |-> h1, enabled |-> FALSE], [host |-> h2, enabled |-> TRUE]}

SitePart ==
  ({"site.create"} \X {b} \X {None} \X {[host |-> h2, enabled |-> TRUE]})
  \cup ({"site.update"} \X {a} \X {None} \X SiteRecords)
  \cup ({"site.rename"} \X {a} \X {b} \X {[host |-> h2, enabled |-> TRUE]})
  \cup ({"site.delete"} \X {a} \X {None} \X {None})
  \cup ({"site.ban", "site.unban"} \X {a} \X {None} \X {None})
  \cup ({"bans.sync"} \X {None} \X {None} \X {None})
RoutingPart ==
  ({"upstream.create"} \X {b} \X {2} \X {FALSE})
  \cup ({"upstream.update"} \X {b} \X {1} \X {FALSE})
  \cup ({"upstream.delete"} \X {a} \X {1} \X {None})
CertificatePart ==
  ({"tls.create"} \X {b} \X {a, b} \X {None}) \cup ({"tls.update"} \X {a} \X {b} \X {None})
  \cup ({"tls.delete"} \X {a} \X {None} \X {None})
  \cup ({"certificate.create", "certificate.upload"} \X {None} \X {b} \X {{h2}})
  \cup ({"certificate.update"} \X {None} \X {a} \X {{h2}})
  \cup ({"certificate.delete"} \X {None} \X {a} \X {None})
PolicyPart ==
  ({"waf.create"} \X {b} \X {PolicyId(a)} \X {TRUE})
  \cup ({"waf.update"} \X {b} \X {EasyId(a)} \X {TRUE})
  \cup ({"waf.delete"} \X {None} \X {EasyId(a)} \X {None})
  \cup ({"access.create"} \X {a} \X {EasyId(a)} \X {TRUE})
  \cup ({"access.update"} \X {b} \X {PolicyId(a)} \X {TRUE})
  \cup ({"access.upsert"} \X {b} \X {PolicyId(b)} \X {TRUE})
  \cup ({"access.delete"} \X {None} \X {PolicyId(a)} \X {None})
  \cup ({"rate.create"} \X {b} \X {PolicyId(b)} \X {TRUE})
  \cup ({"rate.update"} \X {b} \X {PolicyId(a)} \X {TRUE})
  \cup ({"rate.delete"} \X {None} \X {PolicyId(a)} \X {None})
OtherPart ==
  ({"easy.upsert"} \X {a} \X {None} \X Profiles) \cup ({"easy.upsert"} \X {b} \X {None} \X {Plain})
  \cup ({"easy.delete"} \X {a} \X {None} \X {None})
  \cup ({"patch.create"} \X {b} \X Patches \X {FALSE})
  \cup ({"patch.delete"} \X {None} \X Patches \X {None})
  \cup ({"hosts.update"} \X {None} \X {0, 1} \X {{h2}})
  \cup ({"directip.update", "antiddos.upsert"} \X {None} \X {None} \X {TRUE})

\* Site b is named like the host of a, which comes first.
MCRank == [x \in {a, b} |-> IF x = a THEN 1 ELSE 2]
MCToken == [x \in {a, b, h1, h2} |-> IF x = h1 THEN b ELSE x]

MCCalls == SitePart \cup RoutingPart \cup CertificatePart \cup PolicyPart \cup OtherPart
=============================================================================
