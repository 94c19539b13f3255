--------------------------- MODULE MCEasyProfile ---------------------------
(* The forms of the run: values validation takes, values it refuses, and   *)
(* values normalisation changes.                                           *)
EXTENDS EasyProfile

D == DefaultProfile("site")
User(n, secret, enabled) == [name |-> n, secret |-> secret, enabled |-> enabled]
Exclusion(path, methods) == [path |-> path, methods |-> methods]
Rate(n, unit) == [n |-> n, unit |-> unit]
Rule(path, rate) == [path |-> path, rate |-> rate]

Auth(mode, name, password, users, tokens) ==
  [D.auth EXCEPT !.on = TRUE, !.mode = mode, !.user = name, !.password = password,
                 !.users = users, !.tokens = tokens]
AuthForms ==
  {[Auth("", 0, "", <<User(2, "q", FALSE), User(1, "p", TRUE), User(1, "q", TRUE)>>, <<>>)
      EXCEPT !.ttl = 0, !.order = "", !.template = "", !.exclusions = {Exclusion("/api/", {}), Exclusion("", {"GET"})}],
   Auth("basic", 1, Mask, <<User(2, Mask, FALSE)>>, <<>>),
   Auth("basic", 2, Mask, <<>>, <<>>),
   Auth("service_token", 0, "", <<>>, <<User(1, "t", TRUE)>>),
   Auth("basic_or_token", 1, Mask, <<User(1, Mask, TRUE)>>, <<User(1, "t", FALSE), User(2, "t", TRUE)>>)}

TwoChallenges ==
  [D.antibot EXCEPT !.challenge = "turnstile", !.keys = {"turnstile"}, !.secrets["turnstile"] = "k",
                    !.escalate = TRUE, !.second = ""]

\* Texts validation takes after normalisation, in every section at once.
Rewritten ==
  [front |-> [D.front EXCEPT !.profile = ""], http |-> [D.http EXCEPT !.methods = {"GET"}],
   headers |-> [D.headers EXCEPT !.hsts = FALSE, !.maxAge = -1],
   bans |-> [D.bans EXCEPT !.escalate = TRUE, !.scope = "", !.stages = <<60, -1, 0, 30>>],
   limits |-> [D.limits EXCEPT !.rate = Rate(600, ""), !.useExceptions = TRUE, !.exceptions = {"net"},
                               !.rules = {Rule("/login", Rate(5, "")), Rule("", Rate(5, "r/s"))}],
   api |-> [D.api EXCEPT !.on = TRUE, !.mode = "", !.endpoints = {[path |-> "/api/", mode |-> ""]}],
   modsec |-> [D.modsec EXCEPT !.exclusions =
                {[path |-> "/", pattern |-> "", match |-> "", methods |-> {}, ids |-> {0, 942100}]}],
   antibot |-> [D.antibot EXCEPT !.challenge = "", !.ttl = 0, !.exclusions = {Exclusion("/api/", {"GET", "*"})},
                                 !.rules = {[path |-> "/login", challenge |-> "captcha"]}],
   pages |-> {"451"}]
OtherForms ==
  {Rewritten,
   [front |-> [D.front EXCEPT !.mode = "block"], antibot |-> TwoChallenges,
    headers |-> [D.headers EXCEPT !.preload = TRUE, !.subdomains = TRUE, !.maxAge = Year],
    bans |-> [D.bans EXCEPT !.stages = <<>>], geo |-> [deny |-> {"EU"}, allow |-> {"DE"}]]}

MCEdits == {[auth |-> f] : f \in AuthForms} \cup OtherForms
Sym == Permutations(Admins)

OurPolicies ==
  [waf |-> None, access |-> [own |-> FALSE, allow |-> {}, deny |-> {}], rate |-> [on |-> TRUE, rps |-> 600]]
SomePolicies ==
  [waf |-> [on |-> TRUE, crs |-> FALSE], access |-> [own |-> TRUE, allow |-> {"net"}, deny |-> {}],
   rate |-> [on |-> TRUE, rps |-> 50]]
MCDeployments == {{"site"}, {ManagementSite}}
MCPolicies == [s \in {"site", ManagementSite} |-> IF s = ManagementSite THEN OurPolicies ELSE SomePolicies]
============================================================================
