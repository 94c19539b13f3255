---------------------------- MODULE EasyProfile ----------------------------
(***************************************************************************)
(* The easy profile of a site: what an administrator edits in one form and *)
(* the compiler turns into the site's gate. The store normalises and       *)
(* validates on every write and normalises again on every read; the        *)
(* service shows secrets masked and puts the stored ones back when a form  *)
(* comes back with the mask; a login of a visitor rewrites the profile to  *)
(* record its time; the compiler normalises once more and drops what the   *)
(* site's security mode switches off.                                      *)
(*                                                                         *)
(* A list whose order does not matter is a set. Text is compared after     *)
(* trimming and case folding, "" is the empty text; an account name is a   *)
(* number in the order of names, 0 the empty one. A rate is its number and *)
(* its unit: "" when the text is a plain number, "other" for no rate.      *)
(***************************************************************************)
EXTENDS Integers, SequencesExt

CONSTANTS Deployments,  \* the sets of sites a deployment may have
          ManagementSite, Admins,
          Policies,     \* the older policies of every site
          Edits,        \* sections of a form as an administrator may type them
          MaxRules, MaxAccounts, MaxStages,   \* 32, 128 and 12 in the code
          MaxEdits,     \* edits of a behaviour
          None

VARIABLES profiles,     \* [Sites -> profile or None], the document
          legacy,       \* [Sites -> the older policies of the site]
          draft,        \* [Admins -> form or request in flight, or None]
          login,        \* the profile a recorded login is about to write
          edits
vars == <<profiles, legacy, draft, login, edits>>

Sites == DOMAIN profiles
Mask == "********"
Methods == {"GET", "POST", "HEAD", "OPTIONS", "PUT", "PATCH", "DELETE"}
Providers == {"recaptcha", "hcaptcha", "turnstile"}
Challenges == {"no", "cookie", "javascript", "captcha", "mcaptcha"} \cup Providers
AuthModes == {"basic", "service_token", "basic_or_token"}
AuthOrders == {"auth_first", "antibot_first"}
Templates == {"v1", "v2"}                           \* v1 to v9
\* A text and a name with a character that would break a rule of nginx.
Broken == "a|b"
BrokenName == 9
Rooted == {"/", "/api/", "/challenge", "/login"}    \* texts that start with /
HalfYear == 15552000
Year == 31536000

-----------------------------------------------------------------------------
(* Normalisation                                                           *)

normalizeLimitReqRate(r) == IF r.unit = "" /\ r.n > 0 THEN [r EXCEPT !.unit = "r/s"] ELSE r

normalizeCustomLimitRules(rules) ==
  {[path |-> r.path, rate |-> normalizeLimitReqRate(r.rate)] : r \in {x \in rules : x.path # ""}}

\* Everything up to the first 0, the permanent ban, without negative values.
normalizeBanEscalationStages(stages) ==
  LET kept == SelectSeq(stages, LAMBDA n : n >= 0)
      zeros == {i \in DOMAIN kept : kept[i] = 0} IN
  IF zeros = {} THEN kept ELSE SubSeq(kept, 1, CHOOSE i \in zeros : \A j \in zeros : i <= j)

\* No method and the wildcard both mean every method.
normalizeExclusionMethods(methods) == IF methods = {} \/ "*" \in methods THEN {"*"} ELSE methods
normalizeExclusionRules(rules) ==
  {[path |-> r.path, methods |-> normalizeExclusionMethods(r.methods)] : r \in {x \in rules : x.path # ""}}
normalizeAuthExclusionRules(rules) == normalizeExclusionRules(rules)
normalizeModSecurityExclusionRules(rules) ==
  {[r EXCEPT !.methods = normalizeExclusionMethods(@), !.ids = {i \in @ : i > 0},
             !.match = IF @ = "" THEN "exact" ELSE @] : r \in rules}
normalizeAntibotChallengeRules(rules) == {r \in rules : r.path # "" /\ r.challenge # ""}
normalizeAPIPositiveEndpointPolicies(items) == {x \in items : x.path # ""}

\* The first account of every name, in the order of names.
normalizeAuthUsers(accounts) ==
  LET named == SelectSeq(accounts, LAMBDA u : u.name # 0)
      first == {i \in DOMAIN named : \A j \in 1..(i - 1) : named[j].name # named[i].name} IN
  SetToSortSeq({named[i] : i \in first}, LAMBDA x, y : x.name < y.name)
normalizeAuthServiceTokens(accounts) == normalizeAuthUsers(accounts)
normalizeAuthMode(mode) == IF mode \in AuthModes THEN mode ELSE "basic"
normalizeAuthOrder(order) == IF order \in AuthOrders THEN order ELSE "auth_first"

ensureControlPlaneAccessMethods(s, methods) ==
  IF s = ManagementSite THEN methods \cup Methods ELSE methods

\* The former 451 toggle was the geo page's.
migrateLegacyDisabledErrorPages(pages) == IF "451" \in pages THEN pages \cup {"geo_block"} ELSE pages

normalizeMaxAge(n) == IF n = 0 THEN HalfYear ELSE IF n < 0 THEN 0 ELSE n

\* The single user of older profiles and the first listed one stand for each
\* other.
normalizeAuth(a) ==
  LET users == normalizeAuthUsers(a.users)
      listed == IF users = <<>> /\ a.user # 0
                THEN <<[name |-> a.user, secret |-> a.password, enabled |-> TRUE]>> ELSE users IN
  [a EXCEPT !.mode = normalizeAuthMode(@), !.order = normalizeAuthOrder(@), !.users = listed,
            !.template = IF @ = "" THEN "v1" ELSE @,
            !.tokens = normalizeAuthServiceTokens(@),
            !.exclusions = normalizeAuthExclusionRules(@),
            !.user = IF @ = 0 /\ listed # <<>> THEN listed[1].name ELSE @,
            !.password = IF @ = "" /\ listed # <<>> THEN listed[1].secret ELSE @,
            !.ttl = IF @ = 0 THEN 60 ELSE @]

normalizeBans(b) ==
  LET stages == normalizeBanEscalationStages(b.stages) IN
  [b EXCEPT !.scope = IF @ = "" THEN "all_sites" ELSE @,
            !.stages = IF stages = <<>> THEN <<300, 86400, 0>> ELSE stages]

normalizeProfile(s, p) ==
  [p EXCEPT !.front.profile = IF @ = "" THEN "balanced" ELSE @,
            !.http.methods = ensureControlPlaneAccessMethods(s, @),
            !.headers.maxAge = normalizeMaxAge(@),
            !.bans = normalizeBans(@),
            !.limits.rate = normalizeLimitReqRate(@),
            !.limits.rules = normalizeCustomLimitRules(@),
            !.antibot.challenge = IF @ = "" THEN "no" ELSE @,
            !.antibot.ttl = IF @ = 0 THEN 10 ELSE @,
            !.antibot.second = IF @ = "" THEN "javascript" ELSE @,
            !.antibot.exclusions = normalizeExclusionRules(@),
            !.antibot.rules = normalizeAntibotChallengeRules(@),
            !.auth = normalizeAuth(@),
            !.api.mode = IF @ = "" THEN "monitor" ELSE @,
            !.api.action = IF @ = "" THEN "allow" ELSE @,
            !.api.endpoints = normalizeAPIPositiveEndpointPolicies(@),
            !.modsec.exclusions = normalizeModSecurityExclusionRules(@),
            !.pages = migrateLegacyDisabledErrorPages(@)]

-----------------------------------------------------------------------------
(* Validation of a normalised profile, one operator per section            *)

validRate(r) == r.unit \in {"r/s", "r/m"} /\ r.n >= 0
validExclusions(rules) ==
  /\ Cardinality(rules) <= MaxRules
  /\ \A r \in rules : r.path \in Rooted /\ r.methods # {} /\ r.methods \subseteq Methods \cup {"*"}

validateFront(p) ==
  /\ p.front.server # ""
  /\ p.front.mode \in {"block", "monitor", "transparent"}
  /\ p.front.profile \in {"strict", "balanced", "compat", "api", "public-edge"}
  /\ p.front.authority # ""
  /\ p.routing.proxy => p.routing.host # ""
  /\ p.routing.url \in Rooted
validateMethods(s, p) ==
  /\ p.http.methods # {} /\ p.http.methods \subseteq Methods
  /\ s = ManagementSite => Methods \subseteq p.http.methods
  /\ p.http.size # ""

validateBans(b) ==
  /\ b.codes # {} /\ b.codes \subseteq {400, 401, 403, 404, 405, 429, 444}
  /\ b.seconds >= 0 /\ b.threshold > 0 /\ b.window > 0
  /\ b.scope \in {"current_site", "all_sites"}
  /\ b.escalate => /\ Len(b.stages) \in 1..MaxStages
                   /\ \A i \in DOMAIN b.stages : /\ b.stages[i] >= 0
                                                 /\ b.stages[i] = 0 => i = Len(b.stages)

validateLimits(l) ==
  /\ "name" \notin l.exceptions          \* anything but an address or a network
  /\ l.connections > 0 /\ l.url \in Rooted /\ validRate(l.rate)
  /\ Cardinality(l.rules) <= MaxRules
  /\ \A r \in l.rules : r.path \in Rooted /\ validRate(r.rate)

validateAntibot(a) ==
  /\ a.challenge \in Challenges
  /\ a.challenge # "no" => a.uri \in Rooted
  /\ a.ttl = -1 \/ a.ttl \in 5..1440
  /\ a.challenge \in Providers => a.challenge \in a.keys /\ a.secrets[a.challenge] # ""
  /\ validExclusions(a.exclusions)
  /\ a.escalate => a.second \in Challenges \ {"no"}
  /\ Cardinality(a.rules) <= MaxRules
  /\ \A r \in a.rules : r.path \in Rooted /\ r.challenge \in Challenges

Enabled(accounts) == {u \in ToSet(accounts) : u.enabled}
hasEnabledServiceToken(tokens) == \E t \in Enabled(tokens) : t.secret # ""

\* Mutant: any listed user will do, a disabled one too.
ListedUserWillDo(a) ==
  /\ a.mode \in AuthModes
  /\ a.on /\ a.mode # "service_token" => a.user # 0 /\ a.password # "" /\ a.users # <<>>
  /\ a.on /\ a.mode # "basic" => hasEnabledServiceToken(a.tokens)
  /\ validExclusions(a.exclusions)

validateAuth(a) ==
  /\ a.mode \in AuthModes /\ a.order \in AuthOrders /\ a.template \in Templates
  /\ a.on /\ a.mode # "service_token" => a.user # 0 /\ a.password # ""
  /\ a.ttl \in -1..1440
  /\ Len(a.users) <= MaxAccounts /\ Len(a.tokens) <= MaxAccounts
  /\ a.on => /\ \A u \in Enabled(a.users) : u.secret # ""
             /\ a.mode # "service_token" => Enabled(a.users) # {}
             /\ a.mode # "basic" => hasEnabledServiceToken(a.tokens)
  /\ validExclusions(a.exclusions)
  /\ \A t \in Enabled(a.tokens) : t.secret \notin {"", Broken} /\ t.name # BrokenName

validateHeaders(h) ==
  /\ h.referrer \in {"", "no-referrer", "same-origin"}
  /\ h.origins \subseteq {"*", "null", "https"}
  /\ h.maxAge >= 0
  /\ h.subdomains => h.hsts
  /\ h.preload => h.hsts /\ h.subdomains /\ h.maxAge >= Year
  /\ h.hsts => h.maxAge > 0

validateCountries(g) == "nowhere" \notin g.deny \cup g.allow /\ g.deny \cap g.allow = {}

validateAPI(a) ==
  /\ a.mode \in {"monitor", "block"} /\ a.action \in {"allow", "deny"}
  /\ a.on => /\ a.schema # "" \/ a.endpoints # {}
             /\ \A x \in a.endpoints : x.path \in Rooted /\ x.mode \in {"", "monitor", "block"}

validateModSecurity(m) ==
  /\ m.version \in {"3", "4", "4.1"}
  /\ Cardinality(m.exclusions) <= 2 * MaxRules
  /\ m.custom => m.path = "modsec/site.conf"     \* the text of a path under modsec/
  /\ \A r \in m.exclusions :
       /\ r.path # "" \/ r.pattern # ""
       /\ r.path \in Rooted \cup {""} /\ r.pattern # "(" /\ r.match \in {"exact", "prefix", "regex"}
       /\ r.methods \subseteq Methods \cup {"*"} /\ r.ids # {}

validateProfile(s, p) ==
  /\ validateFront(p) /\ validateMethods(s, p) /\ validateBans(p.bans)
  /\ validateLimits(p.limits) /\ validateAntibot(p.antibot) /\ validateAuth(p.auth)
  /\ validateHeaders(p.headers) /\ validateCountries(p.geo) /\ validateAPI(p.api)
  /\ validateModSecurity(p.modsec)

-----------------------------------------------------------------------------
(* Reading                                                                 *)

NoSecrets == [c \in Providers |-> ""]

\* The management site is watched, not filtered, and has limits of its own.
Limit(path, n) == [path |-> path, rate |-> [n |-> n, unit |-> "r/s"]]
DefaultLimits(s) ==
  [use |-> TRUE, connections |-> IF s = ManagementSite THEN 300 ELSE 200,
   url |-> IF s = ManagementSite THEN "/api/" ELSE "/",
   rate |-> [n |-> IF s = ManagementSite THEN 600 ELSE 120, unit |-> "r/s"],
   exceptions |-> {}, deny |-> {}, useExceptions |-> FALSE, useBlacklist |-> FALSE,
   rules |-> IF s = ManagementSite THEN {Limit("/login", 30), Limit("/api/", 180)} ELSE {}]

DefaultSections(s) ==
  [front |-> [server |-> s, mode |-> IF s = ManagementSite THEN "transparent" ELSE "block",
              profile |-> "balanced", authority |-> "letsencrypt"],
   routing |-> [proxy |-> TRUE, host |-> "upstream", url |-> "/"],
   http |-> [methods |-> Methods, size |-> "100m"],
   headers |-> [referrer |-> "no-referrer", hsts |-> TRUE, maxAge |-> HalfYear,
                subdomains |-> FALSE, preload |-> FALSE, origins |-> {"*"}],
   bans |-> [codes |-> {400, 401, 405, 444}, seconds |-> 300, threshold |-> 120, window |-> 120,
             escalate |-> FALSE, scope |-> "all_sites", stages |-> <<300, 86400, 0>>],
   limits |-> DefaultLimits(s)]
DefaultProtection(s) ==
  [antibot |-> [challenge |-> "no", uri |-> "/challenge", ttl |-> 10, keys |-> {},
                secrets |-> NoSecrets, exclusions |-> {}, escalate |-> FALSE,
                second |-> "javascript", rules |-> {}],
   auth |-> [on |-> FALSE, mode |-> "basic", order |-> "auth_first", template |-> "v1", user |-> 1, password |-> "", ttl |-> 60,
             users |-> <<[name |-> 1, secret |-> "", enabled |-> TRUE]>>,
             tokens |-> <<>>, exclusions |-> {}],
   geo |-> [deny |-> {}, allow |-> {}],
   api |-> [on |-> FALSE, schema |-> "", mode |-> "monitor", action |-> "allow", endpoints |-> {}],
   modsec |-> [on |-> s # ManagementSite, crs |-> s # ManagementSite, version |-> "4",
               custom |-> FALSE, path |-> "modsec/site.conf", exclusions |-> {}],
   pages |-> {}]

DefaultProfile(s) == DefaultSections(s) @@ DefaultProtection(s)

\* A site without a profile shows what its older policies say; the WAF policy
\* only when it is not the one this service wrote.
applyLegacyToEasy(s, p) ==
  LET l == legacy[s] IN
  [p EXCEPT !.modsec.on = IF l.waf = None THEN @ ELSE l.waf.on,
            !.modsec.crs = IF l.waf = None THEN @ ELSE l.waf.crs,
            !.limits.useExceptions = IF l.access = None THEN @ ELSE l.access.allow # {},
            !.limits.exceptions = IF l.access = None THEN @ ELSE l.access.allow,
            !.limits.deny = IF l.access = None THEN @ ELSE l.access.deny,
            !.limits.use = IF l.rate = None THEN @ ELSE l.rate.on,
            !.limits.rate = IF l.rate = None \/ l.rate.rps <= 0 THEN @
                            ELSE [n |-> l.rate.rps, unit |-> "r/s"]]

\* Get and List of the store normalise what they return.
Stored(s) == normalizeProfile(s, profiles[s])
Shown(s) == IF profiles[s] # None THEN Stored(s) ELSE applyLegacyToEasy(s, DefaultProfile(s))

maskSecret(x) == IF x = "" THEN "" ELSE Mask
maskEasySiteProfileSecrets(p) ==
  [p EXCEPT !.antibot.secrets = [c \in Providers |-> maskSecret(@[c])],
            !.auth.password = maskSecret(@),
            !.auth.users = [i \in DOMAIN @ |-> [@[i] EXCEPT !.secret = maskSecret(@)]]]

\* Mutant: a masked account keeps no password.
ForgetAccounts(p, old) ==
  [p EXCEPT !.auth.password = IF @ = Mask THEN old.auth.password ELSE @,
            !.auth.users = [i \in DOMAIN @ |-> [@[i] EXCEPT !.secret = IF @ = Mask THEN "" ELSE @]]]

\* A masked secret is the stored one, an account's by its name.
mergeMaskedSecrets(p, old) ==
  LET of(u) == {x \in ToSet(old.auth.users) : x.name = u.name}
      secretOf(u) == IF u.secret # Mask \/ of(u) = {} THEN u.secret
                     ELSE (CHOOSE x \in of(u) : TRUE).secret IN
  [p EXCEPT !.antibot.secrets = [c \in Providers |-> IF @[c] = Mask THEN old.antibot.secrets[c] ELSE @[c]],
            !.auth.password = IF @ = Mask THEN old.auth.password ELSE @,
            !.auth.users = [i \in DOMAIN @ |-> [@[i] EXCEPT !.secret = secretOf(p.auth.users[i])]]]

-----------------------------------------------------------------------------
(* What the compiler makes of a profile                                    *)

\* Outside block mode a site is watched: no challenge, no login, no limits.
applySecurityModePolicy(p) ==
  IF p.front.mode = "block" THEN p
  ELSE [p EXCEPT !.antibot.challenge = "no", !.antibot.escalate = FALSE, !.antibot.second = "no",
                 !.auth.on = FALSE, !.limits.rules = {}]

enabledAuthUsers(accounts) == {u \in Enabled(normalizeAuthUsers(accounts)) : u.secret # ""}
enabledAuthServiceTokens(accounts) == {t \in Enabled(accounts) : t.name # 0 /\ t.secret # ""}

\* Limits on the control plane's own paths are dropped, on any site; on the
\* management site those paths skip the login.
ReservedPaths == {"/", "/api/", "/login"}
normalizeCompilerCustomLimitRules(rules) == {r \in rules : r.path \notin ReservedPaths}
easyAdminAuthExclusionRulesForSite(s) ==
  IF s # ManagementSite THEN {}
  ELSE {[path |-> x, methods |-> Methods \ {"OPTIONS"}] : x \in {"/", "/api/"}}

\* The gate of the site's locations: who may log in, where no login is asked
\* for, and which challenge meets a visitor first. A second challenge takes the
\* place of the first; without a list the single user is the list.
renderEasyLocations(s, input) ==
  LET p == applySecurityModePolicy(input)
      listed == IF normalizeAuthUsers(p.auth.users) = <<>> /\ p.auth.user # 0
                THEN <<[name |-> p.auth.user, secret |-> p.auth.password, enabled |-> TRUE]>> ELSE p.auth.users
      users == enabledAuthUsers(listed)
      tokens == enabledAuthServiceTokens(p.auth.tokens)
      on == p.auth.on /\ users \cup tokens # {} IN
  [basic |-> on /\ p.auth.mode # "service_token" /\ users # {},
   token |-> on /\ p.auth.mode # "basic" /\ tokens # {},
   users |-> {u.name : u \in users},
   open |-> p.auth.exclusions \cup easyAdminAuthExclusionRulesForSite(s),
   challenge |-> IF p.antibot.challenge # "no" /\ p.antibot.escalate /\ p.antibot.second # "no"
                 THEN p.antibot.second ELSE p.antibot.challenge,
   limits |-> normalizeCompilerCustomLimitRules(p.limits.rules)]

-----------------------------------------------------------------------------
(* Operations                                                              *)

Init ==
  /\ profiles \in {[s \in D |-> None] : D \in Deployments}
  /\ legacy = Policies
  /\ draft = [a \in Admins |-> None]
  /\ login = None
  /\ edits = 0

\* GET of the profile, into the form.
Get(a, s) ==
  /\ draft[a] = None
  /\ draft' = [draft EXCEPT ![a] = [site |-> s, step |-> "form", update |-> FALSE,
                                    profile |-> maskEasySiteProfileSecrets(Shown(s))]]
  /\ UNCHANGED <<profiles, legacy, login, edits>>

\* The administrator replaces sections of the form.
EditForm(a, e) ==
  /\ draft[a] # None /\ draft[a].step = "form" /\ edits < MaxEdits
  /\ draft' = [draft EXCEPT ![a].profile = e @@ @]
  /\ edits' = edits + 1
  /\ UNCHANGED <<profiles, legacy, login>>

\* PUT: Upsert reads the stored profile to put the masked secrets back.
UpsertRead(a) ==
  /\ draft[a] # None /\ draft[a].step = "form"
  /\ LET s == draft[a].site IN
     draft' = [draft EXCEPT ![a].step = "write", ![a].update = profiles[s] # None,
                            ![a].profile = IF profiles[s] = None THEN @ ELSE mergeMaskedSecrets(@, Stored(s))]
  /\ UNCHANGED <<profiles, legacy, login, edits>>

\* What the older policies are set to: WAF policies are switched off, rates are
\* requests a second.
parseRPS(r) == IF r.unit \in {"", "r/s"} /\ r.n > 0 THEN r.n ELSE 100
SyncedPolicy(kind, old, limits) ==
  CASE kind = "waf" -> IF old = None THEN None ELSE [on |-> FALSE, crs |-> FALSE]
    [] kind = "access" -> [own |-> FALSE, deny |-> limits.deny,
                           allow |-> IF limits.useExceptions THEN limits.exceptions ELSE {}]
    [] kind = "rate" -> [on |-> limits.use, rps |-> parseRPS(limits.rate)]

\* Create refuses a profile that exists, Update one that does not, both an
\* invalid one.
Accepts(s, p, update) ==
  validateProfile(s, normalizeProfile(s, p)) /\ (update <=> profiles[s] # None)
Write(s, p, update) ==
  profiles' = IF Accepts(s, p, update) THEN [profiles EXCEPT ![s] = normalizeProfile(s, p)] ELSE profiles

UpsertWrite(a) ==
  /\ draft[a] # None /\ draft[a].step = "write"
  /\ LET d == draft[a] IN
     /\ Write(d.site, d.profile, d.update)
     /\ draft' = [draft EXCEPT ![a] = IF ~Accepts(d.site, d.profile, d.update) THEN None
                                      ELSE [site |-> d.site, step |-> "sync", limits |-> profiles'[d.site].limits]]
  /\ UNCHANGED <<legacy, login, edits>>

\* syncEasyToLegacy: an access policy of the simple editor is kept and ends the
\* sync, and an error of a store ends it before any of the three.
syncEasyToLegacy(a) ==
  /\ draft[a] # None /\ draft[a].step = "sync"
  /\ LET d == draft[a]
         l == legacy[d.site]
         theirs == l.access # None /\ l.access.own IN
     \E done \in {{}, {"waf"}} \cup (IF theirs THEN {} ELSE {{"waf", "access"}, {"waf", "access", "rate"}}) :
       legacy' = [legacy EXCEPT ![d.site] = [k \in DOMAIN l |->
                    IF k \in done THEN SyncedPolicy(k, l[k], d.limits) ELSE l[k]]]
  /\ draft' = [draft EXCEPT ![a] = None]
  /\ UNCHANGED <<profiles, login, edits>>

Delete(s) ==
  /\ profiles[s] # None
  /\ profiles' = [profiles EXCEPT ![s] = None]
  /\ UNCHANGED <<legacy, draft, login, edits>>

\* MarkBasicAuthLogin: the whole profile is read for an enabled user and
\* written back with the time of the login, which the model leaves out.
LoginRead(s) ==
  /\ login = None /\ profiles[s] # None
  /\ Enabled(Stored(s).auth.users) # {}
  /\ login' = [site |-> s, profile |-> Stored(s)]
  /\ UNCHANGED <<profiles, legacy, draft, edits>>
LoginWrite ==
  /\ login # None
  /\ Write(login.site, login.profile, TRUE)
  /\ login' = None
  /\ UNCHANGED <<legacy, draft, edits>>

Next ==
  \/ \E a \in Admins, s \in Sites : Get(a, s)
  \/ \E a \in Admins, e \in Edits : EditForm(a, e)
  \/ \E a \in Admins : UpsertRead(a) \/ UpsertWrite(a) \/ syncEasyToLegacy(a)
  \/ \E s \in Sites : Delete(s) \/ LoginRead(s)
  \/ LoginWrite

Spec == Init /\ [][Next]_vars

-----------------------------------------------------------------------------
(* Properties                                                              *)

\* A site in block mode whose stored profile asks for a login or a challenge
\* is compiled with that gate, for the modes and every enabled user it names,
\* whichever forms, masks, logins and deletions led to the document. The
\* compiler silently opens a site whose gate has nobody behind it
\* (authEnabled needs a user or a token), so validation has to see it coming.
EnforcedAsAccepted ==
  \A s \in Sites : profiles[s] # None =>
    LET p == Stored(s)
        gate == renderEasyLocations(s, p) IN
    p.front.mode = "block" =>
      /\ p.auth.on /\ p.auth.mode # "service_token" =>
           gate.basic /\ {u.name : u \in Enabled(p.auth.users)} \subseteq gate.users
      /\ p.auth.on /\ p.auth.mode # "basic" => gate.token
      /\ p.antibot.challenge # "no" => gate.challenge # "no"

\* What a reader is shown can be written back: the stored profile, normalised
\* again and with its secrets masked and merged, or the default one of a site
\* with older policies, passes validation. A profile that does not would make
\* every recorded login and every save of an unrelated section fail.
WritableAsShown ==
  \A s \in Sites :
    LET form == maskEasySiteProfileSecrets(Shown(s)) IN
    validateProfile(s, normalizeProfile(s,
      IF profiles[s] = None THEN form ELSE mergeMaskedSecrets(form, Stored(s))))
============================================================================
