--------------------------- MODULE Authentication ---------------------------
(***************************************************************************)
(* Accounts, roles, sessions and second factors of one control-plane       *)
(* process: the users, roles, sessions and passkeys documents, the         *)
(* services that change them and the HTTP handlers in front.               *)
(*                                                                         *)
(* A request is a sequence of store calls, and requests interleave between *)
(* them. What a request read stays in its record in req, so the            *)
(* whole-record writes of users.Update carry stale fields. A store holds   *)
(* its mutex from load to save, with one exception: on PostgreSQL the      *)
(* calls that consume a challenge take the row lock of the database and    *)
(* not s.mu, so they fall between the load and the save of a call that     *)
(* holds s.mu, and that save brings the challenge back (stale below).      *)
(* What has expired is left in place here, and a reader, who prunes first, *)
(* may refuse any entry as expired.                                        *)
(***************************************************************************)
EXTENDS Integers, FiniteSets

CONSTANTS
  Users,      \* user ids; a username is its user's id
  Admin,      \* the id of the built-in administrator
  Passwords,
  Codes,      \* recovery codes
  Creds,      \* WebAuthn credentials
  Requests,   \* concurrent requests of several steps, each served once
  Postgres,   \* POSTGRES_DSN is set: documents are rows of a database
  MaxTokens,  \* bound: tokens newToken may return
  MaxBoots    \* bound: starts of the process

ASSUME AdminAssumption == Admin \in Users
ASSUME PostgresAssumption == Postgres \in BOOLEAN
ASSUME BoundAssumption == MaxTokens \in Nat /\ MaxBoots \in Nat
\* Users are finitely many, and there is a password and a credential to name.
ASSUME NamesAssumption ==
  IsFiniteSet(Users) /\ Passwords # {} /\ Creds # {}

VARIABLES
  users,      \* users.json: a function on the ids that exist
  roles,      \* roles.json: permissions of the roles that exist
  sessions,   \* sessions.json: sessions
  logins,     \* sessions.json: login challenges awaiting a second factor
  setups,     \* sessions.json: TOTP setup challenges
  states,     \* sessions.json: OIDC login challenges
  stale,      \* challenges consumed since the holder of s.mu loaded its copy
  keys,       \* passkeys.json: passkeys
  ceremonies, \* passkeys.json: WebAuthn challenges
  limiter,    \* loginRateLimiter, in memory
  boot,       \* sessionBootToken of this start of the process
  issued,     \* tokens handed out
  req,        \* the requests in progress
  spent,      \* history: challenge and session of each second factor
  restored,   \* history: login challenges a late save brought back
  revoked,    \* history: sessions a finished password change had to end
  racing      \* history: requests in flight when TOTP was last switched on

tokens == <<sessions, logins, setups, states, stale, ceremonies, issued>>
history == <<spent, restored, revoked, racing>>
vars == <<users, roles, tokens, keys, limiter, boot, req, history>>

Roles == {"admin", "viewer", "custom"}
Permissions == {"self", "manage"}
BuiltIn == [r \in {"admin", "viewer"} |->
              IF r = "admin" THEN Permissions ELSE {"self"}]

User == [active : BOOLEAN, roles : SUBSET Roles, pw : Passwords,
         legacy : SUBSET {"password", "secret"}, totp : BOOLEAN,
         codes : SUBSET Codes, source : {"local", "scim", "oidc"}]

Exists(u) == u \in DOMAIN users
Active(u) == Exists(u) /\ users[u].active
Fresh == issued + 1

\* What an upgrade on success leaves: verifyAndUpgradePassword stores a new
\* hash, resolveUserTOTPSecret an encrypted secret.
Rehashed(x) == [x EXCEPT !.legacy = @ \ {"password"}]
Resealed(x) == [x EXCEPT !.legacy = @ \ {"secret"}]
\* consumeRecoveryCode, on the copy of the record.
WithoutCode(x, c) == [x EXCEPT !.codes = @ \ {c}]

\* PermissionsForRoleIDs: admin holds every permission, a role that no longer
\* exists holds none.
PermissionsOf(u) ==
  UNION {IF r = "admin" THEN Permissions
         ELSE IF r \in DOMAIN roles THEN roles[r] ELSE {} : r \in users[u].roles}

\* The middleware and Authenticate: the cookie pair is of this boot, the
\* session is stored and its user is still active.
OfThisBoot(s) == s.boot = boot
Authenticated(s) == OfThisBoot(s) /\ Active(s.user)
Allowed(s, permission) == Authenticated(s) /\ permission \in PermissionsOf(s.user)

-----------------------------------------------------------------------------
Blank == [active |-> FALSE, roles |-> {}, pw |-> CHOOSE w \in Passwords : TRUE,
          legacy |-> {}, totp |-> FALSE, codes |-> {}, source |-> "local"]
Idle == [op |-> "none", pc |-> "idle", user |-> Admin, sid |-> 0, ch |-> 0,
         cer |-> 0, copy |-> Blank, next |-> "done", doomed |-> {}]

At(p, pc) == req[p].pc = pc
InFlight == {p \in Requests : req[p].pc \notin {"idle", "done"}}
Done == [Idle EXCEPT !.pc = "done"]
Goto(p, pc) == req' = [req EXCEPT ![p] = IF pc = "done" THEN Done ELSE [@ EXCEPT !.pc = pc]]
Begin(p, op, pc, u, sid) ==
  /\ At(p, "idle")
  /\ req' = [req EXCEPT ![p] = IF pc = "done" THEN Done
                               ELSE [Idle EXCEPT !.op = op, !.pc = pc, !.user = u, !.sid = sid]]
\* users.Update comes next, with this copy of the record.
Store(p, copy, next) ==
  req' = [req EXCEPT ![p].pc = "store", ![p].copy = copy, ![p].next = next]
\* The request goes on with this copy of the record.
Take(p, pc, copy) == req' = [req EXCEPT ![p].pc = pc, ![p].copy = copy]

NewToken == issued < MaxTokens /\ issued' = Fresh

\* Calls that lock s.mu wait for the one that has loaded its copy.
NoneStale == [logins |-> {}, setups |-> {}, states |-> {}]
Unlocked == stale = NoneStale

-----------------------------------------------------------------------------
(* The stores                                                              *)

\* users.Update replaces the whole record; it fails when the user is gone.
UpdateUser(p) ==
  LET u == req[p].user  copy == req[p].copy IN
  /\ At(p, "store")
  /\ \/ /\ Exists(u)
        /\ users' = [users EXCEPT ![u] = copy]
        /\ racing' = IF copy.totp /\ ~users[u].totp
                     THEN [racing EXCEPT ![u] = InFlight] ELSE racing
        /\ req' = [req EXCEPT ![p] =
             IF req[p].next = "done" THEN Done
             ELSE [@ EXCEPT !.pc = req[p].next,
                            !.copy = IF req[p].next \in {"admit", "edit"} THEN copy ELSE Blank,
                            !.doomed = IF req[p].next # "revoke" THEN {}
                                       ELSE {s.id : s \in {x \in sessions : x.user = u}} \ {req[p].sid}]]
     \/ /\ ~Exists(u)
        /\ Goto(p, IF req[p].op = "login" THEN "failed" ELSE "done")
        /\ UNCHANGED <<users, racing>>
  /\ UNCHANGED <<roles, tokens, keys, limiter, boot, spent, restored, revoked>>

\* users.Create refuses an id that exists.
CreateUser(p) ==
  LET u == req[p].user IN
  /\ At(p, "create")
  /\ \/ /\ ~Exists(u)
        /\ users' = [x \in DOMAIN users \cup {u} |-> IF x = u THEN req[p].copy ELSE users[x]]
        /\ Goto(p, req[p].next)
     \/ Exists(u) /\ Goto(p, "done") /\ UNCHANGED users
  /\ UNCHANGED <<roles, tokens, keys, limiter, boot, history>>

\* sessions.CreateSession, MarkLogin and the profile of the answer.
NewSession(p) ==
  /\ Unlocked
  /\ NewToken
  /\ sessions' = sessions \cup
       {[id |-> Fresh, user |-> req[p].user, boot |-> boot,
         plain |-> req[p].op \in {"login", "passkeyLogin"}, by |-> p]}
  /\ UNCHANGED <<logins, setups, states, stale, ceremonies>>

CreateSession(p) ==
  /\ At(p, "session")
  /\ NewSession(p)
  /\ spent' = IF req[p].ch = 0 THEN spent ELSE spent \cup {<<req[p].ch, Fresh>>}
  /\ Goto(p, IF req[p].cer # 0 THEN "cleanup" ELSE "done")
  /\ UNCHANGED <<users, roles, keys, limiter, boot, restored, revoked, racing>>

\* Mutant: only sessions older than the excepted one are deleted.
DeleteOlder(sess, u, except) ==
  {s \in sess : ~(s.user = u /\ s.id < except)}

\* deleteSessionsByUser, with or without an exception.
DeleteSessionsByUser(sess, u, except) ==
  {s \in sess : ~(s.user = u /\ s.id # except)}

\* sessions.DeleteSession.
Logout(p) ==
  /\ Unlocked
  /\ \E s \in sessions : /\ Begin(p, "logout", "done", s.user, s.id)
                         /\ sessions' = sessions \ {s}
  /\ UNCHANGED <<users, roles, logins, setups, states, stale, ceremonies, issued, keys, limiter, boot,
                 history>>

\* A consume: on PostgreSQL a call under s.mu may have loaded its copy
\* before, and keeps the entry in it.
Leaves(kind, c) ==
  \/ Unlocked /\ UNCHANGED stale
  \/ Postgres /\ stale' = [stale EXCEPT ![kind] = @ \cup {c}]

\* GetSession, TouchSession and Count, which every request with a cookie
\* calls, save the whole copy. A call that also writes something of its own
\* is this save and then that write.
TouchSession ==
  /\ ~Unlocked
  /\ logins' = logins \cup stale.logins
  /\ setups' = setups \cup stale.setups
  /\ states' = states \cup stale.states
  /\ stale' = NoneStale
  /\ restored' = restored \cup {c.id : c \in stale.logins}
  /\ UNCHANGED <<users, roles, sessions, ceremonies, issued, keys, limiter, boot, req, spent, revoked,
                 racing>>

-----------------------------------------------------------------------------
(* Password login and its rate limit                                       *)

MaxAttempts == 2

\* IsBlocked: a block ends by itself, so it may be found to have passed.
BeginLogin(p, u) ==
  /\ \/ limiter[u].blocked /\ Begin(p, "login", "done", u, 0) /\ UNCHANGED limiter
     \/ /\ Begin(p, "login", "verify", u, 0)
        /\ limiter' = [limiter EXCEPT ![u].blocked = FALSE]
  /\ UNCHANGED <<users, roles, tokens, keys, boot, history>>

\* Login up to the password check; an old hash is replaced on success.
VerifyPassword(p) ==
  LET u == req[p].user IN
  /\ req[p].op = "login" /\ At(p, "verify")
  /\ \E pw \in Passwords :
       IF ~Active(u) \/ users[u].pw # pw THEN Goto(p, "failed")
       ELSE IF "password" \in users[u].legacy
       THEN Store(p, Rehashed(users[u]), "admit")
       ELSE Take(p, "admit", users[u])
  /\ UNCHANGED <<users, roles, tokens, keys, limiter, boot, history>>

\* Mutant: a passkey login does not ask for the second factor.
AdmitPasskey(p) ==
  /\ At(p, "admit")
  /\ IF req[p].copy.totp /\ req[p].op = "login"
     THEN /\ Unlocked
          /\ NewToken
          /\ logins' = logins \cup {[id |-> Fresh, user |-> req[p].user]}
          /\ UNCHANGED <<sessions, setups, states, stale, ceremonies>>
     ELSE NewSession(p)
  /\ Goto(p, IF req[p].op = "login" THEN "succeeded" ELSE "cleanup")
  /\ UNCHANGED <<users, roles, keys, limiter, boot, history>>

\* The end of Login and of FinishPasskeyLogin: a session, or a challenge when
\* the record that was read asks for a second factor.
Admit(p) ==
  /\ At(p, "admit")
  /\ IF req[p].copy.totp
     THEN /\ Unlocked
          /\ NewToken
          /\ logins' = logins \cup {[id |-> Fresh, user |-> req[p].user]}
          /\ UNCHANGED <<sessions, setups, states, stale, ceremonies>>
     ELSE NewSession(p)
  /\ Goto(p, IF req[p].op = "login" THEN "succeeded" ELSE "cleanup")
  /\ UNCHANGED <<users, roles, keys, limiter, boot, history>>

RegisterAttempt(p) ==
  LET u == req[p].user  n == limiter[u].fails + 1 IN
  /\ req[p].pc \in {"failed", "succeeded"}
  /\ limiter' = [limiter EXCEPT ![u] =
       IF At(p, "succeeded") THEN [fails |-> 0, blocked |-> FALSE]
       ELSE IF n >= MaxAttempts THEN [fails |-> 0, blocked |-> TRUE]
       ELSE [@ EXCEPT !.fails = n]]
  /\ Goto(p, "done")
  /\ UNCHANGED <<users, roles, tokens, keys, boot, history>>

\* Bootstrap of the first administrator: count, then create.
BeginBootstrap(p, u) ==
  /\ users = << >>
  /\ At(p, "idle")
  /\ \E pw \in Passwords :
       req' = [req EXCEPT ![p] =
         [Idle EXCEPT !.op = "bootstrap", !.pc = "create", !.user = u, !.next = "session",
                      !.copy = [Blank EXCEPT !.active = TRUE, !.pw = pw, !.roles = {"admin"}]]]
  /\ UNCHANGED <<users, roles, tokens, keys, limiter, boot, history>>

-----------------------------------------------------------------------------
(* Second factor                                                           *)

\* Login2FA: the challenge is consumed before anything is checked.
ConsumeLoginChallenge(p) ==
  /\ \E c \in logins : /\ logins' = logins \ {c} /\ Leaves("logins", c)
                       /\ At(p, "idle")
                       /\ req' = [req EXCEPT ![p] =
                            [Idle EXCEPT !.op = "login2fa", !.pc = "second",
                                         !.user = c.user, !.ch = c.id]]
  /\ UNCHANGED <<users, roles, sessions, setups, states, ceremonies, issued, keys, limiter, boot, history>>

SecondFactorCheck(p) ==
  LET u == req[p].user IN
  /\ At(p, "second")
  /\ \/ ~(Active(u) /\ users[u].totp) /\ Goto(p, "done")
     \/ /\ Active(u) /\ users[u].totp
        /\ \/ \E c \in users[u].codes :
                Store(p, WithoutCode(users[u], c), "session")
           \/ IF "secret" \in users[u].legacy
              THEN Store(p, Resealed(users[u]), "code")
              ELSE Goto(p, "code")
  /\ UNCHANGED <<users, roles, tokens, keys, limiter, boot, history>>

\* VerifyTOTP of the code that was sent.
VerifyTOTP(p) ==
  /\ At(p, "code")
  /\ Goto(p, "session") \/ Goto(p, "done")
  /\ UNCHANGED <<users, roles, tokens, keys, limiter, boot, history>>

-----------------------------------------------------------------------------
(* Passkeys                                                                *)

KeyOf(u) == \E k \in keys : k.user = u

AddCeremony(kind, u, ref) ==
  /\ NewToken
  /\ ceremonies' = ceremonies \cup {[id |-> Fresh, kind |-> kind, user |-> u, ref |-> ref]}
  /\ UNCHANGED <<users, roles, sessions, logins, setups, states, stale, keys, limiter, boot, req,
                 history>>

\* Without a username the credential names the user when the ceremony ends.
Anyone == "anyone"
BeginPasskeyLogin ==
  \/ \E u \in Users : Active(u) /\ KeyOf(u) /\ AddCeremony("login", u, 0)
  \/ AddCeremony("login", Anyone, 0)
BeginPasskey2FA ==
  \E c \in logins : /\ Unlocked /\ Active(c.user) /\ users[c.user].totp /\ KeyOf(c.user)
                    /\ AddCeremony("2fa", c.user, c.id)
BeginPasskeyRegister ==
  \E s \in sessions : Allowed(s, "self") /\ AddCeremony("register", s.user, 0)

\* The three Finish handlers up to the first write. Whatever fails, the
\* deferred DeleteChallenge follows.
FinishWith(p, op, u, c, ch, pc, good) ==
  /\ At(p, "idle")
  /\ \E ok \in {good, FALSE} :
       req' = [req EXCEPT ![p] =
         [Idle EXCEPT !.op = op, !.pc = IF ok THEN pc ELSE "cleanup", !.user = u,
                      !.ch = ch, !.cer = c.id,
                      !.copy = IF Exists(u) THEN users[u] ELSE Blank]]
  /\ UNCHANGED <<users, roles, tokens, keys, limiter, boot, history>>
FinishPasskeyLogin(p) ==
  \E c \in ceremonies, u \in Users :
    /\ c.user \in {u, Anyone}
    /\ FinishWith(p, "passkeyLogin", u, c, 0, "admit",
                  c.kind = "login" /\ Active(u) /\ KeyOf(u))
FinishPasskey2FA(p) ==
  \E c \in ceremonies :
    /\ c.kind = "2fa" /\ Unlocked
    /\ FinishWith(p, "passkey2fa", c.user, c, c.ref, "consume",
                  /\ [id |-> c.ref, user |-> c.user] \in logins
                  /\ Active(c.user) /\ users[c.user].totp /\ KeyOf(c.user))
FinishPasskeyRegister(p) ==
  \E c \in ceremonies, s \in sessions :
    /\ Allowed(s, "self")
    /\ FinishWith(p, "register", s.user, c, 0, "enroll",
                  c.kind = "register" /\ c.user = s.user)

\* Mutant: the challenge read at the start is trusted, not consumed and
\* checked again.
TrustRead(p) ==
  /\ At(p, "consume")
  /\ logins' = {c \in logins : c.id # req[p].ch} /\ Goto(p, "session")
  /\ UNCHANGED <<users, roles, sessions, setups, states, stale, ceremonies, issued, keys, limiter, boot, history>>

\* FinishPasskey2FA consumes the login challenge it has only read so far.
ConsumeForPasskey(p) ==
  LET c == [id |-> req[p].ch, user |-> req[p].user] IN
  /\ At(p, "consume")
  /\ \/ c \in logins /\ logins' = logins \ {c} /\ Leaves("logins", c) /\ Goto(p, "session")
     \/ Goto(p, "cleanup") /\ UNCHANGED <<logins, stale>>
  /\ UNCHANGED <<users, roles, sessions, setups, states, ceremonies, issued, keys, limiter, boot, history>>

\* passkeys.Create refuses a credential that is registered.
CreatePasskey(p) ==
  /\ At(p, "enroll")
  /\ \E d \in Creds :
       keys' = IF \E k \in keys : k.cred = d THEN keys
               ELSE keys \cup {[cred |-> d, user |-> req[p].user]}
  /\ Goto(p, "cleanup")
  /\ UNCHANGED <<users, roles, tokens, limiter, boot, history>>

DeletePasskey(p) ==
  /\ \E k \in keys, s \in sessions : /\ Allowed(s, "self") /\ k.user = s.user
                                     /\ keys' = keys \ {k}
                                     /\ Begin(p, "deletePasskey", "done", s.user, s.id)
  /\ UNCHANGED <<users, roles, tokens, limiter, boot, history>>

DeleteChallenge(p) ==
  /\ At(p, "cleanup")
  /\ ceremonies' = {c \in ceremonies : c.id # req[p].cer}
  /\ Goto(p, "done")
  /\ UNCHANGED <<users, roles, sessions, logins, setups, states, stale, issued, keys, limiter, boot, history>>

-----------------------------------------------------------------------------
(* A user's own account                                                    *)

\* CreateTOTPSetupChallenge replaces the one the user may have open.
ReplaceSetup(u, id) == {c \in setups : c.user # u} \cup {[id |-> id, user |-> u]}

SetupTOTP ==
  /\ Unlocked
  /\ \E s \in sessions :
       /\ Allowed(s, "self")
       /\ NewToken
       /\ setups' = ReplaceSetup(s.user, Fresh)
  /\ UNCHANGED <<users, roles, sessions, logins, states, stale, ceremonies, keys, limiter, boot, req, history>>

BeginSelf(p) ==
  /\ \E s \in sessions, op \in {"changePassword", "preferences", "disable"} :
       Allowed(s, "self") /\ Begin(p, op, "read", s.user, s.id)
  /\ UNCHANGED <<users, roles, tokens, keys, limiter, boot, history>>

\* EnableTOTP consumes the challenge, also when it is another user's.
BeginEnableTOTP(p) ==
  /\ \E s \in sessions, c \in setups :
       /\ Allowed(s, "self")
       /\ setups' = setups \ {c} /\ Leaves("setups", c)
       /\ \E right \in BOOLEAN :
            Begin(p, "enable", IF right /\ c.user = s.user THEN "read" ELSE "done", s.user, s.id)
  /\ UNCHANGED <<users, roles, sessions, logins, states, ceremonies, issued, keys, limiter, boot, history>>

\* The record is read; a password that must be given is checked, and an old
\* hash is stored anew before the request goes on with its copy.
ReadSelf(p) ==
  LET u == req[p].user
      asks == req[p].op \in {"changePassword", "disable"}
      skips == req[p].op = "disable" /\ ~users[u].totp IN
  /\ req[p].op \in {"changePassword", "disable", "preferences", "enable"}
  /\ At(p, "read")
  /\ IF ~Exists(u) THEN Goto(p, "done")
     ELSE IF skips THEN Goto(p, "done")
     ELSE \E pw \in Passwords :
            IF asks /\ users[u].pw # pw THEN Goto(p, "done")
            ELSE IF asks /\ "password" \in users[u].legacy
            THEN Store(p, Rehashed(users[u]), "edit")
            ELSE Take(p, "edit", users[u])
  /\ UNCHANGED <<users, roles, tokens, keys, limiter, boot, history>>

\* What each request makes of its copy.
ChangePassword(copy, new) == [copy EXCEPT !.pw = new]
UpdatePreferences(copy) == copy
EnableTOTP(copy) == Resealed([copy EXCEPT !.totp = TRUE, !.codes = Codes])
DisableTOTP(copy) == Resealed([copy EXCEPT !.totp = FALSE, !.codes = {}])

\* DisableTOTP asks for a recovery code that is left.
EditSelf(p) ==
  LET copy == req[p].copy  op == req[p].op IN
  /\ At(p, "edit")
  /\ \/ op = "changePassword" /\ \E new \in Passwords : Store(p, ChangePassword(copy, new), "revoke")
     \/ op = "preferences" /\ Store(p, UpdatePreferences(copy), "done")
     \/ op = "enable" /\ Store(p, EnableTOTP(copy), "done")
     \/ op = "disable" /\ copy.codes # {} /\ Store(p, DisableTOTP(copy), "done")
     \/ op = "disable" /\ copy.codes = {} /\ Goto(p, "done")
  /\ UNCHANGED <<users, roles, tokens, keys, limiter, boot, history>>

\* A changed password ends the other sessions; a deletion ends them all,
\* first. When the store fails the request is answered with an error, with
\* the new password stored and the old sessions in place.
Revoke(p) ==
  /\ At(p, "revoke")
  /\ Unlocked
  /\ \/ /\ sessions' = DeleteSessionsByUser(sessions, req[p].user,
                         IF req[p].op = "changePassword" THEN req[p].sid ELSE 0)
        /\ revoked' = IF req[p].op = "delete" THEN revoked ELSE revoked \cup req[p].doomed
        /\ Goto(p, IF req[p].op = "delete" THEN "remove" ELSE "done")
     \/ Goto(p, "done") /\ UNCHANGED <<sessions, revoked>>
  /\ UNCHANGED <<users, roles, logins, setups, states, stale, ceremonies, issued, keys, limiter, boot, spent,
                 restored, racing>>

-----------------------------------------------------------------------------
(* Administration of users and roles                                       *)

BeginAdmin(p) ==
  /\ \E s \in sessions, u \in Users, op \in {"update", "delete", "create", "dropRole"} :
       Allowed(s, "manage") /\ Begin(p, op, "read", u, 0)
  /\ UNCHANGED <<users, roles, tokens, keys, limiter, boot, history>>

\* Mutant: the administrator keeps its role but may be disabled.
PinRoleOnly(u, copy) ==
  IF u = Admin THEN [copy EXCEPT !.roles = @ \cup {"admin"}] ELSE copy

\* The built-in administrator stays active and keeps its role.
Pinned(u, copy) ==
  IF u = Admin THEN [copy EXCEPT !.active = TRUE, !.roles = @ \cup {"admin"}] ELSE copy

\* normalizeRoleIDs: the payload may name only roles that exist.
RoleChoices == {rs \in {{"admin"}, {"custom"}} : rs \subseteq DOMAIN roles}

\* AdministrationUsersHandler.update, delete and create up to their first
\* write, and the roles handler's look for users of a role.
UpdateTarget(p) ==
  LET u == req[p].user IN
  /\ Exists(u)
  /\ \E active \in BOOLEAN, rs \in RoleChoices :
       LET copy == [users[u] EXCEPT !.active = active, !.roles = rs] IN
       \/ Store(p, Pinned(u, copy), "done")
       \/ \E pw \in Passwords : Store(p, Pinned(u, [copy EXCEPT !.pw = pw]), "revoke")
DeleteTarget(p) ==
  Exists(req[p].user) /\ Goto(p, IF req[p].user = Admin THEN "done" ELSE "revoke")
CreateTarget(p) ==
  \E pw \in Passwords, rs \in RoleChoices :
    Take(p, "create", [Blank EXCEPT !.active = TRUE, !.pw = pw, !.roles = rs])
CheckRole(p) ==
  Goto(p, IF \E x \in DOMAIN users : "custom" \in users[x].roles THEN "done" ELSE "dropRole")

ReadTarget(p) ==
  LET op == req[p].op IN
  /\ At(p, "read")
  /\ \/ op \in {"update", "delete"} /\ ~Exists(req[p].user) /\ Goto(p, "done")
     \/ op = "update" /\ UpdateTarget(p)
     \/ op = "delete" /\ DeleteTarget(p)
     \/ op = "create" /\ CreateTarget(p)
     \/ op = "dropRole" /\ CheckRole(p)
  /\ UNCHANGED <<users, roles, tokens, keys, limiter, boot, history>>

RemoveUser(p) ==
  /\ At(p, "remove")
  /\ users' = [x \in DOMAIN users \ {req[p].user} |-> users[x]]
  /\ Goto(p, "done")
  /\ UNCHANGED <<roles, tokens, keys, limiter, boot, history>>

\* roles.Delete, after the users were found not to hold the role.
DropRole(p) ==
  /\ At(p, "dropRole")
  /\ roles' = [r \in DOMAIN roles \ {"custom"} |-> roles[r]]
  /\ Goto(p, "done")
  /\ UNCHANGED <<users, tokens, keys, limiter, boot, history>>

\* roles.Create and roles.Update; the admin role keeps every permission.
SaveRole(p) ==
  /\ \E s \in sessions, perms \in {{"self"}, Permissions} :
       /\ Allowed(s, "manage")
       /\ roles' = [r \in DOMAIN roles \cup {"custom"} |-> IF r = "custom" THEN perms ELSE roles[r]]
       /\ Begin(p, "saveRole", "done", s.user, s.id)
  /\ UNCHANGED <<users, tokens, keys, limiter, boot, history>>

-----------------------------------------------------------------------------
(* Accounts of an identity provider                                        *)

\* resolveMappedRoles: an account gets the default roles and what its groups
\* are mapped to; here both give viewer.
MappedRoles == {"viewer"}

\* resolveExternalUser: the linked account is overwritten, a missing one
\* created; a local account of that name is left alone.
ResolveExternal(p, op, source, u, active, next) ==
  /\ At(p, "idle")
  /\ \/ /\ Exists(u) /\ users[u].source = source
        /\ req' = [req EXCEPT ![p] = [Idle EXCEPT !.op = op, !.pc = "store", !.user = u, !.next = next,
                     !.copy = [users[u] EXCEPT !.active = active, !.roles = MappedRoles]]]
     \/ /\ ~Exists(u)
        /\ req' = [req EXCEPT ![p] = [Idle EXCEPT !.op = op, !.pc = "create", !.user = u, !.next = next,
                     !.copy = [Blank EXCEPT !.active = active, !.roles = MappedRoles, !.source = source]]]

ProvisionSCIMUser(p) ==
  /\ \E u \in Users, active \in BOOLEAN : ResolveExternal(p, "scim", "scim", u, active, "done")
  /\ UNCHANGED <<users, roles, tokens, keys, limiter, boot, history>>

DeactivateSCIMUser(p) ==
  /\ At(p, "idle")
  /\ \E u \in DOMAIN users :
       /\ users[u].source = "scim"
       /\ req' = [req EXCEPT ![p] = [Idle EXCEPT !.op = "scim", !.pc = "store", !.user = u, !.next = "done",
                                                 !.copy = [users[u] EXCEPT !.active = FALSE]]]
  /\ UNCHANGED <<users, roles, tokens, keys, limiter, boot, history>>

BeginOIDCLogin ==
  /\ Unlocked
  /\ NewToken
  /\ states' = states \cup {Fresh}
  /\ UNCHANGED <<users, roles, sessions, logins, setups, stale, ceremonies, keys, limiter, boot, req, history>>

\* ConsumeOIDCLoginChallenge comes before the provider is asked who logged
\* in; the discovery, the code exchange, the token check or the mapping may
\* fail. Without AutoProvision a linked account is taken as it is stored and a
\* missing one is an error.
LinkedAccount(p) ==
  \E u \in DOMAIN users : users[u].source = "oidc" /\ Begin(p, "oidc", "session", u, 0)
ConsumeState == \E c \in states : states' = states \ {c} /\ Leaves("states", c)
HandleOIDCCallback(p) ==
  /\ ConsumeState
  /\ \/ \E u \in Users : ResolveExternal(p, "oidc", "oidc", u, TRUE, "session")
     \/ LinkedAccount(p)
     \/ Begin(p, "oidc", "done", Admin, 0)
  /\ UNCHANGED <<users, roles, sessions, logins, setups, ceremonies, issued, keys, limiter, boot, history>>

-----------------------------------------------------------------------------
\* The process stops and starts: requests in progress and the limiter are
\* lost, the documents stay, seedDefaults restores the built-in roles,
\* seedBootstrap, when configured, fills an empty users document, and a new
\* boot token makes the cookies of every session useless.
SeedDefaults ==
  roles' = [r \in DOMAIN roles \cup DOMAIN BuiltIn |->
              (IF r \in DOMAIN roles THEN roles[r] ELSE {}) \cup
              (IF r \in DOMAIN BuiltIn THEN BuiltIn[r] ELSE {})]
SeedBootstrap ==
  \/ UNCHANGED users
  \/ /\ users = << >>
     /\ users' = [u \in {Admin} |-> [Blank EXCEPT !.active = TRUE, !.roles = {"admin"}]]
Restart ==
  /\ boot < MaxBoots
  /\ boot' = boot + 1
  /\ stale' = NoneStale
  /\ req' = [p \in Requests |-> IF p \in InFlight THEN [Idle EXCEPT !.pc = "done"] ELSE req[p]]
  /\ revoked' = revoked \cup UNION {req[p].doomed : p \in {q \in Requests : At(q, "revoke")}}
  /\ limiter' = [u \in Users |-> [fails |-> 0, blocked |-> FALSE]]
  /\ SeedDefaults /\ SeedBootstrap
  /\ UNCHANGED <<sessions, logins, setups, states, ceremonies, issued, keys, spent, restored, racing>>

\* A fresh installation, or one with an administrator and a user who have a
\* session each; the user logs in with a second factor.
InitUsers ==
  {<< >>} \cup
  {[u \in Users |-> [Blank EXCEPT !.active = TRUE,
      !.roles = IF u = Admin THEN {"admin"} ELSE {"custom"},
      !.legacy = IF u = Admin THEN {} ELSE {"password", "secret"},
      !.totp = u # Admin, !.codes = IF u = Admin THEN {} ELSE Codes]]}

\* In the second case a user also has a passkey and a login that waits for
\* the second factor, with the passkey asked for.
Init ==
  /\ users \in InitUsers
  /\ roles = [r \in Roles |-> IF r = "custom" THEN {"self"} ELSE BuiltIn[r]]
  /\ boot = 1 /\ issued = Cardinality(Users) + 2
  /\ LET f == CHOOSE g \in [1..Cardinality(DOMAIN users) -> DOMAIN users] :
                   \A i, j \in DOMAIN g : g[i] = g[j] => i = j
         n == Cardinality(DOMAIN f)
         waiting == {i \in DOMAIN f : users[f[i]].totp /\ \A j \in 1..(i - 1) : ~users[f[j]].totp} IN
     /\ sessions = {[id |-> i, user |-> f[i], boot |-> boot, plain |-> FALSE,
                     by |-> "before"] : i \in DOMAIN f}
     /\ logins = {[id |-> n + 1, user |-> f[i]] : i \in waiting}
     /\ ceremonies = {[id |-> n + 2, kind |-> "2fa", user |-> f[i], ref |-> n + 1] : i \in waiting}
     /\ keys = {[cred |-> CHOOSE d \in Creds : TRUE, user |-> f[i]] : i \in waiting}
  /\ setups = {} /\ states = {} /\ stale = NoneStale
  /\ limiter = [u \in Users |-> [fails |-> 0, blocked |-> FALSE]]
  /\ req = [p \in Requests |-> Idle]
  /\ spent = {} /\ restored = {} /\ revoked = {} /\ racing = [u \in Users |-> {}]

Serve(p) ==
  \/ \E u \in Users : BeginLogin(p, u) \/ BeginBootstrap(p, u)
  \/ VerifyPassword(p) \/ Admit(p) \/ RegisterAttempt(p)
  \/ ConsumeLoginChallenge(p) \/ SecondFactorCheck(p) \/ VerifyTOTP(p)
  \/ FinishPasskeyLogin(p) \/ FinishPasskey2FA(p) \/ FinishPasskeyRegister(p)
  \/ ConsumeForPasskey(p) \/ CreatePasskey(p) \/ DeleteChallenge(p)
  \/ BeginSelf(p) \/ BeginEnableTOTP(p) \/ ReadSelf(p) \/ EditSelf(p) \/ Revoke(p)
  \/ BeginAdmin(p) \/ ReadTarget(p) \/ RemoveUser(p) \/ DropRole(p)
  \/ ProvisionSCIMUser(p) \/ DeactivateSCIMUser(p) \/ HandleOIDCCallback(p)
  \/ DeletePasskey(p) \/ SaveRole(p) \/ Logout(p)
  \/ UpdateUser(p) \/ CreateUser(p) \/ CreateSession(p)

Next ==
  \/ \E p \in Requests : Serve(p)
  \/ BeginPasskeyLogin \/ BeginPasskey2FA \/ BeginPasskeyRegister
  \/ SetupTOTP \/ BeginOIDCLogin \/ TouchSession \/ Restart

Spec == Init /\ [][Next]_vars

-----------------------------------------------------------------------------
Ops == {"none", "login", "login2fa", "passkeyLogin", "passkey2fa", "register", "changePassword",
        "disable", "enable", "preferences", "update", "delete", "create", "dropRole", "bootstrap",
        "scim", "oidc"}
Calls == {"idle", "done", "verify", "admit", "failed", "succeeded", "second", "code", "session",
          "consume", "enroll", "cleanup", "read", "edit", "store", "create", "revoke", "remove",
          "dropRole"}
RequestRecord == [op : Ops, pc : Calls, user : Users, sid : Nat, ch : Nat, cer : Nat,
                  copy : User, next : Calls, doomed : SUBSET Nat]
AccountsTyped ==
  /\ DOMAIN users \subseteq Users /\ \A u \in DOMAIN users : users[u] \in User
  /\ DOMAIN roles \subseteq Roles
TokensTyped ==
  /\ sessions \subseteq [id : Nat, user : Users, boot : Nat, plain : BOOLEAN,
                         by : Requests \cup {"before"}]
  /\ logins \subseteq [id : Nat, user : Users]
  /\ ceremonies \subseteq [id : Nat, kind : {"login", "register"}, user : Users \cup {Anyone}, ref : Nat]
                  \cup [id : Nat, kind : {"2fa"}, user : Users, ref : Nat]
  /\ issued \in Nat /\ boot \in Nat
CopiesTyped ==
  /\ setups \subseteq [id : Nat, user : Users] /\ states \subseteq Nat
  /\ stale \in [logins : SUBSET [id : Nat, user : Users], setups : SUBSET [id : Nat, user : Users],
                states : SUBSET Nat]
HistoryTyped ==
  /\ spent \subseteq Nat \X Nat /\ restored \subseteq Nat /\ revoked \subseteq Nat
  /\ racing \in [Users -> SUBSET Requests]
TypeOK == /\ AccountsTyped /\ TokensTyped /\ CopiesTyped /\ HistoryTyped
          /\ req \in [Requests -> RequestRecord]

\* A login challenge lets at most one request in, also when a code and a
\* passkey answer it at the same time: FinishPasskey2FA reads the challenge
\* long before it consumes it. The one way to a second session is a save
\* of the whole document, loaded before the challenge was consumed on
\* PostgreSQL, that has brought it back.
ChallengeOnce == \A a, b \in spent : a[1] = b[1] => a = b \/ a[1] \in restored

\* While a user's second factor is on, a session that was opened without it
\* can only come from a login that was already in flight when the factor was
\* switched on (or from the identity provider, which has its own).
SecondFactor ==
  [][\A s \in sessions' \ sessions :
       s.plain /\ Exists(s.user) /\ users[s.user].totp => s.by \in racing[s.user]]_vars

\* Once a password change has been answered as done, or was cut short by a
\* restart, no other session that existed when the password was stored is of
\* any use. (One answered with an error may leave them all.)
PasswordChangeRevokes == \A s \in sessions : s.boot = boot => s.id \notin revoked

\* The local built-in administrator is active and holds its role, also in the
\* copies of its record that requests are about to write back.
AdminIntact ==
  LET good(x) == x.active /\ "admin" \in x.roles /\ x.source = "local" IN
  /\ Exists(Admin) /\ good(users[Admin])
  /\ \A p \in Requests :
       req[p].user = Admin /\ req[p].pc \in {"store", "edit"} => good(req[p].copy)

\* Whatever requests race, nothing disables the built-in administrator, takes
\* its role away or deletes it: not even an update that read the record early
\* and writes it back whole.
AdminKept == [][AdminIntact => AdminIntact']_vars

=============================================================================
