----------------------- MODULE Authentication_proofs -----------------------
(***************************************************************************)
(* What a login challenge, a second factor, a change of password and the   *)
(* built-in administrator are worth, for any number of users, requests and *)
(* restarts.                                                               *)
(***************************************************************************)
EXTENDS Authentication, FiniteSetTheorems, TLAPS

\* The calls each kind of request makes, and what it carries on the way.
Paths(r) ==
  \/ r.op = "none" /\ r.pc \in {"idle", "done"}
  \/ r.op = "login" /\ (\/ r.pc \in {"verify", "admit", "failed", "succeeded"}
                        \/ r.pc = "store" /\ r.next = "admit")
  \/ r.op = "login2fa" /\ (\/ r.pc \in {"second", "code", "session"}
                           \/ r.pc = "store" /\ r.next \in {"code", "session"})
  \/ r.op = "passkeyLogin" /\ r.pc \in {"admit", "cleanup"}
  \/ r.op = "passkey2fa" /\ r.pc \in {"consume", "session", "cleanup"}
  \/ r.op = "register" /\ r.pc \in {"enroll", "cleanup"}
  \/ r.op = "changePassword" /\ (\/ r.pc \in {"read", "edit", "revoke"}
                                 \/ r.pc = "store" /\ r.next \in {"edit", "revoke"})
  \/ r.op \in {"disable", "enable", "preferences"} /\
       (r.pc \in {"read", "edit"} \/ (r.pc = "store" /\ r.next \in {"edit", "done"}))
  \/ r.op = "update" /\ (\/ r.pc \in {"read", "revoke"}
                         \/ r.pc = "store" /\ r.next \in {"revoke", "done"})
  \/ r.op = "delete" /\ (r.pc = "read" \/ (r.pc \in {"revoke", "remove"} /\ r.user # Admin))
  \/ r.op = "create" /\ r.next = "done" /\ (r.pc = "read" \/ (r.pc = "create" /\ ~r.copy.totp))
  \/ r.op = "dropRole" /\ r.pc \in {"read", "dropRole"}
  \/ r.op = "bootstrap" /\ (\/ r.pc = "session"
                            \/ r.pc = "create" /\ r.next = "session" /\ ~r.copy.totp)
  \/ r.op \in {"scim", "oidc"} /\
       (\/ r.op = "oidc" /\ r.pc = "session"
        \/ /\ r.next = (IF r.op = "oidc" THEN "session" ELSE "done")
           /\ r.pc = "store" \/ (r.pc = "create" /\ ~r.copy.totp))
Flow(r) ==
  /\ Paths(r)
  /\ r.ch # 0 => r.op \in {"login2fa", "passkey2fa"}
  /\ r.cer # 0 => r.op \in {"passkeyLogin", "passkey2fa", "register"}
  /\ r.pc \notin {"revoke", "remove"} => r.doomed = {}
FlowOK == \A p \in Requests : Flow(req[p])

\* The challenge a request has consumed is not stored any more, no other
\* request has consumed it, and it has let nobody in yet, unless a late save
\* has brought it back. A challenge that a copy still holds has a number no
\* other has.
Holding(r) == r.ch # 0 /\ r.pc \in {"second", "code", "store", "session"}
Copies == logins \cup stale.logins
IdsOK == \A c \in Copies : c.id <= issued /\ \A d \in Copies : c.id = d.id => c = d
SpentOK ==
  \A a \in spent : /\ a[1] <= issued
                   /\ \A c \in logins : c.id = a[1] => a[1] \in restored
                   /\ \A b \in spent : a[1] = b[1] => a = b \/ a[1] \in restored
HeldOK(p) ==
  /\ req[p].ch <= issued
  /\ \A c \in logins : c.id = req[p].ch => req[p].ch \in restored
  /\ \A a \in spent : a[1] = req[p].ch => req[p].ch \in restored
  /\ \A q \in Requests : Holding(req[q]) /\ req[q].ch = req[p].ch => q = p \/ req[p].ch \in restored
ChallengesOK == IdsOK /\ SpentOK /\ \A p \in Requests : Holding(req[p]) => HeldOK(p)

\* A session that a change of password has to end is the user's and not the
\* one that asks for it, and ids are never used again.
SessionsOK ==
  /\ \A s \in sessions : /\ s.id \in 1..issued /\ s.boot <= boot
                         /\ \A t \in sessions : s.id = t.id => s = t
  /\ \A i \in revoked : i <= issued
  /\ \A p \in Requests :
       req[p].pc = "revoke"
       => \A i \in req[p].doomed :
            i <= issued /\ i # req[p].sid
            /\ \A s \in sessions : s.id = i => s.user = req[p].user
  /\ PasswordChangeRevokes

\* A login that has read a record without a second factor either still finds
\* none or was in flight when it was switched on.
Admitting(r) == r.pc = "admit" \/ (r.pc = "store" /\ r.next = "admit")
FactorOK ==
  \A p \in Requests :
    LET r == req[p] IN
    Admitting(r) /\ ~r.copy.totp /\ Exists(r.user) /\ users[r.user].totp
    => p \in racing[r.user]

-----------------------------------------------------------------------------
(* Requests                                                                *)

\* Request p has become r, and nothing else happened to the requests.
Becomes(p, r) == req' = [req EXCEPT ![p] = r]
ReqTyped == req \in [Requests -> RequestRecord]

\* A record made from a password that exists is a user record.
LEMMA BlankTyped == Blank \in User /\ ~Blank.totp
<1>1. (CHOOSE w \in Passwords : TRUE) \in Passwords
  BY NamesAssumption, Zenon
<1> QED
  BY <1>1 DEF Blank, User

\* The record of a request that is not being served.
LEMMA IdleTyped ==
  /\ Idle \in RequestRecord /\ Idle.pc = "idle" /\ Idle.op = "none" /\ Idle.next = "done"
  /\ Idle.ch = 0 /\ Idle.cer = 0 /\ Idle.doomed = {} /\ Idle.copy = Blank /\ Idle.sid = 0
<1>1. ASSUME NEW b \in User
      PROVE  [op |-> "none", pc |-> "idle", user |-> Admin, sid |-> 0, ch |-> 0, cer |-> 0,
              copy |-> b, next |-> "done", doomed |-> {}] \in RequestRecord
  BY AdminAssumption DEF RequestRecord, Ops, Calls
<1>2. Idle \in RequestRecord
  BY <1>1, BlankTyped DEF Idle
<1> QED
  BY <1>2 DEF Idle

\* The record of a request that is over.
LEMMA DoneTyped ==
  /\ Done \in RequestRecord /\ Done.pc = "done" /\ Done.op = "none" /\ Done.ch = 0 /\ Done.cer = 0
  /\ Done.doomed = {}
  BY IdleTyped DEF Done, RequestRecord, Calls

\* A request that goes on to its next call.
LEMMA MoveTyped ==
  ASSUME NEW r \in RequestRecord, NEW pc \in Calls
  PROVE  LET t == [r EXCEPT !.pc = pc] IN
         /\ t \in RequestRecord /\ t.op = r.op /\ t.pc = pc /\ t.user = r.user /\ t.sid = r.sid
         /\ t.next = r.next /\ t.ch = r.ch /\ t.cer = r.cer /\ t.doomed = r.doomed /\ t.copy = r.copy
  BY DEF RequestRecord

-----------------------------------------------------------------------------
(* Records of users                                                        *)

Intact(x) == x.active /\ "admin" \in x.roles /\ x.source = "local"
AdminSafe ==
  /\ Exists(Admin) /\ Intact(users[Admin])
  /\ \A p \in Requests :
       req[p].user = Admin /\ req[p].pc \in {"store", "edit"} => Intact(req[p].copy)

\* What a request writes to a record on the way leaves the account and its
\* second factor alone.
LEMMA Upgrades ==
  ASSUME NEW x \in User, NEW c
  PROVE  /\ {Rehashed(x), Resealed(x), WithoutCode(x, c)} \subseteq User
         /\ \A y \in {Rehashed(x), Resealed(x), WithoutCode(x, c)} :
              y.totp = x.totp /\ (Intact(x) => Intact(y))
  BY DEF User, Rehashed, Resealed, WithoutCode, Intact

\* So does what a user's own request makes of it, but for the second factor.
LEMMA Edits ==
  ASSUME NEW x \in User, NEW w \in Passwords
  PROVE  /\ {ChangePassword(x, w), UpdatePreferences(x), EnableTOTP(x), DisableTOTP(x)} \subseteq User
         /\ \A y \in {ChangePassword(x, w), UpdatePreferences(x), EnableTOTP(x), DisableTOTP(x)} :
              Intact(x) => Intact(y)
<1>1. /\ ChangePassword(x, w) \in User /\ UpdatePreferences(x) \in User
      /\ Intact(x) => Intact(ChangePassword(x, w)) /\ Intact(UpdatePreferences(x))
  BY DEF User, ChangePassword, UpdatePreferences, Intact
<1>2. ASSUME NEW b \in BOOLEAN, NEW cs \in SUBSET Codes
      PROVE  LET y == [x EXCEPT !.totp = b, !.codes = cs] IN y \in User /\ (Intact(x) => Intact(y))
  BY DEF User, Intact
<1>3. EnableTOTP(x) \in User /\ (Intact(x) => Intact(EnableTOTP(x)))
  <2>1. PICK y \in User : y = [x EXCEPT !.totp = TRUE, !.codes = Codes] /\ (Intact(x) => Intact(y))
    BY <1>2
  <2>2. Resealed(y) \in User /\ (Intact(y) => Intact(Resealed(y)))
    BY Upgrades
  <2> QED
    BY <2>1, <2>2 DEF EnableTOTP
<1>4. DisableTOTP(x) \in User /\ (Intact(x) => Intact(DisableTOTP(x)))
  <2>1. PICK y \in User : y = [x EXCEPT !.totp = FALSE, !.codes = {}] /\ (Intact(x) => Intact(y))
    BY <1>2
  <2>2. Resealed(y) \in User /\ (Intact(y) => Intact(Resealed(y)))
    BY Upgrades
  <2> QED
    BY <2>1, <2>2 DEF DisableTOTP
<1> QED
  BY <1>1, <1>3, <1>4

\* An update by an administrator keeps the built-in administrator.
LEMMA Updates ==
  ASSUME NEW x \in User, NEW u \in Users, NEW a \in BOOLEAN, NEW rs \in SUBSET Roles, NEW w \in Passwords
  PROVE  LET y == [x EXCEPT !.active = a, !.roles = rs]
             z == [y EXCEPT !.pw = w] IN
         /\ Pinned(u, y) \in User /\ Pinned(u, z) \in User
         /\ u = Admin /\ Intact(x) => Intact(Pinned(u, y)) /\ Intact(Pinned(u, z))
  BY DEF User, Pinned, Intact, Roles

\* A new account has no second factor.
LEMMA NewAccount ==
  ASSUME NEW a \in BOOLEAN, NEW rs \in SUBSET Roles, NEW w \in Passwords, NEW from \in {"scim", "oidc"}
  PROVE  LET y == [Blank EXCEPT !.active = a, !.pw = w, !.roles = rs]
             z == [Blank EXCEPT !.active = a, !.roles = rs, !.source = from] IN
         y \in User /\ ~y.totp /\ z \in User /\ ~z.totp
<1>1. PICK b \in User : b = Blank /\ ~b.totp
  BY BlankTyped
<1> DEFINE y == [b EXCEPT !.active = a, !.pw = w, !.roles = rs]
           z == [b EXCEPT !.active = a, !.roles = rs, !.source = from]
<1>2. y \in User /\ z \in User /\ y.totp = b.totp /\ z.totp = b.totp
  BY DEF User
<1> HIDE DEF y, z
<1>3. y \in User /\ z \in User /\ ~y.totp /\ ~z.totp
  BY <1>1, <1>2, Zenon
<1> QED
  BY <1>1, <1>3 DEF y, z

-----------------------------------------------------------------------------
(* What a step makes of a request                                          *)

Same(t, r) ==
  /\ t.op = r.op /\ t.user = r.user /\ t.sid = r.sid /\ t.next = r.next /\ t.ch = r.ch
  /\ t.cer = r.cer /\ t.doomed = r.doomed /\ t.copy = r.copy

\* The request stays on the path of its kind; it gets no challenge it had not
\* consumed before, no sessions to end, and a copy of a user record only by
\* reading it.
Keeps(t, r) == Holding(t) => Holding(r) /\ t.ch = r.ch
Undoomed(t) == t.pc = "revoke" => t.doomed = {}
Read(t) == /\ Admitting(t) => Exists(t.user) /\ t.copy.totp = users[t.user].totp
           /\ AdminSafe /\ t.user = Admin /\ t.pc \in {"store", "edit"} => Intact(t.copy)
Serves(p) ==
  \E t \in RequestRecord : Becomes(p, t) /\ Flow(t) /\ Keeps(t, req[p]) /\ Undoomed(t) /\ Read(t)

\* Goto ends a request or moves it on.
LEMMA GotoEffect ==
  ASSUME ReqTyped, NEW p \in Requests, NEW pc \in Calls, Goto(p, pc)
  PROVE  \E t \in RequestRecord :
           /\ Becomes(p, t)
           /\ pc = "done" => t = Done
           /\ pc # "done" => Same(t, req[p]) /\ t.pc = pc
<1>1. req[p] \in RequestRecord
  BY DEF ReqTyped
<1>2. CASE pc = "done"
  <2>1. Becomes(p, Done)
    BY <1>2 DEF Goto, Becomes
  <2> QED
    BY <1>2, <2>1, DoneTyped
<1>3. CASE pc # "done"
  <2> DEFINE t == [req[p] EXCEPT !.pc = pc]
  <2>1. t \in RequestRecord /\ Same(t, req[p]) /\ t.pc = pc
    BY <1>1, MoveTyped DEF Same
  <2>2. Becomes(p, t)
    BY <1>3 DEF Goto, Becomes, ReqTyped
  <2> QED
    BY <1>3, <2>1, <2>2
<1> QED
  BY <1>2, <1>3

\* So does Begin.
LEMMA BeginEffect ==
  ASSUME NEW p \in Requests, NEW op \in Ops, NEW pc \in Calls, NEW u \in Users, NEW i \in Nat,
         Begin(p, op, pc, u, i)
  PROVE  \E t \in RequestRecord :
           /\ Becomes(p, t)
           /\ pc = "done" => t = Done
           /\ pc # "done" => /\ t.op = op /\ t.pc = pc /\ t.user = u /\ t.next = "done" /\ t.ch = 0
                             /\ t.cer = 0 /\ t.doomed = {} /\ t.copy = Blank
<1>1. CASE pc = "done"
  <2>1. Becomes(p, Done)
    BY <1>1 DEF Begin, Becomes
  <2> QED
    BY <1>1, <2>1, DoneTyped
<1>2. CASE pc # "done"
  <2> DEFINE t == [Idle EXCEPT !.op = op, !.pc = pc, !.user = u, !.sid = i]
  <2>1. /\ t \in RequestRecord /\ t.op = op /\ t.pc = pc /\ t.user = u /\ t.next = "done" /\ t.ch = 0
        /\ t.cer = 0 /\ t.doomed = {} /\ t.copy = Blank
    BY IdleTyped DEF RequestRecord
  <2>2. Becomes(p, t)
    BY <1>2 DEF Begin, Becomes
  <2> QED
    BY <1>2, <2>1, <2>2
<1> QED
  BY <1>1, <1>2

\* A request that is over needs no more.
LEMMA EndServes ==
  ASSUME NEW p \in Requests, Becomes(p, Done)
  PROVE  Serves(p)
<1>1. Flow(Done) /\ Keeps(Done, req[p]) /\ Undoomed(Done) /\ Read(Done)
  BY DoneTyped DEF Flow, Paths, Keeps, Holding, Undoomed, Read, Admitting
<1> QED
  BY <1>1, DoneTyped DEF Serves

\* A request that starts with a call that has read nothing yet.
LEMMA BeginServes ==
  ASSUME NEW p \in Requests, NEW op \in Ops, NEW pc \in Calls, NEW u \in Users, NEW i \in Nat,
         Begin(p, op, pc, u, i),
         \/ pc = "done"
         \/ op = "login" /\ pc = "verify"
         \/ op = "oidc" /\ pc = "session"
         \/ /\ pc = "read"
            /\ op \in {"changePassword", "preferences", "disable", "enable", "update", "delete",
                       "create", "dropRole"}
  PROVE  Serves(p)
<1>1. PICK t \in RequestRecord :
           /\ Becomes(p, t)
           /\ pc = "done" => t = Done
           /\ pc # "done" => /\ t.op = op /\ t.pc = pc /\ t.user = u /\ t.next = "done" /\ t.ch = 0
                             /\ t.cer = 0 /\ t.doomed = {} /\ t.copy = Blank
  BY BeginEffect
<1>2. CASE pc = "done"
  BY <1>1, <1>2, EndServes
<1>3. CASE pc # "done"
  <2>1. Flow(t) /\ Keeps(t, req[p]) /\ Undoomed(t) /\ Read(t)
    BY <1>1, <1>3 DEF Flow, Paths, Keeps, Holding, Undoomed, Read, Admitting
  <2> QED
    BY <1>1, <2>1 DEF Serves
<1> QED
  BY <1>2, <1>3

\* A request that goes on, without a copy, along its path.
LEMMA GotoServes ==
  ASSUME ReqTyped, NEW p \in Requests, Flow(req[p]), NEW pc \in Calls, Goto(p, pc),
         \/ pc = "done"
         \/ pc \in {"failed", "succeeded"} /\ req[p].op = "login"
         \/ pc = "code" /\ req[p].pc = "second"
         \/ pc = "session" /\ req[p].pc \in {"code", "create"} /\ req[p].op \in {"login2fa", "bootstrap", "oidc"}
         \/ pc = "cleanup" /\ req[p].op \in {"passkeyLogin", "passkey2fa", "register"}
         \/ pc = "dropRole" /\ req[p].op = "dropRole" /\ req[p].pc = "read"
         \/ pc = "revoke" /\ req[p].op = "delete" /\ req[p].pc = "read" /\ req[p].user # Admin
         \/ pc = "remove" /\ req[p].op = "delete" /\ req[p].pc = "revoke"
  PROVE  Serves(p)
<1>1. PICK t \in RequestRecord :
           /\ Becomes(p, t)
           /\ pc = "done" => t = Done
           /\ pc # "done" => Same(t, req[p]) /\ t.pc = pc
  BY GotoEffect
<1>2. CASE pc = "done"
  BY <1>1, <1>2, EndServes
<1>3. CASE pc # "done"
  <2>1. Flow(t)
    BY <1>1, <1>3 DEF Flow, Paths, Same
  <2>2. Keeps(t, req[p]) /\ Undoomed(t) /\ Read(t)
    BY <1>1, <1>3 DEF Flow, Paths, Same, Keeps, Holding, Undoomed, Read, Admitting
  <2> QED
    BY <1>1, <2>1, <2>2 DEF Serves
<1> QED
  BY <1>2, <1>3

\* A request that goes on with a copy, and one that will write it back.
Carries(t, r, pc, copy, next) ==
  /\ t.op = r.op /\ t.pc = pc /\ t.user = r.user /\ t.sid = r.sid /\ t.next = next
  /\ t.ch = r.ch /\ t.cer = r.cer /\ t.doomed = r.doomed /\ t.copy = copy

\* Store, read off the request.
LEMMA StoreEffect ==
  ASSUME ReqTyped, NEW p \in Requests, NEW copy \in User, NEW next \in Calls, Store(p, copy, next)
  PROVE  \E t \in RequestRecord : Becomes(p, t) /\ Carries(t, req[p], "store", copy, next)
<1> DEFINE t == [req[p] EXCEPT !.pc = "store", !.copy = copy, !.next = next]
<1>1. req[p] \in RequestRecord /\ "store" \in Calls
  BY DEF ReqTyped, Calls
<1>2. t \in RequestRecord /\ Carries(t, req[p], "store", copy, next)
  BY <1>1 DEF RequestRecord, Carries
<1>3. Becomes(p, t)
  BY DEF Becomes, ReqTyped, Store
<1> QED
  BY <1>2, <1>3

\* Take, read off the request.
LEMMA TakeEffect ==
  ASSUME ReqTyped, NEW p \in Requests, NEW copy \in User, NEW pc \in Calls, Take(p, pc, copy)
  PROVE  \E t \in RequestRecord : Becomes(p, t) /\ Carries(t, req[p], pc, copy, req[p].next)
<1> DEFINE t == [req[p] EXCEPT !.pc = pc, !.copy = copy]
<1>1. req[p] \in RequestRecord
  BY DEF ReqTyped
<1>2. t \in RequestRecord /\ Carries(t, req[p], pc, copy, req[p].next)
  BY <1>1 DEF RequestRecord, Carries
<1>3. Becomes(p, t)
  BY DEF Becomes, ReqTyped, Take
<1> QED
  BY <1>2, <1>3

\* The record it has read or is about to write is the user's.
LEMMA CarriedServes ==
  ASSUME NEW p \in Requests, Flow(req[p]), NEW copy, NEW pc, NEW next,
         NEW t \in RequestRecord, Becomes(p, t), Carries(t, req[p], pc, copy, next),
         req[p].pc \in {"second", "verify", "read", "edit"},
         \/ req[p].op = "login" /\ (pc = "admit" \/ (pc = "store" /\ next = "admit"))
         \/ req[p].op = "login2fa" /\ pc = "store" /\ next \in {"code", "session"}
         \/ req[p].op = "changePassword" /\ (pc = "edit" \/ (pc = "store" /\ next \in {"edit", "revoke"}))
         \/ /\ req[p].op \in {"disable", "enable", "preferences"}
            /\ pc = "edit" \/ (pc = "store" /\ next \in {"edit", "done"})
         \/ req[p].op = "update" /\ pc = "store" /\ next \in {"revoke", "done"}
         \/ req[p].op = "create" /\ pc = "create" /\ next = "done" /\ ~copy.totp,
         req[p].op = "login" => Exists(req[p].user) /\ copy.totp = users[req[p].user].totp,
         AdminSafe /\ req[p].user = Admin /\ pc # "create" => Intact(copy)
  PROVE  Serves(p)
<1>1. Flow(t)
  BY DEF Flow, Paths, Carries
<1>2. Keeps(t, req[p])
  BY DEF Flow, Paths, Keeps, Holding, Carries
<1>3. Undoomed(t)
  BY DEF Flow, Undoomed, Carries
<1>4. Admitting(t) => Exists(t.user) /\ t.copy.totp = users[t.user].totp
  BY DEF Admitting, Carries
<1>5. Read(t)
  BY <1>4 DEF Read, Carries
<1> QED
  BY <1>1, <1>2, <1>3, <1>5 DEF Serves

\* A record that is stored is a user record.
LEMMA StoredRecord ==
  ASSUME TypeOK, NEW u, Exists(u)
  PROVE  u \in Users /\ users[u] \in User
  BY DEF TypeOK, AccountsTyped, Exists

\* The requests that only log in.
LEMMA LoginServes ==
  ASSUME TypeOK, FlowOK, NEW p \in Requests,
         (\E u \in Users : BeginLogin(p, u)) \/ VerifyPassword(p) \/ Admit(p) \/ RegisterAttempt(p)
         \/ SecondFactorCheck(p) \/ VerifyTOTP(p) \/ CreateSession(p)
  PROVE  Serves(p)
<1>0. ReqTyped /\ Flow(req[p]) /\ req[p] \in RequestRecord
  BY DEF TypeOK, ReqTyped, FlowOK
<1>1. ASSUME NEW u \in Users, BeginLogin(p, u) PROVE Serves(p)
  <2>1. Begin(p, "login", "done", u, 0) \/ Begin(p, "login", "verify", u, 0)
    BY <1>1 DEF BeginLogin
  <2> QED
    BY <2>1, BeginServes DEF Ops, Calls
<1>2. CASE VerifyPassword(p)
  <2> DEFINE u == req[p].user
  <2>0. req[p].op = "login" /\ req[p].pc = "verify"
    BY <1>2 DEF VerifyPassword, At
  <2>1. CASE Goto(p, "failed")
    BY <1>0, <2>0, <2>1, GotoServes DEF Calls
  <2>2. ASSUME Exists(u), Store(p, Rehashed(users[u]), "admit") PROVE Serves(p)
    <3>1. PICK x \in User : x = users[u]
      BY <2>2, StoredRecord
    <3>2. PICK y \in User : y = Rehashed(x) /\ y.totp = x.totp /\ (Intact(x) => Intact(y))
      BY Upgrades
    <3>3. PICK t \in RequestRecord : Becomes(p, t) /\ Carries(t, req[p], "store", y, "admit")
      BY <1>0, <2>2, <3>1, <3>2, StoreEffect DEF Calls
    <3>4. AdminSafe /\ req[p].user = Admin => Intact(y)
      BY <3>1, <3>2 DEF AdminSafe
    <3> QED
      BY <1>0, <2>0, <2>2, <3>1, <3>2, <3>3, <3>4, CarriedServes
  <2>3. ASSUME Exists(u), Take(p, "admit", users[u]) PROVE Serves(p)
    <3>1. PICK x \in User : x = users[u]
      BY <2>3, StoredRecord
    <3>2. PICK t \in RequestRecord : Becomes(p, t) /\ Carries(t, req[p], "admit", x, req[p].next)
      BY <1>0, <2>3, <3>1, TakeEffect DEF Calls
    <3>3. AdminSafe /\ req[p].user = Admin => Intact(x)
      BY <3>1 DEF AdminSafe
    <3> QED
      BY <1>0, <2>0, <2>3, <3>1, <3>2, <3>3, CarriedServes
  <2> QED
    BY <1>2, <2>1, <2>2, <2>3 DEF VerifyPassword, Active
<1>3. CASE Admit(p)
  <2>1. req[p].op \in {"login", "passkeyLogin"}
    BY <1>0, <1>3 DEF Admit, At, Flow, Paths
  <2>2. CASE req[p].op = "login"
    <3>1. Goto(p, "succeeded")
      BY <1>3, <2>2 DEF Admit
    <3> QED
      BY <1>0, <2>2, <3>1, GotoServes DEF Calls
  <2>3. CASE req[p].op = "passkeyLogin"
    <3>1. Goto(p, "cleanup")
      BY <1>3, <2>3 DEF Admit
    <3> QED
      BY <1>0, <2>3, <3>1, GotoServes DEF Calls
  <2> QED
    BY <2>1, <2>2, <2>3
<1>4. CASE RegisterAttempt(p)
  BY <1>0, <1>4, GotoServes DEF RegisterAttempt, Calls
<1>5. CASE SecondFactorCheck(p)
  <2> DEFINE u == req[p].user
  <2>0. req[p].op = "login2fa" /\ req[p].pc = "second"
    BY <1>0, <1>5 DEF SecondFactorCheck, At, Flow, Paths
  <2>1. CASE Goto(p, "done") \/ Goto(p, "code")
    BY <1>0, <2>0, <2>1, GotoServes DEF Calls
  <2>2. ASSUME Exists(u), NEW c, NEW next \in {"session", "code"},
               Store(p, WithoutCode(users[u], c), next) \/ Store(p, Resealed(users[u]), next)
        PROVE  Serves(p)
    <3>1. PICK x \in User : x = users[u]
      BY <2>2, StoredRecord
    <3>2. PICK y \in User : Store(p, y, next) /\ (Intact(x) => Intact(y))
      BY <2>2, <3>1, Upgrades
    <3>3. PICK t \in RequestRecord : Becomes(p, t) /\ Carries(t, req[p], "store", y, next)
      BY <1>0, <3>2, StoreEffect DEF Calls
    <3>4. AdminSafe /\ req[p].user = Admin => Intact(y)
      BY <3>1, <3>2 DEF AdminSafe
    <3> QED
      BY <1>0, <2>0, <3>3, <3>4, CarriedServes
  <2> QED
    BY <1>5, <2>1, <2>2 DEF SecondFactorCheck, Active
<1>6. CASE VerifyTOTP(p)
  <2>0. req[p].op = "login2fa" /\ req[p].pc = "code"
    BY <1>0, <1>6 DEF VerifyTOTP, At, Flow, Paths
  <2>1. Goto(p, "session") \/ Goto(p, "done")
    BY <1>6 DEF VerifyTOTP
  <2> QED
    BY <1>0, <2>0, <2>1, GotoServes DEF Calls
<1>7. CASE CreateSession(p)
  <2>1. Goto(p, IF req[p].cer # 0 THEN "cleanup" ELSE "done")
    BY <1>7 DEF CreateSession
  <2>2. CASE req[p].cer # 0
    BY <1>0, <2>1, <2>2, GotoServes DEF Calls, Flow
  <2>3. CASE req[p].cer = 0
    BY <1>0, <2>1, <2>3, GotoServes DEF Calls
  <2> QED
    BY <2>2, <2>3
<1> QED
  BY <1>1, <1>2, <1>3, <1>4, <1>5, <1>6, <1>7

\* The requests that answer a WebAuthn challenge.
LEMMA PasskeyServes ==
  ASSUME TypeOK, FlowOK, NEW p \in Requests,
         FinishPasskeyLogin(p) \/ FinishPasskey2FA(p) \/ FinishPasskeyRegister(p)
         \/ CreatePasskey(p) \/ DeletePasskey(p) \/ DeleteChallenge(p)
  PROVE  Serves(p)
<1>0. ReqTyped /\ Flow(req[p]) /\ req[p] \in RequestRecord
  BY DEF TypeOK, ReqTyped, FlowOK
<1>1. ASSUME NEW op, NEW u \in Users, NEW c, c.id \in Nat, NEW ch \in Nat, NEW pc, NEW good,
             FinishWith(p, op, u, c, ch, pc, good),
             \/ op = "passkeyLogin" /\ pc = "admit" /\ ch = 0 /\ (good => Exists(u))
             \/ op = "passkey2fa" /\ pc = "consume"
             \/ op = "register" /\ pc = "enroll" /\ ch = 0
      PROVE  Serves(p)
  <2>1. PICK x \in User : x = IF Exists(u) THEN users[u] ELSE Blank
    BY StoredRecord, BlankTyped
  <2>2. PICK to \in {pc, "cleanup"} :
          /\ to = pc => good
          /\ Becomes(p, [Idle EXCEPT !.op = op, !.pc = to, !.user = u, !.ch = ch, !.cer = c.id, !.copy = x])
    <3>1. PICK ok \in {good, FALSE} :
            req' = [req EXCEPT ![p] = [Idle EXCEPT !.op = op, !.pc = IF ok THEN pc ELSE "cleanup", !.user = u,
                      !.ch = ch, !.cer = c.id, !.copy = IF Exists(u) THEN users[u] ELSE Blank]]
      BY <1>1 DEF FinishWith
    <3>2. CASE ok
      BY <2>1, <3>1, <3>2 DEF Becomes
    <3>3. CASE ~ok
      BY <1>1, <2>1, <3>1, <3>3 DEF Becomes
    <3> QED
      BY <3>2, <3>3
  <2> DEFINE t == [Idle EXCEPT !.op = op, !.pc = to, !.user = u, !.ch = ch, !.cer = c.id, !.copy = x]
  <2>3. op \in Ops /\ to \in Calls
    BY <1>1 DEF Ops, Calls
  <2>4. /\ t \in RequestRecord /\ t.op = op /\ t.pc = to /\ t.user = u /\ t.ch = ch /\ t.copy = x
        /\ t.doomed = {}
    BY <1>1, <2>3, IdleTyped DEF RequestRecord
  <2> HIDE DEF t
  <2>5. Flow(t) /\ Keeps(t, req[p]) /\ Undoomed(t)
    BY <1>1, <2>4 DEF Flow, Paths, Keeps, Holding, Undoomed
  <2>6. Read(t)
    BY <1>1, <2>1, <2>2, <2>4 DEF Read, Admitting
  <2> QED
    BY <2>2, <2>4, <2>5, <2>6 DEF Serves, t
<1>2. CASE FinishPasskeyLogin(p)
  <2>1. PICK c \in ceremonies, u \in Users :
          FinishWith(p, "passkeyLogin", u, c, 0, "admit", c.kind = "login" /\ Active(u) /\ KeyOf(u))
    BY <1>2 DEF FinishPasskeyLogin
  <2>2. c.id \in Nat
    BY DEF TypeOK, TokensTyped
  <2> QED
    BY <1>1, <2>1, <2>2 DEF Active
<1>3. CASE FinishPasskey2FA(p)
  <2>1. PICK c \in ceremonies :
          /\ c.kind = "2fa"
          /\ FinishWith(p, "passkey2fa", c.user, c, c.ref, "consume",
                  /\ [id |-> c.ref, user |-> c.user] \in logins
                  /\ Active(c.user) /\ users[c.user].totp /\ KeyOf(c.user))
    BY <1>3 DEF FinishPasskey2FA
  <2>2. c.id \in Nat /\ c.ref \in Nat /\ c.user \in Users
    BY <2>1 DEF TypeOK, TokensTyped
  <2> QED
    BY <1>1, <2>1, <2>2
<1>4. CASE FinishPasskeyRegister(p)
  <2>1. PICK c \in ceremonies, s \in sessions :
          FinishWith(p, "register", s.user, c, 0, "enroll", c.kind = "register" /\ c.user = s.user)
    BY <1>4 DEF FinishPasskeyRegister
  <2>2. c.id \in Nat /\ s.user \in Users
    BY DEF TypeOK, TokensTyped
  <2> QED
    BY <1>1, <2>1, <2>2
<1>5. CASE CreatePasskey(p)
  <2>1. req[p].op = "register" /\ Goto(p, "cleanup")
    BY <1>0, <1>5 DEF CreatePasskey, At, Flow, Paths
  <2> QED
    BY <1>0, <2>1, GotoServes DEF Calls
<1>6. CASE DeletePasskey(p)
  <2>1. PICK s \in sessions : Begin(p, "deletePasskey", "done", s.user, s.id)
    BY <1>6 DEF DeletePasskey
  <2>2. Becomes(p, Done)
    BY <2>1 DEF Begin, Becomes
  <2> QED
    BY <2>2, EndServes
<1>7. CASE DeleteChallenge(p)
  BY <1>0, <1>7, GotoServes DEF DeleteChallenge, Calls
<1> QED
  BY <1>2, <1>3, <1>4, <1>5, <1>6, <1>7

\* The requests of a user about the own account.
LEMMA SelfServes ==
  ASSUME TypeOK, FlowOK, NEW p \in Requests,
         BeginSelf(p) \/ BeginEnableTOTP(p) \/ ReadSelf(p) \/ EditSelf(p) \/ Revoke(p) \/ Logout(p)
  PROVE  Serves(p)
<1>0. ReqTyped /\ Flow(req[p]) /\ req[p] \in RequestRecord
  BY DEF TypeOK, ReqTyped, FlowOK
<1>1. CASE BeginSelf(p)
  <2>1. PICK s \in sessions, op \in {"changePassword", "preferences", "disable"} :
          Begin(p, op, "read", s.user, s.id)
    BY <1>1 DEF BeginSelf
  <2>2. s.user \in Users /\ s.id \in Nat
    BY DEF TypeOK, TokensTyped
  <2> QED
    BY <2>1, <2>2, BeginServes DEF Ops, Calls
<1>2. CASE BeginEnableTOTP(p)
  <2>1. PICK s \in sessions, pc \in {"read", "done"} : Begin(p, "enable", pc, s.user, s.id)
    BY <1>2 DEF BeginEnableTOTP
  <2>2. s.user \in Users /\ s.id \in Nat
    BY DEF TypeOK, TokensTyped
  <2> QED
    BY <2>1, <2>2, BeginServes DEF Ops, Calls
<1>3. CASE ReadSelf(p)
  <2> DEFINE u == req[p].user
  <2>0. req[p].op \in {"changePassword", "disable", "preferences", "enable"} /\ req[p].pc = "read"
    BY <1>3 DEF ReadSelf, At
  <2>1. CASE Goto(p, "done")
    BY <1>0, <2>1, GotoServes DEF Calls
  <2>2. ASSUME Exists(u), req[p].op \in {"changePassword", "disable"}, Store(p, Rehashed(users[u]), "edit")
        PROVE  Serves(p)
    <3>1. PICK x \in User : x = users[u]
      BY <2>2, StoredRecord
    <3>2. PICK y \in User : y = Rehashed(x) /\ (Intact(x) => Intact(y))
      BY Upgrades
    <3>3. PICK t \in RequestRecord : Becomes(p, t) /\ Carries(t, req[p], "store", y, "edit")
      BY <1>0, <2>2, <3>1, <3>2, StoreEffect DEF Calls
    <3>4. AdminSafe /\ req[p].user = Admin => Intact(y)
      BY <3>1, <3>2 DEF AdminSafe
    <3> QED
      BY <1>0, <2>0, <2>2, <3>3, <3>4, CarriedServes
  <2>3. ASSUME Exists(u), Take(p, "edit", users[u]) PROVE Serves(p)
    <3>1. PICK x \in User : x = users[u]
      BY <2>3, StoredRecord
    <3>2. PICK t \in RequestRecord : Becomes(p, t) /\ Carries(t, req[p], "edit", x, req[p].next)
      BY <1>0, <2>3, <3>1, TakeEffect DEF Calls
    <3>3. AdminSafe /\ req[p].user = Admin => Intact(x)
      BY <3>1 DEF AdminSafe
    <3> QED
      BY <1>0, <2>0, <3>2, <3>3, CarriedServes
  <2> QED
    BY <1>3, <2>1, <2>2, <2>3 DEF ReadSelf
<1>4. CASE EditSelf(p)
  <2>1. PICK x \in User : x = req[p].copy
    BY <1>0 DEF RequestRecord
  <2>2. req[p].pc = "edit"
    BY <1>4 DEF EditSelf, At
  <2>3. CASE Goto(p, "done")
    BY <1>0, <2>3, GotoServes DEF Calls
  <2>4. ASSUME NEW y \in User, NEW next \in {"revoke", "done"}, Intact(x) => Intact(y), Store(p, y, next),
               \/ req[p].op = "changePassword" /\ next = "revoke"
               \/ req[p].op \in {"disable", "enable", "preferences"} /\ next = "done"
        PROVE  Serves(p)
    <3>1. PICK t \in RequestRecord : Becomes(p, t) /\ Carries(t, req[p], "store", y, next)
      BY <1>0, <2>4, StoreEffect DEF Calls
    <3>2. AdminSafe /\ req[p].user = Admin => Intact(y)
      BY <2>1, <2>2, <2>4 DEF AdminSafe
    <3> QED
      BY <1>0, <2>2, <2>4, <3>1, <3>2, CarriedServes
  <2>5. ASSUME NEW w \in Passwords, req[p].op = "changePassword", Store(p, ChangePassword(x, w), "revoke")
        PROVE  Serves(p)
    BY <2>4, <2>5, Edits
  <2>6. ASSUME req[p].op \in {"disable", "enable", "preferences"},
               \/ Store(p, UpdatePreferences(x), "done") \/ Store(p, EnableTOTP(x), "done")
               \/ Store(p, DisableTOTP(x), "done")
        PROVE  Serves(p)
    <3>1. PICK w \in Passwords : TRUE
      BY NamesAssumption
    <3>2. PICK y \in User : Store(p, y, "done") /\ (Intact(x) => Intact(y))
      BY <2>6, Edits
    <3> QED
      BY <2>4, <2>6, <3>2
  <2> QED
    BY <1>4, <2>1, <2>3, <2>5, <2>6 DEF EditSelf
<1>5. CASE Revoke(p)
  <2>1. req[p].pc = "revoke" /\ (Goto(p, "done") \/ (req[p].op = "delete" /\ Goto(p, "remove")))
    BY <1>5 DEF Revoke, At
  <2>2. CASE Goto(p, "done")
    BY <1>0, <2>2, GotoServes DEF Calls
  <2>3. CASE req[p].op = "delete" /\ Goto(p, "remove")
    BY <1>0, <2>1, <2>3, GotoServes DEF Calls
  <2> QED
    BY <2>1, <2>2, <2>3
<1>6. CASE Logout(p)
  <2>1. PICK s \in sessions : Begin(p, "logout", "done", s.user, s.id)
    BY <1>6 DEF Logout
  <2>2. Becomes(p, Done)
    BY <2>1 DEF Begin, Becomes
  <2> QED
    BY <2>2, EndServes
<1> QED
  BY <1>1, <1>2, <1>3, <1>4, <1>5, <1>6

\* The requests of an administrator.
LEMMA AdminServes ==
  ASSUME TypeOK, FlowOK, NEW p \in Requests,
         BeginAdmin(p) \/ ReadTarget(p) \/ RemoveUser(p) \/ DropRole(p) \/ SaveRole(p) \/ CreateUser(p)
  PROVE  Serves(p)
<1>0. ReqTyped /\ Flow(req[p]) /\ req[p] \in RequestRecord
  BY DEF TypeOK, ReqTyped, FlowOK
<1>1. CASE BeginAdmin(p)
  BY <1>1, BeginServes DEF BeginAdmin, Ops, Calls
<1>2. CASE ReadTarget(p)
  <2> DEFINE u == req[p].user
  <2>0. req[p].pc = "read" /\ u \in Users
    BY <1>0, <1>2 DEF ReadTarget, At, RequestRecord
  <2>1. CASE Goto(p, "done")
    BY <1>0, <2>1, GotoServes DEF Calls
  <2>2. ASSUME req[p].op = "update", UpdateTarget(p) PROVE Serves(p)
    <3>1. PICK x \in User : x = users[u]
      BY <2>2, StoredRecord DEF UpdateTarget
    <3>2. PICK a \in BOOLEAN, rs \in RoleChoices :
            LET copy == [x EXCEPT !.active = a, !.roles = rs] IN
            \/ Store(p, Pinned(u, copy), "done")
            \/ \E w \in Passwords : Store(p, Pinned(u, [copy EXCEPT !.pw = w]), "revoke")
      BY <2>2, <3>1 DEF UpdateTarget
    <3>3. rs \in SUBSET Roles
      BY DEF RoleChoices, Roles
    <3>4. PICK y \in User, next \in {"done", "revoke"} :
            Store(p, y, next) /\ (u = Admin /\ Intact(x) => Intact(y))
      <4>1. CASE Store(p, Pinned(u, [x EXCEPT !.active = a, !.roles = rs]), "done")
        <5>1. PICK w \in Passwords : TRUE
          BY NamesAssumption
        <5> QED
          BY <2>0, <3>3, <4>1, Updates
      <4>2. ASSUME NEW w \in Passwords,
                   Store(p, Pinned(u, [[x EXCEPT !.active = a, !.roles = rs] EXCEPT !.pw = w]), "revoke")
            PROVE \E y \in User, next \in {"done", "revoke"} :
                    Store(p, y, next) /\ (u = Admin /\ Intact(x) => Intact(y))
        BY <2>0, <3>3, <4>2, Updates
      <4> QED
        BY <3>2, <4>1, <4>2
    <3>5. PICK t \in RequestRecord : Becomes(p, t) /\ Carries(t, req[p], "store", y, next)
      BY <1>0, <3>4, StoreEffect DEF Calls
    <3>6. AdminSafe /\ req[p].user = Admin => Intact(y)
      BY <3>1, <3>4 DEF AdminSafe
    <3> QED
      BY <1>0, <2>0, <2>2, <3>5, <3>6, CarriedServes
  <2>3. ASSUME req[p].op = "delete", DeleteTarget(p) PROVE Serves(p)
    <3>1. CASE u = Admin
      BY <2>1, <2>3, <3>1 DEF DeleteTarget
    <3>2. CASE u # Admin
      <4>1. Goto(p, "revoke")
        BY <2>3, <3>2 DEF DeleteTarget
      <4> QED
        BY <1>0, <2>0, <2>3, <3>2, <4>1, GotoServes DEF Calls
    <3> QED
      BY <3>1, <3>2
  <2>4. ASSUME req[p].op = "create", CreateTarget(p) PROVE Serves(p)
    <3>1. PICK w \in Passwords, rs \in RoleChoices :
            Take(p, "create", [Blank EXCEPT !.active = TRUE, !.pw = w, !.roles = rs])
      BY <2>4 DEF CreateTarget
    <3>2. rs \in SUBSET Roles
      BY DEF RoleChoices, Roles
    <3>3. PICK y \in User : y = [Blank EXCEPT !.active = TRUE, !.pw = w, !.roles = rs] /\ ~y.totp
      BY <3>2, NewAccount
    <3>4. PICK t \in RequestRecord : Becomes(p, t) /\ Carries(t, req[p], "create", y, req[p].next)
      BY <1>0, <3>1, <3>3, TakeEffect DEF Calls
    <3>5. req[p].next = "done"
      BY <1>0, <2>4 DEF Flow, Paths
    <3> QED
      BY <1>0, <2>0, <2>4, <3>3, <3>4, <3>5, CarriedServes
  <2>5. ASSUME req[p].op = "dropRole", CheckRole(p) PROVE Serves(p)
    <3>1. Goto(p, "done") \/ Goto(p, "dropRole")
      BY <2>5 DEF CheckRole
    <3> QED
      BY <1>0, <2>0, <2>5, <3>1, GotoServes DEF Calls
  <2> QED
    BY <1>2, <2>1, <2>2, <2>3, <2>4, <2>5 DEF ReadTarget
<1>3. CASE RemoveUser(p) \/ DropRole(p)
  BY <1>0, <1>3, GotoServes DEF RemoveUser, DropRole, Calls
<1>4. CASE SaveRole(p)
  <2>1. PICK s \in sessions : Begin(p, "saveRole", "done", s.user, s.id)
    BY <1>4 DEF SaveRole
  <2>2. Becomes(p, Done)
    BY <2>1 DEF Begin, Becomes
  <2> QED
    BY <2>2, EndServes
<1>5. CASE CreateUser(p)
  <2>1. req[p].pc = "create" /\ (Goto(p, req[p].next) \/ Goto(p, "done"))
    BY <1>5 DEF CreateUser, At
  <2>2. req[p].next = "done" \/ (req[p].next = "session" /\ req[p].op \in {"bootstrap", "oidc"})
    BY <1>0, <2>1 DEF Flow, Paths
  <2> QED
    BY <1>0, <2>1, <2>2, GotoServes DEF Calls
<1> QED
  BY <1>1, <1>2, <1>3, <1>4, <1>5

\* The requests that come with a record: the first administrator's and those
\* of an identity provider.
LEMMA ExternalServes ==
  ASSUME TypeOK, FlowOK, NEW p \in Requests,
         (\E u \in Users : BeginBootstrap(p, u)) \/ ProvisionSCIMUser(p) \/ DeactivateSCIMUser(p)
         \/ HandleOIDCCallback(p)
  PROVE  Serves(p)
<1>1. ASSUME NEW op \in Ops, NEW pc \in {"create", "store"}, NEW u \in Users, NEW next \in {"session", "done"},
             NEW x \in User,
             Becomes(p, [Idle EXCEPT !.op = op, !.pc = pc, !.user = u, !.next = next, !.copy = x]),
             \/ op = "bootstrap" /\ pc = "create" /\ next = "session"
             \/ op = "scim" /\ next = "done"
             \/ op = "oidc" /\ next = "session",
             pc = "create" => ~x.totp,
             pc = "store" => ~(AdminSafe /\ u = Admin)
      PROVE  Serves(p)
  <2> DEFINE t == [Idle EXCEPT !.op = op, !.pc = pc, !.user = u, !.next = next, !.copy = x]
  <2>1. pc \in Calls /\ next \in Calls
    BY DEF Calls
  <2>2. /\ t \in RequestRecord /\ t.op = op /\ t.pc = pc /\ t.user = u /\ t.next = next /\ t.ch = 0
        /\ t.cer = 0 /\ t.copy = x /\ t.doomed = {}
    BY <2>1, IdleTyped DEF RequestRecord
  <2> HIDE DEF t
  <2>3. Flow(t) /\ Keeps(t, req[p]) /\ Undoomed(t)
    BY <1>1, <2>2 DEF Flow, Paths, Keeps, Holding, Undoomed
  <2>4. Read(t)
    BY <1>1, <2>2 DEF Read, Admitting
  <2> QED
    BY <1>1, <2>2, <2>3, <2>4 DEF Serves, t
<1>2. ASSUME NEW u \in Users, BeginBootstrap(p, u) PROVE Serves(p)
  <2>1. PICK w \in Passwords :
          Becomes(p, [Idle EXCEPT !.op = "bootstrap", !.pc = "create", !.user = u, !.next = "session",
                        !.copy = [Blank EXCEPT !.active = TRUE, !.pw = w, !.roles = {"admin"}]])
    BY <1>2 DEF BeginBootstrap, Becomes
  <2>2. PICK x \in User : x = [Blank EXCEPT !.active = TRUE, !.pw = w, !.roles = {"admin"}] /\ ~x.totp
    <3>1. {"admin"} \in SUBSET Roles
      BY DEF Roles
    <3> QED
      BY <3>1, NewAccount
  <2>3. Becomes(p, [Idle EXCEPT !.op = "bootstrap", !.pc = "create", !.user = u, !.next = "session",
                      !.copy = x])
    BY <2>1, <2>2
  <2>4. "bootstrap" \in Ops
    BY DEF Ops
  <2> QED
    BY <1>1, <2>2, <2>3, <2>4
<1>3. ASSUME NEW op, NEW source \in {"scim", "oidc"}, op = source, NEW u \in Users, NEW a \in BOOLEAN,
             NEW next, next = (IF op = "oidc" THEN "session" ELSE "done"),
             ResolveExternal(p, op, source, u, a, next)
      PROVE  Serves(p)
  <2>0. op \in Ops /\ next \in {"session", "done"}
    BY <1>3 DEF Ops
  <2>1. CASE /\ Exists(u) /\ users[u].source = source
             /\ Becomes(p, [Idle EXCEPT !.op = op, !.pc = "store", !.user = u, !.next = next,
                              !.copy = [users[u] EXCEPT !.active = a, !.roles = MappedRoles]])
    <3>1. users[u] \in User
      BY <2>1, StoredRecord
    <3>2. PICK x \in User : x = [users[u] EXCEPT !.active = a, !.roles = MappedRoles]
      BY <3>1 DEF User, MappedRoles, Roles
    <3>3. ~(AdminSafe /\ u = Admin)
      BY <2>1 DEF AdminSafe, Intact
    <3> QED
      BY <1>1, <1>3, <2>0, <2>1, <3>2, <3>3
  <2>2. CASE Becomes(p, [Idle EXCEPT !.op = op, !.pc = "create", !.user = u, !.next = next,
                           !.copy = [Blank EXCEPT !.active = a, !.roles = MappedRoles, !.source = source]])
    <3>1. PICK x \in User : /\ x = [Blank EXCEPT !.active = a, !.roles = MappedRoles, !.source = source]
                            /\ ~x.totp
      <4>1. MappedRoles \in SUBSET Roles
        BY DEF MappedRoles, Roles
      <4>2. PICK w \in Passwords : TRUE
        BY NamesAssumption
      <4> QED
        BY <1>3, <4>1, <4>2, NewAccount
    <3> QED
      BY <1>1, <1>3, <2>0, <2>2, <3>1
  <2> QED
    BY <1>3, <2>1, <2>2 DEF ResolveExternal, Becomes
<1>4. CASE ProvisionSCIMUser(p)
  BY <1>3, <1>4 DEF ProvisionSCIMUser
<1>5. CASE DeactivateSCIMUser(p)
  <2>1. PICK u \in DOMAIN users :
          /\ users[u].source = "scim"
          /\ Becomes(p, [Idle EXCEPT !.op = "scim", !.pc = "store", !.user = u, !.next = "done",
                                     !.copy = [users[u] EXCEPT !.active = FALSE]])
    BY <1>5 DEF DeactivateSCIMUser, Becomes
  <2>2. u \in Users /\ users[u] \in User
    BY StoredRecord DEF Exists
  <2>3. PICK x \in User : x = [users[u] EXCEPT !.active = FALSE]
    BY <2>2 DEF User
  <2>4. ~(AdminSafe /\ u = Admin)
    BY <2>1 DEF AdminSafe, Intact
  <2> QED
    BY <1>1, <2>1, <2>2, <2>3, <2>4 DEF Ops
<1>6. CASE HandleOIDCCallback(p)
  <2>1. CASE Begin(p, "oidc", "done", Admin, 0)
    <3>1. Becomes(p, Done)
      BY <2>1 DEF Begin, Becomes
    <3> QED
      BY <3>1, EndServes
  <2>2. ASSUME NEW u \in Users, ResolveExternal(p, "oidc", "oidc", u, TRUE, "session") PROVE Serves(p)
    BY <1>3, <2>2
  <2>3. ASSUME LinkedAccount(p) PROVE Serves(p)
    <3>1. PICK u \in Users : Begin(p, "oidc", "session", u, 0)
      BY <2>3 DEF LinkedAccount, TypeOK, AccountsTyped
    <3> QED
      BY <3>1, BeginServes DEF Ops, Calls
  <2> QED
    BY <1>6, <2>1, <2>2, <2>3 DEF HandleOIDCCallback
<1> QED
  BY <1>2, <1>4, <1>5, <1>6

\* All other steps are of these kinds.
LEMMA ServeKinds ==
  ASSUME TypeOK, FlowOK, NEW p \in Requests, Serve(p)
  PROVE  Serves(p) \/ UpdateUser(p) \/ ConsumeLoginChallenge(p) \/ ConsumeForPasskey(p)
  BY LoginServes, PasskeyServes, SelfServes, AdminServes, ExternalServes DEF Serve

\* Becomes, read off request by request.
LEMMA BecomesOne ==
  ASSUME ReqTyped, NEW p \in Requests, NEW t \in RequestRecord, Becomes(p, t)
  PROVE  /\ ReqTyped'
         /\ req'[p] = t
         /\ \A q \in Requests : q # p => req'[q] = req[q]
  BY DEF Becomes, ReqTyped

\* users.Update: the request goes on along its path, with its copy where it
\* needs it again and with the sessions it has to end.
LEMMA UpdateEffect ==
  ASSUME TypeOK, FlowOK, NEW p \in Requests, UpdateUser(p), Exists(req[p].user)
  PROVE  \E t \in RequestRecord :
           /\ Becomes(p, t) /\ Flow(t) /\ Keeps(t, req[p])
           /\ \/ t = Done
              \/ /\ t.pc = req[p].next /\ t.pc # "store" /\ t.user = req[p].user /\ t.sid = req[p].sid
                 /\ t.pc \in {"admit", "edit"} => t.copy = req[p].copy
                 /\ t.pc = "revoke"
                    => t.doomed = {s.id : s \in {x \in sessions : x.user = req[p].user}} \ {req[p].sid}
<1>0. ReqTyped /\ Flow(req[p]) /\ req[p] \in RequestRecord /\ req[p].pc = "store"
  BY DEF TypeOK, ReqTyped, FlowOK, UpdateUser, At
<1>1. CASE req[p].next = "done"
  <2>1. Becomes(p, Done)
    BY <1>1 DEF UpdateUser, Becomes
  <2>2. Flow(Done) /\ Keeps(Done, req[p])
    BY DoneTyped DEF Flow, Paths, Keeps, Holding
  <2> QED
    BY <2>1, <2>2, DoneTyped
<1>2. CASE req[p].next # "done"
  <2> DEFINE r == req[p]
             ids == {s.id : s \in {x \in sessions : x.user = r.user}} \ {r.sid}
  <2>1. ids \in SUBSET Nat
    BY DEF TypeOK, TokensTyped
  <2>2. PICK d \in SUBSET Nat : d = IF r.next # "revoke" THEN {} ELSE ids
    BY <2>1
  <2>3. PICK c \in User : c = IF r.next \in {"admit", "edit"} THEN r.copy ELSE Blank
    BY <1>0, BlankTyped DEF RequestRecord
  <2> DEFINE t == [r EXCEPT !.pc = r.next, !.copy = c, !.doomed = d]
  <2>4. Becomes(p, t)
    BY <1>2, <2>2, <2>3 DEF UpdateUser, Becomes
  <2>5. /\ t \in RequestRecord /\ t.pc = r.next /\ t.copy = c /\ t.doomed = d /\ t.op = r.op
        /\ t.user = r.user /\ t.sid = r.sid /\ t.ch = r.ch /\ t.cer = r.cer /\ t.next = r.next
    BY <1>0 DEF RequestRecord
  <2> HIDE DEF t, ids
  <2>6. Flow(t) /\ t.pc # "store"
    BY <1>0, <1>2, <2>2, <2>5 DEF Flow, Paths
  <2>7. Keeps(t, r)
    BY <1>0, <2>5 DEF Keeps, Holding
  <2>8. t.pc \in {"admit", "edit"} => t.copy = r.copy
    BY <2>3, <2>5
  <2>9. t.pc = "revoke" => t.doomed = ids
    BY <2>2, <2>5
  <2> QED
    BY <2>4, <2>5, <2>6, <2>7, <2>8, <2>9 DEF ids
<1> QED
  BY <1>1, <1>2

\* A user that is gone ends the request.
LEMMA UpdateFails ==
  ASSUME TypeOK, FlowOK, NEW p \in Requests, UpdateUser(p), ~Exists(req[p].user)
  PROVE  Serves(p) /\ UNCHANGED <<users, racing>>
<1>0. ReqTyped /\ Flow(req[p])
  BY DEF TypeOK, ReqTyped, FlowOK
<1>1. Goto(p, IF req[p].op = "login" THEN "failed" ELSE "done") /\ UNCHANGED <<users, racing>>
  BY DEF UpdateUser
<1>2. CASE req[p].op = "login"
  BY <1>0, <1>1, <1>2, GotoServes DEF Calls
<1>3. CASE req[p].op # "login"
  BY <1>0, <1>1, <1>3, GotoServes DEF Calls
<1> QED
  BY <1>1, <1>2, <1>3

\* The challenge a code answers, and the one a passkey does.
LEMMA ConsumeEffect ==
  ASSUME TypeOK, FlowOK, NEW p \in Requests
  PROVE  /\ ConsumeLoginChallenge(p)
            => \E c \in logins, t \in RequestRecord :
                 /\ logins' = logins \ {c} /\ Leaves("logins", c) /\ Becomes(p, t) /\ Flow(t) /\ t.pc = "second" /\ t.ch = c.id
         /\ ConsumeForPasskey(p)
            => \/ Serves(p) /\ UNCHANGED <<logins, stale>>
               \/ \E c \in logins, t \in RequestRecord :
                    /\ logins' = logins \ {c} /\ Leaves("logins", c) /\ Becomes(p, t) /\ Flow(t) /\ t.pc = "session" /\ t.ch = c.id
<1>0. ReqTyped /\ Flow(req[p]) /\ req[p] \in RequestRecord
  BY DEF TypeOK, ReqTyped, FlowOK
<1>1. ASSUME ConsumeLoginChallenge(p)
      PROVE  \E c \in logins, t \in RequestRecord :
                 /\ logins' = logins \ {c} /\ Leaves("logins", c) /\ Becomes(p, t) /\ Flow(t) /\ t.pc = "second" /\ t.ch = c.id
  <2>1. PICK c \in logins :
          /\ logins' = logins \ {c} /\ Leaves("logins", c)
          /\ Becomes(p, [Idle EXCEPT !.op = "login2fa", !.pc = "second", !.user = c.user, !.ch = c.id])
    BY <1>1 DEF ConsumeLoginChallenge, Becomes
  <2> DEFINE t == [Idle EXCEPT !.op = "login2fa", !.pc = "second", !.user = c.user, !.ch = c.id]
  <2>2. c.id \in Nat /\ c.user \in Users /\ "login2fa" \in Ops /\ "second" \in Calls
    BY DEF TypeOK, TokensTyped, Ops, Calls
  <2>3. /\ t \in RequestRecord /\ t.op = "login2fa" /\ t.pc = "second" /\ t.ch = c.id /\ t.cer = 0
        /\ t.doomed = {}
    BY <2>2, IdleTyped DEF RequestRecord
  <2> HIDE DEF t
  <2>4. Flow(t)
    BY <2>3 DEF Flow, Paths
  <2> QED
    BY <2>1, <2>3, <2>4 DEF t
<1>2. ASSUME ConsumeForPasskey(p)
      PROVE  \/ Serves(p) /\ UNCHANGED <<logins, stale>>
             \/ \E c \in logins, t \in RequestRecord :
                  /\ logins' = logins \ {c} /\ Leaves("logins", c) /\ Becomes(p, t) /\ Flow(t) /\ t.pc = "session" /\ t.ch = c.id
  <2>0. req[p].op = "passkey2fa" /\ req[p].pc = "consume"
    BY <1>0, <1>2 DEF ConsumeForPasskey, At, Flow, Paths
  <2>1. CASE Goto(p, "cleanup") /\ UNCHANGED <<logins, stale>>
    BY <1>0, <2>0, <2>1, GotoServes DEF Calls
  <2>2. ASSUME NEW c \in logins, c.id = req[p].ch, logins' = logins \ {c}, Leaves("logins", c), Goto(p, "session")
        PROVE  \E t \in RequestRecord :
                 /\ logins' = logins \ {c} /\ Leaves("logins", c) /\ Becomes(p, t) /\ Flow(t) /\ t.pc = "session" /\ t.ch = c.id
    <3>1. PICK t \in RequestRecord : Becomes(p, t) /\ Same(t, req[p]) /\ t.pc = "session"
      BY <1>0, <2>2, GotoEffect DEF Calls
    <3>2. Flow(t)
      BY <1>0, <2>0, <3>1 DEF Flow, Paths, Same
    <3> QED
      BY <2>2, <3>1, <3>2 DEF Same
  <2> QED
    BY <1>2, <2>1, <2>2 DEF ConsumeForPasskey
<1> QED
  BY <1>1, <1>2

\* A restart ends every request.
LEMMA RestartEffect ==
  ASSUME TypeOK, FlowOK, Restart
  PROVE  \A p \in Requests : /\ req'[p] \in RequestRecord /\ req'[p].pc \in {"idle", "done"}
                             /\ Flow(req'[p])
<1> TAKE p \in Requests
<1>1. req[p] \in RequestRecord /\ Flow(req[p])
  BY DEF TypeOK, FlowOK
<1>2. CASE p \in InFlight
  <2>1. req'[p] = Done
    BY <1>2 DEF Restart, Done
  <2> QED
    BY <2>1, DoneTyped DEF Flow, Paths
<1>3. CASE p \notin InFlight
  BY <1>1, <1>3 DEF Restart, InFlight
<1> QED
  BY <1>2, <1>3

\* No step leaves the paths.
LEMMA FlowStep == TypeOK /\ FlowOK /\ [Next]_vars => ReqTyped' /\ FlowOK'
<1> SUFFICES ASSUME TypeOK, FlowOK, [Next]_vars PROVE ReqTyped' /\ FlowOK'
  OBVIOUS
<1>0. ReqTyped
  BY DEF TypeOK, ReqTyped
<1>1. ASSUME NEW p \in Requests, NEW t \in RequestRecord, Becomes(p, t), Flow(t) PROVE ReqTyped' /\ FlowOK'
  <2>1. ReqTyped' /\ req'[p] = t /\ \A q \in Requests : q # p => req'[q] = req[q]
    BY <1>0, <1>1, BecomesOne
  <2> QED
    BY <1>1, <2>1 DEF FlowOK
<1>2. ASSUME NEW p \in Requests, Serve(p) PROVE ReqTyped' /\ FlowOK'
  <2>1. CASE Serves(p)
    BY <1>1, <2>1 DEF Serves
  <2>2. CASE UpdateUser(p)
    <3>1. CASE Exists(req[p].user)
      BY <1>1, <2>2, <3>1, UpdateEffect
    <3>2. CASE ~Exists(req[p].user)
      BY <2>1, <2>2, <3>2, UpdateFails
    <3> QED
      BY <3>1, <3>2
  <2>3. CASE ConsumeLoginChallenge(p) \/ ConsumeForPasskey(p)
    BY <1>1, <2>1, <2>3, ConsumeEffect
  <2> QED
    BY <1>2, <2>1, <2>2, <2>3, ServeKinds
<1>3. CASE UNCHANGED req
  BY <1>0, <1>3 DEF ReqTyped, FlowOK
<1>4. CASE Restart
  <2>1. \A p \in Requests : req'[p] \in RequestRecord /\ Flow(req'[p])
    BY <1>4, RestartEffect
  <2>2. ReqTyped'
    <3>1. req' = [p \in Requests |-> req'[p]]
      BY <1>4 DEF Restart
    <3> QED
      BY <2>1, <3>1 DEF ReqTyped
  <2> QED
    BY <2>1, <2>2 DEF FlowOK
<1> QED
  BY <1>2, <1>3, <1>4 DEF Next, vars, BeginPasskeyLogin, BeginPasskey2FA, BeginPasskeyRegister, SetupTOTP,
     BeginOIDCLogin, AddCeremony, TouchSession

-----------------------------------------------------------------------------
(* Who writes what                                                         *)

Creates == BeginPasskeyLogin \/ BeginPasskey2FA \/ BeginPasskeyRegister \/ SetupTOTP \/ BeginOIDCLogin

\* A step that hands out a token beside the requests.
LEMMA CreatesFrame ==
  Creates => /\ UNCHANGED <<users, roles, sessions, logins, stale, boot, req, spent, restored, revoked, racing>>
             /\ issued' = issued + 1
  BY DEF Creates, BeginPasskeyLogin, BeginPasskey2FA, BeginPasskeyRegister, SetupTOTP, BeginOIDCLogin,
         AddCeremony, NewToken, Fresh, history

\* The calls that write the accounts.
LEMMA AccountsFrame ==
  ASSUME NEW p \in Requests, Serve(p)
  PROVE  \/ UNCHANGED <<users, roles, racing>>
         \/ UpdateUser(p) \/ CreateUser(p) \/ RemoveUser(p) \/ DropRole(p) \/ SaveRole(p)
  BY DEF Serve, history, BeginLogin, BeginBootstrap, VerifyPassword, Admit, RegisterAttempt,
         ConsumeLoginChallenge, SecondFactorCheck, VerifyTOTP, FinishPasskeyLogin, FinishPasskey2FA,
         FinishPasskeyRegister, FinishWith, ConsumeForPasskey, CreatePasskey, DeleteChallenge, BeginSelf,
         BeginEnableTOTP, ReadSelf, EditSelf, Revoke, BeginAdmin, ReadTarget, ProvisionSCIMUser,
         DeactivateSCIMUser, HandleOIDCCallback, DeletePasskey, Logout, CreateSession

\* The calls that write sessions and challenges.
LEMMA TokensFrame ==
  ASSUME NEW p \in Requests, Serve(p)
  PROVE  /\ boot' = boot
         /\ restored' = restored
         /\ \/ UNCHANGED <<sessions, logins, issued, spent, revoked>>
            \/ Admit(p) \/ CreateSession(p) \/ ConsumeLoginChallenge(p) \/ ConsumeForPasskey(p)
            \/ Revoke(p) \/ Logout(p)
  BY DEF Serve, history, tokens, BeginLogin, BeginBootstrap, VerifyPassword, Admit, RegisterAttempt,
         ConsumeLoginChallenge, SecondFactorCheck, VerifyTOTP, FinishPasskeyLogin, FinishPasskey2FA,
         FinishPasskeyRegister, FinishWith, ConsumeForPasskey, CreatePasskey, DeleteChallenge, BeginSelf,
         BeginEnableTOTP, ReadSelf, EditSelf, Revoke, BeginAdmin, ReadTarget, RemoveUser, DropRole,
         ProvisionSCIMUser, DeactivateSCIMUser, HandleOIDCCallback, DeletePasskey, SaveRole, Logout,
         UpdateUser, CreateUser, CreateSession

\* The calls that consume a challenge.
LEMMA CopiesFrame ==
  ASSUME NEW p \in Requests, Serve(p)
  PROVE  \/ ConsumeLoginChallenge(p) \/ ConsumeForPasskey(p) \/ BeginEnableTOTP(p)
         \/ HandleOIDCCallback(p) \/ UNCHANGED <<setups, states, stale>>
  BY DEF Serve, history, tokens, BeginLogin, BeginBootstrap, VerifyPassword, Admit, RegisterAttempt,
         SecondFactorCheck, VerifyTOTP, FinishPasskeyLogin, FinishPasskey2FA, FinishPasskeyRegister,
         FinishWith, CreatePasskey, DeleteChallenge, BeginSelf, ReadSelf, EditSelf, Revoke, BeginAdmin,
         ReadTarget, RemoveUser, DropRole, ProvisionSCIMUser, DeactivateSCIMUser, DeletePasskey, SaveRole,
         Logout, UpdateUser, CreateUser, CreateSession, NewSession

\* With documents in files a consume holds the mutex like every other call.
LEMMA FileStale ==
  ASSUME NEW p \in Requests, Serve(p), ~Postgres
  PROVE  stale' = stale
  BY CopiesFrame DEF ConsumeLoginChallenge, ConsumeForPasskey, BeginEnableTOTP, HandleOIDCCallback,
     ConsumeState, Leaves

\* Only a consumed login challenge adds to the login challenges of the copy.
LEMMA StaleLogins ==
  ASSUME TypeOK, NEW p \in Requests, Serve(p), ~(ConsumeLoginChallenge(p) \/ ConsumeForPasskey(p))
  PROVE  stale'.logins = stale.logins
<1>1. stale \in [logins : SUBSET [id : Nat, user : Users], setups : SUBSET [id : Nat, user : Users],
                 states : SUBSET Nat]
  BY DEF TypeOK, CopiesTyped
<1>2. ASSUME NEW kind \in {"setups", "states"}, NEW c, Leaves(kind, c) PROVE stale'.logins = stale.logins
  BY <1>1, <1>2 DEF Leaves
<1> QED
  BY <1>2, CopiesFrame DEF BeginEnableTOTP, HandleOIDCCallback, ConsumeState

\* A step is a request's, hands out a token, saves an old copy of the sessions
\* document or restarts the process.
LEMMA NextKinds ==
  ASSUME [Next]_vars
  PROVE  (\E p \in Requests : Serve(p)) \/ Creates \/ TouchSession \/ Restart \/ UNCHANGED vars
  BY DEF Next, Creates

-----------------------------------------------------------------------------
(* Types                                                                   *)

\* A record that is stored, removed or seeded leaves user records.
LEMMA AccountsStep == TypeOK /\ [Next]_vars => AccountsTyped'
<1> SUFFICES ASSUME TypeOK, [Next]_vars PROVE AccountsTyped'
  OBVIOUS
<1>0. AccountsTyped /\ req \in [Requests -> RequestRecord]
  BY DEF TypeOK
<1>1. ASSUME NEW p \in Requests, UpdateUser(p) \/ CreateUser(p) \/ RemoveUser(p) PROVE AccountsTyped'
  <2>1. PICK u \in Users, x \in User : u = req[p].user /\ x = req[p].copy
    BY <1>0 DEF RequestRecord
  <2>2. roles' = roles
    BY <1>1 DEF UpdateUser, CreateUser, RemoveUser
  <2>3. \/ users' = users
        \/ u \in DOMAIN users /\ users' = [users EXCEPT ![u] = x]
        \/ users' = [y \in DOMAIN users \cup {u} |-> IF y = u THEN x ELSE users[y]]
        \/ users' = [y \in DOMAIN users \ {u} |-> users[y]]
    BY <1>1, <2>1 DEF UpdateUser, CreateUser, RemoveUser, Exists
  <2>4. CASE users' = users
    BY <1>0, <2>2, <2>4 DEF AccountsTyped
  <2>5. CASE users' = [users EXCEPT ![u] = x]
    BY <1>0, <2>2, <2>5 DEF AccountsTyped
  <2>6. CASE users' = [y \in DOMAIN users \cup {u} |-> IF y = u THEN x ELSE users[y]]
    BY <1>0, <2>2, <2>6 DEF AccountsTyped
  <2>7. CASE users' = [y \in DOMAIN users \ {u} |-> users[y]]
    BY <1>0, <2>2, <2>7 DEF AccountsTyped
  <2> QED
    BY <2>3, <2>4, <2>5, <2>6, <2>7
<1>2. ASSUME NEW p \in Requests, DropRole(p) \/ SaveRole(p) PROVE AccountsTyped'
  <2>1. users' = users
    BY <1>2 DEF DropRole, SaveRole
  <2>2. DOMAIN roles' \subseteq DOMAIN roles \cup {"custom"}
    BY <1>2 DEF DropRole, SaveRole
  <2> QED
    BY <1>0, <2>1, <2>2 DEF AccountsTyped, Roles
<1>3. CASE Restart
  <2>1. DOMAIN roles' \subseteq Roles
    BY <1>0, <1>3 DEF Restart, SeedDefaults, BuiltIn, AccountsTyped, Roles
  <2>2. CASE users' = users
    BY <1>0, <2>1, <2>2 DEF AccountsTyped
  <2>3. CASE users' = [u \in {Admin} |-> [Blank EXCEPT !.active = TRUE, !.roles = {"admin"}]]
    <3>1. [Blank EXCEPT !.active = TRUE, !.roles = {"admin"}] \in User
      BY BlankTyped DEF User, Roles
    <3> QED
      BY <2>1, <2>3, <3>1, AdminAssumption DEF AccountsTyped
  <2> QED
    BY <1>3, <2>2, <2>3 DEF Restart, SeedBootstrap
<1>4. CASE UNCHANGED <<users, roles>>
  BY <1>0, <1>4 DEF AccountsTyped
<1> QED
  BY <1>1, <1>2, <1>3, <1>4, NextKinds, AccountsFrame, CreatesFrame DEF vars, TouchSession

SessionRecord == [id : Nat, user : Users, boot : Nat, plain : BOOLEAN, by : Requests \cup {"before"}]
Ceremony == [id : Nat, kind : {"login", "register"}, user : Users \cup {Anyone}, ref : Nat]
            \cup [id : Nat, kind : {"2fa"}, user : Users, ref : Nat]

\* A new session, as its request made it.
LEMMA NewSessionEffect ==
  ASSUME TypeOK, NEW p \in Requests, NewSession(p)
  PROVE  \E s \in SessionRecord :
           /\ sessions' = sessions \cup {s} /\ s.id = issued + 1 /\ issued' = issued + 1
           /\ s.user = req[p].user /\ s.boot = boot /\ s.by = p
           /\ s.plain <=> req[p].op \in {"login", "passkeyLogin"}
           /\ UNCHANGED <<logins, ceremonies>>
<1> DEFINE b == req[p].op \in {"login", "passkeyLogin"}
           s == [id |-> issued + 1, user |-> req[p].user, boot |-> boot, plain |-> b, by |-> p]
<1>1. issued + 1 \in Nat /\ boot \in Nat /\ req[p].user \in Users
  BY DEF TypeOK, TokensTyped, RequestRecord
<1>2. b \in BOOLEAN
  OBVIOUS
<1>3. sessions' = sessions \cup {s} /\ issued' = issued + 1 /\ UNCHANGED <<logins, ceremonies>>
  BY DEF NewSession, NewToken, Fresh
<1> HIDE DEF b
<1>4. s \in SessionRecord
  BY <1>1, <1>2 DEF SessionRecord
<1>5. s.plain <=> b
  OBVIOUS
<1> QED
  BY <1>3, <1>4, <1>5 DEF b

\* Sessions, challenges and ceremonies are made from typed requests.
LEMMA TokensStep == TypeOK /\ [Next]_vars => TokensTyped'
<1> SUFFICES ASSUME TypeOK, [Next]_vars PROVE TokensTyped'
  OBVIOUS
<1>0. /\ sessions \subseteq SessionRecord /\ logins \subseteq [id : Nat, user : Users]
      /\ ceremonies \subseteq Ceremony /\ issued \in Nat /\ boot \in Nat
  BY DEF TypeOK, TokensTyped, SessionRecord, Ceremony
<1>1. SUFFICES /\ sessions' \subseteq SessionRecord /\ logins' \subseteq [id : Nat, user : Users]
               /\ ceremonies' \subseteq Ceremony /\ issued' \in Nat /\ boot' \in Nat
  BY DEF TokensTyped, SessionRecord, Ceremony
<1> DEFINE Good == /\ sessions' \subseteq SessionRecord /\ logins' \subseteq [id : Nat, user : Users]
                   /\ issued' \in Nat /\ boot' \in Nat
<1>2. ASSUME NEW p \in Requests, Admit(p) \/ CreateSession(p) PROVE Good
  <2>1. boot' = boot
    BY <1>2 DEF Admit, CreateSession
  <2>2. CASE NewSession(p)
    BY <1>0, <2>1, <2>2, NewSessionEffect
  <2>3. CASE /\ issued' = issued + 1 /\ UNCHANGED sessions
             /\ logins' = logins \cup {[id |-> issued + 1, user |-> req[p].user]}
    <3>1. req[p].user \in Users
      BY DEF TypeOK, RequestRecord
    <3> QED
      BY <1>0, <2>1, <2>3, <3>1
  <2> QED
    BY <1>2, <2>2, <2>3 DEF Admit, CreateSession, NewToken, Fresh
<1>3. ASSUME NEW p \in Requests, Revoke(p) \/ Logout(p) \/ ConsumeLoginChallenge(p) \/ ConsumeForPasskey(p)
      PROVE  Good
  BY <1>0, <1>3 DEF Revoke, Logout, ConsumeLoginChallenge, ConsumeForPasskey, DeleteSessionsByUser
<1>4. ASSUME Restart \/ TouchSession PROVE Good
  <2>1. stale.logins \subseteq [id : Nat, user : Users]
    BY DEF TypeOK, CopiesTyped
  <2> QED
    BY <1>0, <1>4, <2>1 DEF Restart, TouchSession
<1>5. ASSUME Creates PROVE Good
  <2>1. sessions' = sessions /\ logins' = logins /\ boot' = boot /\ issued' = issued + 1
    BY <1>5, CreatesFrame
  <2> QED
    BY <1>0, <2>1
<1>6. Good
  <2>1. CASE UNCHANGED <<sessions, logins, issued, boot>>
    BY <1>0, <2>1
  <2> QED
    BY <1>2, <1>3, <1>4, <1>5, <2>1, NextKinds, TokensFrame DEF vars, tokens
<1>7. ceremonies' \subseteq Ceremony
  <2>1. CASE Creates
    <3>1. ASSUME NEW kind, NEW u, NEW ref \in Nat, AddCeremony(kind, u, ref),
                 \/ kind \in {"login", "register"} /\ u \in Users \cup {Anyone}
                 \/ kind = "2fa" /\ u \in Users
          PROVE  ceremonies' \subseteq Ceremony
      BY <1>0, <3>1 DEF AddCeremony, Fresh, Ceremony
    <3>2. CASE BeginPasskeyLogin
      BY <3>1, <3>2 DEF BeginPasskeyLogin
    <3>3. CASE BeginPasskey2FA
      <4>1. PICK c \in logins : AddCeremony("2fa", c.user, c.id)
        BY <3>3 DEF BeginPasskey2FA
      <4>2. c.user \in Users /\ c.id \in Nat
        BY <1>0
      <4> QED
        BY <3>1, <4>1, <4>2
    <3>4. CASE BeginPasskeyRegister
      <4>1. PICK s \in sessions : AddCeremony("register", s.user, 0)
        BY <3>4 DEF BeginPasskeyRegister
      <4>2. s.user \in Users
        BY <1>0 DEF SessionRecord
      <4> QED
        BY <3>1, <4>1, <4>2
    <3>5. CASE SetupTOTP \/ BeginOIDCLogin
      BY <1>0, <3>5 DEF SetupTOTP, BeginOIDCLogin
    <3> QED
      BY <2>1, <3>2, <3>3, <3>4, <3>5 DEF Creates
  <2>2. ASSUME NEW p \in Requests, Serve(p) PROVE ceremonies' \subseteq Ceremony
    <3>1. CASE ceremonies' \subseteq ceremonies
      BY <1>0, <3>1
    <3> QED
      BY <2>2, <3>1
      DEF Serve, history, tokens, BeginLogin, BeginBootstrap, VerifyPassword, Admit, RegisterAttempt,
         ConsumeLoginChallenge, SecondFactorCheck, VerifyTOTP, FinishPasskeyLogin, FinishPasskey2FA,
         FinishPasskeyRegister, FinishWith, ConsumeForPasskey, CreatePasskey, DeleteChallenge, BeginSelf,
         BeginEnableTOTP, ReadSelf, EditSelf, Revoke, BeginAdmin, ReadTarget, RemoveUser, DropRole,
         ProvisionSCIMUser, DeactivateSCIMUser, HandleOIDCCallback, DeletePasskey, SaveRole, Logout,
         UpdateUser, CreateUser, CreateSession, NewSession
  <2>3. CASE Restart \/ TouchSession \/ UNCHANGED vars
    BY <1>0, <2>3 DEF Restart, TouchSession, tokens, vars
  <2> QED
    BY <2>1, <2>2, <2>3, NextKinds
<1> QED
  BY <1>6, <1>7

\* The other challenges of the sessions document, and the copy of it that a
\* call under the mutex holds.
LEMMA CopiesStep == TypeOK /\ [Next]_vars => CopiesTyped'
<1> SUFFICES ASSUME TypeOK, [Next]_vars PROVE CopiesTyped'
  OBVIOUS
<1> DEFINE L == [id : Nat, user : Users]
<1>0. /\ logins \subseteq L /\ setups \subseteq L /\ states \subseteq Nat /\ issued \in Nat
      /\ stale \in [logins : SUBSET L, setups : SUBSET L, states : SUBSET Nat]
      /\ \A s \in sessions : s.user \in Users
  BY DEF TypeOK, TokensTyped, CopiesTyped
<1>1. NoneStale \in [logins : SUBSET L, setups : SUBSET L, states : SUBSET Nat]
  BY DEF NoneStale
<1> HIDE DEF L
<1>2. SUFFICES /\ setups' \subseteq L /\ states' \subseteq Nat
               /\ stale' \in [logins : SUBSET L, setups : SUBSET L, states : SUBSET Nat]
  BY DEF CopiesTyped, L
<1>3. CASE UNCHANGED <<setups, states, stale>>
  BY <1>0, <1>3
<1>4. ASSUME NEW p \in Requests, ConsumeLoginChallenge(p) \/ ConsumeForPasskey(p)
      PROVE  /\ setups' \subseteq L /\ states' \subseteq Nat
             /\ stale' \in [logins : SUBSET L, setups : SUBSET L, states : SUBSET Nat]
  <2>1. UNCHANGED <<setups, states>>
    BY <1>4 DEF ConsumeLoginChallenge, ConsumeForPasskey
  <2>2. stale' = stale \/ \E c \in logins : stale' = [stale EXCEPT !["logins"] = @ \cup {c}]
    BY <1>4 DEF ConsumeLoginChallenge, ConsumeForPasskey, Leaves
  <2> QED
    BY <1>0, <2>1, <2>2
<1>5. ASSUME NEW p \in Requests, BeginEnableTOTP(p)
      PROVE  /\ setups' \subseteq L /\ states' \subseteq Nat
             /\ stale' \in [logins : SUBSET L, setups : SUBSET L, states : SUBSET Nat]
  <2>1. states' = states /\ setups' \subseteq setups
    BY <1>5 DEF BeginEnableTOTP
  <2>2. stale' = stale \/ \E c \in setups : stale' = [stale EXCEPT !["setups"] = @ \cup {c}]
    BY <1>5 DEF BeginEnableTOTP, Leaves
  <2> QED
    BY <1>0, <2>1, <2>2
<1>6. ASSUME NEW p \in Requests, HandleOIDCCallback(p)
      PROVE  /\ setups' \subseteq L /\ states' \subseteq Nat
             /\ stale' \in [logins : SUBSET L, setups : SUBSET L, states : SUBSET Nat]
  <2>1. setups' = setups /\ states' \subseteq states
    BY <1>6 DEF HandleOIDCCallback, ConsumeState
  <2>2. stale' = stale \/ \E c \in states : stale' = [stale EXCEPT !["states"] = @ \cup {c}]
    BY <1>6 DEF HandleOIDCCallback, ConsumeState, Leaves
  <2> QED
    BY <1>0, <2>1, <2>2
<1>7. CASE SetupTOTP
  <2>1. PICK s \in sessions : setups' = ReplaceSetup(s.user, issued + 1) /\ UNCHANGED <<states, stale>>
    BY <1>7 DEF SetupTOTP, Fresh
  <2>2. [id |-> issued + 1, user |-> s.user] \in L
    BY <1>0 DEF L
  <2>3. setups' \subseteq setups \cup {[id |-> issued + 1, user |-> s.user]}
    BY <2>1 DEF ReplaceSetup
  <2> QED
    BY <1>0, <2>1, <2>2, <2>3
<1>8. CASE BeginOIDCLogin
  BY <1>0, <1>8 DEF BeginOIDCLogin, Fresh
<1>9. CASE TouchSession \/ Restart
  <2>1. setups' \subseteq L /\ states' \subseteq Nat
    BY <1>0, <1>9 DEF TouchSession, Restart
  <2>2. stale' = NoneStale
    BY <1>9 DEF TouchSession, Restart
  <2> QED
    BY <1>1, <2>1, <2>2
<1>10. CASE BeginPasskeyLogin \/ BeginPasskey2FA \/ BeginPasskeyRegister
  BY <1>3, <1>10 DEF BeginPasskeyLogin, BeginPasskey2FA, BeginPasskeyRegister, AddCeremony
<1> QED
  BY <1>3, <1>4, <1>5, <1>6, <1>7, <1>8, <1>9, <1>10, NextKinds, CopiesFrame DEF Creates, vars, tokens

\* The history refers to tokens and requests.
LEMMA HistoryStep == TypeOK /\ [Next]_vars => HistoryTyped'
<1> SUFFICES ASSUME TypeOK, [Next]_vars PROVE HistoryTyped'
  OBVIOUS
<1>0. /\ spent \subseteq Nat \X Nat /\ restored \subseteq Nat /\ revoked \subseteq Nat
      /\ racing \in [Users -> SUBSET Requests] /\ issued \in Nat /\ req \in [Requests -> RequestRecord]
  BY DEF TypeOK, TokensTyped, HistoryTyped
<1>1. spent' \subseteq Nat \X Nat
  <2>1. ASSUME NEW p \in Requests, CreateSession(p) PROVE spent' \subseteq Nat \X Nat
    <3>1. req[p].ch \in Nat
      BY <1>0 DEF RequestRecord
    <3> QED
      BY <1>0, <2>1, <3>1 DEF CreateSession, Fresh
  <2>2. CASE spent' = spent
    BY <1>0, <2>2
  <2> QED
    BY <2>1, <2>2, NextKinds, TokensFrame, CreatesFrame
       DEF vars, history, Restart, TouchSession, Admit, ConsumeLoginChallenge, ConsumeForPasskey, Revoke, Logout
<1>2. revoked' \subseteq Nat
  <2>1. \A p \in Requests : req[p].doomed \subseteq Nat
    BY <1>0 DEF RequestRecord
  <2>2. ASSUME NEW p \in Requests, Revoke(p) PROVE revoked' \subseteq Nat
    BY <1>0, <2>1, <2>2 DEF Revoke
  <2>3. CASE Restart
    BY <1>0, <2>1, <2>3 DEF Restart
  <2>4. CASE revoked' = revoked
    BY <1>0, <2>4
  <2> QED
    BY <2>2, <2>3, <2>4, NextKinds, TokensFrame, CreatesFrame
       DEF vars, history, TouchSession, Admit, ConsumeLoginChallenge, ConsumeForPasskey, CreateSession, Logout
<1>3. racing' \in [Users -> SUBSET Requests]
  <2>1. ASSUME NEW p \in Requests, UpdateUser(p) PROVE racing' \in [Users -> SUBSET Requests]
    BY <1>0, <2>1 DEF UpdateUser, InFlight
  <2>2. CASE racing' = racing
    BY <1>0, <2>2
  <2> QED
    BY <2>1, <2>2, NextKinds, AccountsFrame, CreatesFrame
       DEF vars, history, Restart, TouchSession, CreateUser, RemoveUser, DropRole, SaveRole
<1>4. restored' \subseteq Nat
  <2>1. CASE TouchSession
    <3>1. stale.logins \subseteq [id : Nat, user : Users]
      BY DEF TypeOK, CopiesTyped
    <3>2. {c.id : c \in stale.logins} \subseteq Nat
      BY <3>1
    <3> QED
      BY <1>0, <2>1, <3>2 DEF TouchSession
  <2>2. CASE restored' = restored
    BY <1>0, <2>2
  <2> QED
    BY <2>1, <2>2, NextKinds, TokensFrame, CreatesFrame DEF vars, history, Restart
<1> QED
  BY <1>1, <1>2, <1>3, <1>4 DEF HistoryTyped

\* One user for each of the first sessions, with different numbers.
LEMMA FirstSessions ==
  ASSUME Init
  PROVE  \E n \in Nat : \E f \in [1..n -> DOMAIN users], w \in SUBSET (1..n) :
           /\ n + 2 <= issued
           /\ sessions = {[id |-> i, user |-> f[i], boot |-> boot, plain |-> FALSE, by |-> "before"] : i \in 1..n}
           /\ logins = {[id |-> n + 1, user |-> f[i]] : i \in w}
           /\ ceremonies = {[id |-> n + 2, kind |-> "2fa", user |-> f[i], ref |-> n + 1] : i \in w}
           /\ \A i, j \in w : i = j
<1> DEFINE D == DOMAIN users
           n == Cardinality(D)
           Inj(g) == \A i, j \in DOMAIN g : g[i] = g[j] => i = j
           f == CHOOSE g \in [1..n -> D] : Inj(g)
           w == {i \in DOMAIN f : users[f[i]].totp /\ \A j \in 1..(i - 1) : ~users[f[j]].totp}
<1>1. D = {} \/ D = Users
  <2>1. users = << >> \/ \E x : users = [u \in Users |-> x[u]]
    <3> DEFINE r(u) == [Blank EXCEPT !.active = TRUE,
                          !.roles = IF u = Admin THEN {"admin"} ELSE {"custom"},
                          !.legacy = IF u = Admin THEN {} ELSE {"password", "secret"},
                          !.totp = u # Admin, !.codes = IF u = Admin THEN {} ELSE Codes]
               g == [u \in Users |-> r(u)]
    <3>1. users = << >> \/ users = g
      BY DEF Init, InitUsers
    <3> HIDE DEF r
    <3>2. g = [u \in Users |-> g[u]]
      OBVIOUS
    <3> QED
      BY <3>1, <3>2
  <2> QED
    BY <2>1
<1>2. IsFiniteSet(D) /\ n \in Nat /\ n <= Cardinality(Users) /\ Cardinality(Users) \in Nat
  BY <1>1, NamesAssumption, FS_EmptySet, FS_CardinalityType
<1>3. \E g \in [1..n -> D] : Inj(g)
  <2>1. ExistsBijection(1..n, D)
    BY <1>2, FS_NatBijection, FS_CountingElements, FS_CardinalityType
  <2> QED
    BY <2>1 DEF ExistsBijection, Bijection, Injection, IsInjective
<1>4. f \in [1..n -> D]
  BY <1>3
<1> HIDE DEF f
<1>5. DOMAIN f = 1..n /\ w \in SUBSET (1..n)
  BY <1>4
<1>6. Cardinality(DOMAIN f) = n
  BY <1>2, <1>5, FS_Interval
<1>7. /\ issued = Cardinality(Users) + 2
      /\ sessions = {[id |-> i, user |-> f[i], boot |-> boot, plain |-> FALSE, by |-> "before"] : i \in 1..n}
      /\ logins = {[id |-> n + 1, user |-> f[i]] : i \in w}
      /\ ceremonies = {[id |-> n + 2, kind |-> "2fa", user |-> f[i], ref |-> n + 1] : i \in w}
  BY <1>5, <1>6 DEF Init, f
<1>8. \A i, j \in w : i = j
  <2> SUFFICES ASSUME NEW i \in w, NEW j \in w, i < j PROVE FALSE
    BY <1>2, <1>5
  <2>1. i \in 1..(j - 1) /\ users[f[i]].totp
    BY <1>2, <1>5
  <2> QED
    BY <2>1
<1>9. n + 2 <= issued
  BY <1>2, <1>7
<1> HIDE DEF n, w
<1> QED
  BY <1>2, <1>4, <1>5, <1>7, <1>8, <1>9

\* Every variable has its type at first.
LEMMA TypeInit == Init => TypeOK
<1> SUFFICES ASSUME Init PROVE TypeOK
  OBVIOUS
<1>1. AccountsTyped
  <2> DEFINE r(u) == [Blank EXCEPT !.active = TRUE,
                        !.roles = IF u = Admin THEN {"admin"} ELSE {"custom"},
                        !.legacy = IF u = Admin THEN {} ELSE {"password", "secret"},
                        !.totp = u # Admin, !.codes = IF u = Admin THEN {} ELSE Codes]
  <2>1. ASSUME NEW u \in Users PROVE r(u) \in User
    <3>1. PICK b \in BOOLEAN : b = (u # Admin)
      OBVIOUS
    <3>2. PICK rs \in SUBSET Roles, old \in SUBSET {"password", "secret"}, cs \in SUBSET Codes :
            /\ rs = IF u = Admin THEN {"admin"} ELSE {"custom"}
            /\ old = IF u = Admin THEN {} ELSE {"password", "secret"}
            /\ cs = IF u = Admin THEN {} ELSE Codes
      BY DEF Roles
    <3>3. [Blank EXCEPT !.active = TRUE, !.roles = rs, !.legacy = old, !.totp = b, !.codes = cs] \in User
      BY BlankTyped DEF User
    <3> QED
      BY <3>1, <3>2, <3>3
  <2>2. \A u \in DOMAIN users : u \in Users /\ users[u] \in User
    <3>1. users = << >> \/ users = [u \in Users |-> r(u)]
      BY DEF Init, InitUsers
    <3> HIDE DEF r
    <3>2. CASE users = << >>
      BY <3>2
    <3>3. CASE users = [u \in Users |-> r(u)]
      BY <2>1, <3>3
    <3> QED
      BY <3>1, <3>2, <3>3
  <2>3. DOMAIN roles \subseteq Roles
    BY DEF Init
  <2> QED
    BY <2>2, <2>3 DEF AccountsTyped
<1>2. TokensTyped
  <2>1. PICK n \in Nat : \E f \in [1..n -> DOMAIN users], w \in SUBSET (1..n) :
           /\ n + 2 <= issued
           /\ sessions = {[id |-> i, user |-> f[i], boot |-> boot, plain |-> FALSE, by |-> "before"] : i \in 1..n}
           /\ logins = {[id |-> n + 1, user |-> f[i]] : i \in w}
           /\ ceremonies = {[id |-> n + 2, kind |-> "2fa", user |-> f[i], ref |-> n + 1] : i \in w}
    BY FirstSessions
  <2>2. PICK f \in [1..n -> DOMAIN users], w \in SUBSET (1..n) :
           /\ n + 2 <= issued
           /\ sessions = {[id |-> i, user |-> f[i], boot |-> boot, plain |-> FALSE, by |-> "before"] : i \in 1..n}
           /\ logins = {[id |-> n + 1, user |-> f[i]] : i \in w}
           /\ ceremonies = {[id |-> n + 2, kind |-> "2fa", user |-> f[i], ref |-> n + 1] : i \in w}
    BY <2>1
  <2>3. \A i \in 1..n : f[i] \in Users
    BY <1>1 DEF AccountsTyped
  <2>4. boot = 1 /\ issued = Cardinality(Users) + 2 /\ Cardinality(Users) \in Nat
    BY NamesAssumption, FS_CardinalityType DEF Init
  <2>5. sessions \subseteq SessionRecord
    <3> SUFFICES ASSUME NEW i \in 1..n
                 PROVE  [id |-> i, user |-> f[i], boot |-> boot, plain |-> FALSE, by |-> "before"] \in SessionRecord
      BY <2>2
    <3>1. PICK b \in BOOLEAN, z \in Requests \cup {"before"} : b = FALSE /\ z = "before"
      OBVIOUS
    <3>2. PICK v \in Users, k \in Nat : v = f[i] /\ k = boot
      BY <2>3, <2>4
    <3>3. [id |-> i, user |-> v, boot |-> k, plain |-> b, by |-> z] \in SessionRecord
      BY DEF SessionRecord
    <3> QED
      BY <3>1, <3>2, <3>3
  <2>6. logins \subseteq [id : Nat, user : Users]
    BY <2>2, <2>3
  <2>7. ceremonies \subseteq Ceremony
    BY <2>2, <2>3 DEF Ceremony
  <2> QED
    BY <2>4, <2>5, <2>6, <2>7 DEF TokensTyped, SessionRecord, Ceremony
<1>3. HistoryTyped
  BY DEF Init, HistoryTyped
<1>4. req \in [Requests -> RequestRecord]
  BY IdleTyped DEF Init
<1>5. CopiesTyped
  BY DEF Init, CopiesTyped, NoneStale
<1> QED
  BY <1>1, <1>2, <1>3, <1>4, <1>5 DEF TypeOK

\* Requests have not begun at first.
LEMMA FlowInit == Init => FlowOK
  BY IdleTyped DEF Init, FlowOK, Flow, Paths

\* The parts together.
LEMMA TypeStep == TypeOK /\ FlowOK /\ [Next]_vars => TypeOK' /\ FlowOK'
  BY AccountsStep, TokensStep, CopiesStep, HistoryStep, FlowStep DEF TypeOK, ReqTyped

\* Every variable of the account services keeps its type, and every request
\* the path of its kind.
THEOREM TypeCorrect == Spec => [](TypeOK /\ FlowOK)
  BY TypeInit, FlowInit, TypeStep, PTL DEF Spec

-----------------------------------------------------------------------------
(* Login challenges                                                        *)

\* A step that consumes nothing and lets nobody in; a challenge it brings back
\* is remembered.
LEMMA ChallengesFrame ==
  ASSUME TypeOK, ChallengesOK, issued' \in Nat, issued' >= issued, spent' = spent,
         Copies' \subseteq Copies, restored \subseteq restored',
         \A c \in logins' : c \in logins \/ c.id \in restored',
         \A q \in Requests : Keeps(req'[q], req[q])
  PROVE  ChallengesOK'
<1>0. issued \in Nat /\ (\A c \in Copies : c.id \in Nat) /\ (\A a \in spent : a[1] \in Nat)
  BY DEF TypeOK, TokensTyped, CopiesTyped, HistoryTyped, Copies
<1>1. \A q \in Requests : req[q].ch \in Nat
  BY DEF TypeOK, RequestRecord
<1>2. IdsOK'
  BY <1>0 DEF ChallengesOK, IdsOK
<1>3. SpentOK'
  <2>1. ASSUME NEW a \in spent
        PROVE  /\ a[1] <= issued'
               /\ \A c \in logins' : c.id = a[1] => a[1] \in restored'
               /\ \A b \in spent : a[1] = b[1] => a = b \/ a[1] \in restored'
    BY <1>0, <2>1 DEF ChallengesOK, SpentOK
  <2> QED
    BY <2>1 DEF SpentOK
<1>4. ASSUME NEW p \in Requests, Holding(req'[p]) PROVE HeldOK(p)'
  <2>1. Holding(req[p]) /\ req'[p].ch = req[p].ch
    BY <1>4 DEF Keeps
  <2>2. HeldOK(p)
    BY <2>1 DEF ChallengesOK
  <2>3. \A q \in Requests : Holding(req'[q]) => Holding(req[q]) /\ req'[q].ch = req[q].ch
    BY DEF Keeps
  <2> QED
    BY <1>0, <1>1, <2>1, <2>2, <2>3 DEF HeldOK
<1> QED
  BY <1>2, <1>3, <1>4 DEF ChallengesOK

\* A step of one request changes what the others carry by nothing.
LEMMA ServedOthers ==
  ASSUME TypeOK, NEW p \in Requests, NEW t \in RequestRecord, Becomes(p, t), Keeps(t, req[p])
  PROVE  \A q \in Requests : Keeps(req'[q], req[q])
<1>1. ReqTyped
  BY DEF TypeOK, ReqTyped
<1>2. req'[p] = t /\ \A q \in Requests : q # p => req'[q] = req[q]
  BY <1>1, BecomesOne
<1> QED
  BY <1>2 DEF Keeps

\* A consumed challenge stays at most in the copy of the call that holds the
\* mutex.
LEMMA ConsumedCopies ==
  ASSUME TypeOK, NEW c \in logins, logins' = logins \ {c}, Leaves("logins", c)
  PROVE  Copies' \subseteq Copies
<1>1. stale \in [logins : SUBSET [id : Nat, user : Users], setups : SUBSET [id : Nat, user : Users],
                 states : SUBSET Nat]
  BY DEF TypeOK, CopiesTyped
<1>2. stale'.logins \subseteq stale.logins \cup {c}
  BY <1>1 DEF Leaves
<1> QED
  BY <1>2 DEF Copies

\* A consumed challenge goes from the store to one request.
LEMMA ChallengeConsumed ==
  ASSUME TypeOK, ChallengesOK, NEW p \in Requests, NEW c \in logins, NEW t \in RequestRecord,
         logins' = logins \ {c}, Leaves("logins", c), Becomes(p, t), t.ch = c.id,
         UNCHANGED <<issued, spent, restored>>
  PROVE  ChallengesOK'
<1>0. ReqTyped /\ c.id \in Nat /\ c \in Copies
  BY DEF TypeOK, ReqTyped, TokensTyped, Copies
<1>1. req'[p] = t /\ \A q \in Requests : q # p => req'[q] = req[q]
  BY <1>0, BecomesOne
<1>2. /\ c.id <= issued
      /\ \A d \in logins' : d.id # c.id
      /\ \A a \in spent : a[1] = c.id => c.id \in restored
      /\ \A q \in Requests : Holding(req[q]) /\ req[q].ch = c.id => c.id \in restored
  BY <1>0 DEF ChallengesOK, IdsOK, SpentOK, HeldOK, Copies
<1>3. IdsOK'
  BY ConsumedCopies DEF ChallengesOK, IdsOK
<1>4. SpentOK'
  BY DEF ChallengesOK, SpentOK
<1>5. ASSUME NEW r \in Requests, Holding(req'[r]) PROVE HeldOK(r)'
  <2>1. CASE r = p
    <3>1. req'[r].ch = c.id
      BY <1>1, <2>1
    <3>2. \A q \in Requests : Holding(req'[q]) /\ req'[q].ch = c.id => q = r \/ c.id \in restored
      BY <1>1, <1>2, <2>1
    <3> QED
      BY <1>2, <3>1, <3>2 DEF HeldOK
  <2>2. CASE r # p
    <3>1. req'[r] = req[r] /\ Holding(req[r]) /\ HeldOK(r)
      BY <1>1, <1>5, <2>2 DEF ChallengesOK
    <3>2. \A q \in Requests : Holding(req'[q]) /\ req'[q].ch = req[r].ch => q = r \/ req[r].ch \in restored
      <4> SUFFICES ASSUME NEW q \in Requests, Holding(req'[q]), req'[q].ch = req[r].ch
                   PROVE  q = r \/ req[r].ch \in restored
        OBVIOUS
      <4>1. CASE q = p
        BY <1>1, <1>2, <3>1, <4>1
      <4>2. CASE q # p
        BY <1>1, <3>1, <4>2 DEF HeldOK
      <4> QED
        BY <4>1, <4>2
    <3> QED
      BY <3>1, <3>2 DEF HeldOK
  <2> QED
    BY <2>1, <2>2
<1> QED
  BY <1>3, <1>4, <1>5 DEF ChallengesOK

\* A new challenge has a new number.
LEMMA ChallengeAdded ==
  ASSUME TypeOK, ChallengesOK, NEW n, n.id = issued + 1, logins' = logins \cup {n}, issued' = issued + 1,
         UNCHANGED <<stale, spent, restored>>, \A q \in Requests : Keeps(req'[q], req[q])
  PROVE  ChallengesOK'
<1>0. issued \in Nat /\ (\A c \in Copies : c.id \in Nat /\ c.id <= issued)
  BY DEF TypeOK, TokensTyped, CopiesTyped, ChallengesOK, IdsOK, Copies
<1>1. \A a \in spent : a[1] \in Nat /\ a[1] <= issued
  BY DEF TypeOK, HistoryTyped, ChallengesOK, SpentOK
<1>2. IdsOK'
  <2>1. Copies' = Copies \cup {n}
    BY DEF Copies
  <2> QED
    BY <1>0, <2>1 DEF ChallengesOK, IdsOK
<1>3. SpentOK'
  <2>1. ASSUME NEW a \in spent
        PROVE  /\ a[1] <= issued'
               /\ \A c \in logins' : c.id = a[1] => a[1] \in restored
               /\ \A b \in spent : a[1] = b[1] => a = b \/ a[1] \in restored
    BY <1>0, <1>1, <2>1 DEF ChallengesOK, SpentOK
  <2> QED
    BY <2>1 DEF SpentOK
<1>4. ASSUME NEW r \in Requests, Holding(req'[r]) PROVE HeldOK(r)'
  <2>1. Holding(req[r]) /\ req'[r].ch = req[r].ch /\ HeldOK(r)
    BY <1>4 DEF Keeps, ChallengesOK
  <2>2. req[r].ch \in Nat /\ req[r].ch <= issued
    BY <2>1 DEF HeldOK, TypeOK, RequestRecord
  <2>3. \A q \in Requests : Holding(req'[q]) => Holding(req[q]) /\ req'[q].ch = req[q].ch
    BY DEF Keeps
  <2> QED
    BY <1>0, <2>1, <2>2, <2>3 DEF HeldOK
<1> QED
  BY <1>2, <1>3, <1>4 DEF ChallengesOK

\* A challenge that lets its request in is used up with it.
LEMMA ChallengeSpent ==
  ASSUME TypeOK, ChallengesOK, NEW p \in Requests, Holding(req[p]), ~Holding(req'[p]),
         NEW n, n[1] = req[p].ch, spent' = spent \cup {n}, issued' = issued + 1,
         UNCHANGED <<logins, stale, restored>>, \A q \in Requests : Keeps(req'[q], req[q])
  PROVE  ChallengesOK'
<1>0. issued \in Nat /\ (\A c \in Copies : c.id \in Nat /\ c.id <= issued)
  BY DEF TypeOK, TokensTyped, CopiesTyped, ChallengesOK, IdsOK, Copies
<1>1. \A a \in spent : a[1] \in Nat /\ a[1] <= issued
  BY DEF TypeOK, HistoryTyped, ChallengesOK, SpentOK
<1>2. HeldOK(p) /\ req[p].ch \in Nat /\ req[p].ch <= issued
  BY DEF ChallengesOK, HeldOK, TypeOK, RequestRecord
<1>3. IdsOK'
  BY <1>0 DEF ChallengesOK, IdsOK, Copies
<1>4. SpentOK'
  <2> SUFFICES ASSUME NEW a \in spent'
               PROVE  /\ a[1] <= issued'
                      /\ \A c \in logins : c.id = a[1] => a[1] \in restored
                      /\ \A b \in spent' : a[1] = b[1] => a = b \/ a[1] \in restored
    BY DEF SpentOK
  <2>1. CASE a = n
    BY <1>0, <1>2, <2>1 DEF HeldOK
  <2>2. CASE a \in spent
    BY <1>0, <1>1, <1>2, <2>2 DEF HeldOK, ChallengesOK, SpentOK
  <2> QED
    BY <2>1, <2>2
<1>5. ASSUME NEW r \in Requests, Holding(req'[r]) PROVE HeldOK(r)'
  <2>1. Holding(req[r]) /\ req'[r].ch = req[r].ch /\ r # p /\ HeldOK(r)
    BY <1>5 DEF Keeps, ChallengesOK
  <2>2. req[r].ch \in Nat /\ req[r].ch <= issued
    BY <2>1 DEF HeldOK, TypeOK, RequestRecord
  <2>3. \A q \in Requests : Holding(req'[q]) => Holding(req[q]) /\ req'[q].ch = req[q].ch
    BY DEF Keeps
  <2>4. req[r].ch = req[p].ch => req[r].ch \in restored
    BY <2>1, <1>2 DEF HeldOK
  <2> QED
    BY <1>0, <2>1, <2>2, <2>3, <2>4 DEF HeldOK
<1> QED
  BY <1>3, <1>4, <1>5 DEF ChallengesOK

\* No challenge is consumed twice unless it was brought back.
LEMMA ChallengesStep == TypeOK /\ FlowOK /\ ChallengesOK /\ [Next]_vars => ChallengesOK'
<1> SUFFICES ASSUME TypeOK, FlowOK, ChallengesOK, [Next]_vars PROVE ChallengesOK'
  OBVIOUS
<1>0. ReqTyped /\ issued \in Nat
  BY DEF TypeOK, ReqTyped, TokensTyped
<1>1. ASSUME NEW p \in Requests, Admit(p) PROVE ChallengesOK'
  <2>1. Serves(p) /\ spent' = spent /\ restored' = restored /\ stale' = stale
    BY <1>1, LoginServes DEF Admit, NewSession, history
  <2>2. \A q \in Requests : Keeps(req'[q], req[q])
    BY <2>1, ServedOthers DEF Serves
  <2>3. CASE NewSession(p)
    BY <1>0, <2>1, <2>2, <2>3, ChallengesFrame DEF NewSession, NewToken, Fresh, Copies
  <2>4. CASE issued' = issued + 1 /\ logins' = logins \cup {[id |-> issued + 1, user |-> req[p].user]}
    <3>1. PICK n : n = [id |-> issued + 1, user |-> req[p].user] /\ n.id = issued + 1
      <4>1. [id |-> issued + 1, user |-> req[p].user].id = issued + 1
        OBVIOUS
      <4> QED
        BY <4>1, Zenon
    <3> QED
      BY <2>1, <2>2, <2>4, <3>1, ChallengeAdded
  <2> QED
    BY <1>1, <2>3, <2>4 DEF Admit, NewToken, Fresh
<1>2. ASSUME NEW p \in Requests, CreateSession(p) PROVE ChallengesOK'
  <2>1. /\ Serves(p) /\ req[p].pc = "session" /\ issued' = issued + 1
        /\ UNCHANGED <<logins, stale, restored>>
    BY <1>2, LoginServes DEF CreateSession, At, NewSession, NewToken, Fresh
  <2>2. \A q \in Requests : Keeps(req'[q], req[q])
    BY <2>1, ServedOthers DEF Serves
  <2>3. CASE req[p].ch = 0
    <3>1. spent' = spent
      BY <1>2, <2>3 DEF CreateSession
    <3> QED
      BY <1>0, <2>1, <2>2, <3>1, ChallengesFrame DEF Copies
  <2>4. CASE req[p].ch # 0
    <3>0. Holding(req[p])
      BY <2>1, <2>4 DEF Holding
    <3>1. PICK n : /\ n = <<req[p].ch, issued + 1>> /\ n[1] = req[p].ch
                   /\ spent' = spent \cup {n}
      BY <1>2, <2>4 DEF CreateSession, Fresh
    <3>2. ~Holding(req'[p])
      <4>1. PICK t \in RequestRecord :
              /\ Becomes(p, t)
              /\ req[p].cer = 0 => t = Done
              /\ req[p].cer # 0 => t.pc = "cleanup"
        BY <1>0, <1>2, GotoEffect DEF CreateSession, Calls
      <4>2. req'[p] = t
        BY <1>0, <4>1, BecomesOne
      <4> QED
        BY <4>1, <4>2, DoneTyped DEF Holding
    <3> QED
      BY <2>1, <2>2, <3>0, <3>1, <3>2, ChallengeSpent
  <2> QED
    BY <2>3, <2>4
<1>3. ASSUME NEW p \in Requests, ConsumeLoginChallenge(p) \/ ConsumeForPasskey(p) PROVE ChallengesOK'
  <2>1. UNCHANGED <<issued, spent, restored>>
    BY <1>3 DEF ConsumeLoginChallenge, ConsumeForPasskey, history
  <2>2. CASE Serves(p) /\ UNCHANGED <<logins, stale>>
    <3>1. \A q \in Requests : Keeps(req'[q], req[q])
      BY <2>2, ServedOthers DEF Serves
    <3> QED
      BY <1>0, <2>1, <2>2, <3>1, ChallengesFrame DEF Copies
  <2>3. ASSUME NEW c \in logins, NEW t \in RequestRecord, logins' = logins \ {c}, Leaves("logins", c),
               Becomes(p, t), t.ch = c.id
        PROVE  ChallengesOK'
    BY <2>1, <2>3, ChallengeConsumed
  <2> QED
    BY <1>3, <2>2, <2>3, ConsumeEffect
<1>4. ASSUME NEW p \in Requests, Serve(p), UNCHANGED <<logins, issued, spent, restored>>,
             ~(ConsumeLoginChallenge(p) \/ ConsumeForPasskey(p))
      PROVE  ChallengesOK'
  <2>1. PICK t \in RequestRecord : Becomes(p, t) /\ Keeps(t, req[p])
    BY <1>4, ServeKinds, UpdateEffect, UpdateFails DEF Serves
  <2>2. \A q \in Requests : Keeps(req'[q], req[q])
    BY <2>1, ServedOthers
  <2>3. stale'.logins = stale.logins
    BY <1>4, StaleLogins
  <2> QED
    BY <1>0, <1>4, <2>2, <2>3, ChallengesFrame DEF Copies
<1>5. CASE Creates \/ UNCHANGED vars
  <2>1. /\ req' = req /\ UNCHANGED <<logins, stale, spent, restored>>
        /\ issued' = issued \/ issued' = issued + 1
    BY <1>5, CreatesFrame DEF vars, tokens, history
  <2>2. \A q \in Requests : Keeps(req'[q], req[q])
    BY <2>1 DEF Keeps
  <2> QED
    BY <1>0, <2>1, <2>2, ChallengesFrame DEF Copies
<1>6. CASE Restart
  <2>1. UNCHANGED <<logins, spent, issued, restored>> /\ stale'.logins = {}
    BY <1>6 DEF Restart, NoneStale
  <2>2. \A q \in Requests : Keeps(req'[q], req[q])
    BY <1>6, RestartEffect DEF Keeps, Holding
  <2> QED
    BY <1>0, <2>1, <2>2, ChallengesFrame DEF Copies
<1>7. CASE TouchSession
  <2>1. /\ UNCHANGED <<req, spent, issued>> /\ stale'.logins = {} /\ logins' = logins \cup stale.logins
        /\ restored' = restored \cup {c.id : c \in stale.logins}
    BY <1>7 DEF TouchSession, NoneStale
  <2>2. \A q \in Requests : Keeps(req'[q], req[q])
    BY <2>1 DEF Keeps
  <2>3. Copies' = Copies /\ restored \subseteq restored' /\ \A c \in logins' : c \in logins \/ c.id \in restored'
    BY <2>1 DEF Copies
  <2> QED
    BY <1>0, <2>1, <2>2, <2>3, ChallengesFrame
<1>8. ASSUME NEW p \in Requests, Serve(p) PROVE ChallengesOK'
  <2>0. restored' = restored
    BY <1>8, TokensFrame
  <2>1. CASE Revoke(p) \/ Logout(p)
    <3>1. UNCHANGED <<logins, issued, spent>>
      BY <2>1 DEF Revoke, Logout, history
    <3> QED
      BY <1>3, <1>4, <1>8, <2>0, <3>1
  <2> QED
    BY <1>1, <1>2, <1>3, <1>4, <1>8, <2>0, <2>1, TokensFrame
<1> QED
  BY <1>5, <1>6, <1>7, <1>8, NextKinds

\* The first login challenges all have one number, and nobody has used one.
LEMMA ChallengesInit == Init => ChallengesOK
<1> SUFFICES ASSUME Init PROVE ChallengesOK
  OBVIOUS
<1>1. PICK n \in Nat : \E f \in [1..n -> DOMAIN users], w \in SUBSET (1..n) :
        n + 2 <= issued /\ logins = {[id |-> n + 1, user |-> f[i]] : i \in w} /\ \A i, j \in w : i = j
  BY FirstSessions
<1>2. PICK f \in [1..n -> DOMAIN users], w \in SUBSET (1..n) :
        n + 2 <= issued /\ logins = {[id |-> n + 1, user |-> f[i]] : i \in w} /\ \A i, j \in w : i = j
  BY <1>1
<1>3. issued \in Nat
  BY TypeInit DEF TypeOK, TokensTyped
<1>4. \A c \in logins : c.id <= issued /\ \A d \in logins : c = d
  BY <1>2, <1>3
<1>5. \A p \in Requests : ~Holding(req[p])
  BY IdleTyped DEF Init, Holding
<1>6. spent = {} /\ Copies = logins
  BY DEF Init, NoneStale, Copies
<1> QED
  BY <1>4, <1>5, <1>6 DEF ChallengesOK, IdsOK, SpentOK

\* A login challenge lets at most one request in, for any number of requests
\* that answer it with codes and passkeys at the same time, unless a save
\* loaded before it was consumed has brought it back; with documents in files
\* no save ever does.
THEOREM OneLoginPerChallenge == Spec => [](ChallengeOnce /\ (~Postgres => restored = {}))
<1>1. ChallengesOK => ChallengeOnce
  BY DEF ChallengesOK, SpentOK, ChallengeOnce
<1> DEFINE Whole == ~Postgres => Unlocked /\ restored = {}
<1>2. Init => Whole
  BY DEF Init, Unlocked
<1>3. TypeOK /\ Whole /\ [Next]_vars => Whole'
  <2> SUFFICES ASSUME TypeOK, ~Postgres, Unlocked, restored = {}, [Next]_vars PROVE Unlocked' /\ restored' = {}
    OBVIOUS
  <2>1. ASSUME NEW p \in Requests, Serve(p) PROVE stale' = stale /\ restored' = restored
    BY <2>1, TokensFrame, FileStale
  <2> QED
    BY <2>1, NextKinds, CreatesFrame DEF Unlocked, TouchSession, Restart, vars, tokens, history
<1> QED
  BY TypeCorrect, ChallengesInit, ChallengesStep, <1>1, <1>2, <1>3, PTL DEF Spec

-----------------------------------------------------------------------------
(* Sessions and passwords                                                  *)

\* What a request that has to end sessions carries.
Ending(r) ==
  r.pc = "revoke" => \A i \in r.doomed :
                       i <= issued /\ i # r.sid /\ \A s \in sessions : s.id = i => s.user = r.user
SessionIds ==
  /\ \A s \in sessions : /\ s.id \in 1..issued /\ s.boot <= boot
                         /\ \A t \in sessions : s.id = t.id => s = t
  /\ \A i \in revoked : i <= issued

\* Sessions that go, or come with a new number, do not concern a change of
\* password.
LEMMA EndingKept ==
  ASSUME TypeOK, NEW r \in RequestRecord, Ending(r), issued' \in Nat, issued' >= issued,
         \A s \in sessions' : s \in sessions \/ s.id = issued + 1
  PROVE  Ending(r)'
<1>1. issued \in Nat /\ r.doomed \subseteq Nat
  BY DEF TypeOK, TokensTyped, RequestRecord
<1>2. SUFFICES ASSUME r.pc = "revoke", NEW i \in r.doomed
               PROVE  i <= issued' /\ i # r.sid /\ \A s \in sessions' : s.id = i => s.user = r.user
  BY DEF Ending
<1>3. i <= issued /\ i # r.sid /\ \A s \in sessions : s.id = i => s.user = r.user
  BY <1>2 DEF Ending
<1>4. i \in Nat
  BY <1>1, <1>2
<1>5. \A s \in sessions' : s.id = i => s.user = r.user
  BY <1>1, <1>3, <1>4
<1> QED
  BY <1>1, <1>3, <1>4, <1>5

\* A step that leaves the sessions alone, or removes some.
LEMMA SessionsFrame ==
  ASSUME TypeOK, SessionsOK, issued' \in Nat, issued' >= issued, boot' = boot, revoked' = revoked,
         sessions' \subseteq sessions,
         req' \in [Requests -> RequestRecord], \A q \in Requests : Ending(req'[q])
  PROVE  SessionsOK'
<1>0. issued \in Nat /\ (\A s \in sessions : s.id \in Nat) /\ revoked \subseteq Nat
  BY DEF TypeOK, TokensTyped, HistoryTyped
<1>1. SessionIds'
  BY <1>0 DEF SessionIds, SessionsOK
<1>2. \A q \in Requests : Ending(req[q])'
  BY EndingKept
<1>3. PasswordChangeRevokes'
  BY DEF SessionsOK, PasswordChangeRevokes
<1> QED
  BY <1>1, <1>2, <1>3 DEF SessionsOK, SessionIds, Ending

\* A new session has a new number.
LEMMA SessionsGrow ==
  ASSUME TypeOK, SessionsOK, NEW n \in SessionRecord, sessions' = sessions \cup {n}, n.id = issued + 1,
         n.boot = boot, issued' = issued + 1, boot' = boot, revoked' = revoked,
         req' \in [Requests -> RequestRecord], \A q \in Requests : Ending(req'[q])
  PROVE  SessionsOK'
<1>0. issued \in Nat /\ (\A s \in sessions : s.id \in Nat) /\ revoked \subseteq Nat /\ boot \in Nat
  BY DEF TypeOK, TokensTyped, HistoryTyped
<1>1. /\ \A s \in sessions : s.id \in 1..issued /\ s.boot <= boot /\ \A t \in sessions : s.id = t.id => s = t
      /\ \A i \in revoked : i <= issued
  BY DEF SessionsOK
<1>2. \A s \in sessions' : s.id \in 1..issued' /\ s.boot <= boot' /\ \A t \in sessions' : s.id = t.id => s = t
  BY <1>0, <1>1
<1>3. \A i \in revoked' : i <= issued'
  BY <1>0, <1>1
<1>4. \A q \in Requests : Ending(req[q])'
  BY <1>0, EndingKept
<1>5. PasswordChangeRevokes'
  BY <1>0, <1>1 DEF SessionsOK, PasswordChangeRevokes
<1> QED
  BY <1>2, <1>3, <1>4, <1>5 DEF SessionsOK, Ending

\* A step of one request that has nothing to end leaves the others' duties.
LEMMA ServedEnding ==
  ASSUME TypeOK, SessionsOK, NEW p \in Requests, NEW t \in RequestRecord, Becomes(p, t), Ending(t)
  PROVE  req' \in [Requests -> RequestRecord] /\ \A q \in Requests : Ending(req'[q])
<1>0. ReqTyped
  BY DEF TypeOK, ReqTyped
<1>1. ReqTyped' /\ req'[p] = t /\ \A q \in Requests : q # p => req'[q] = req[q]
  BY <1>0, BecomesOne
<1>2. \A q \in Requests : Ending(req[q])
  BY DEF SessionsOK, Ending
<1>3. \A q \in Requests : Ending(req'[q])
  <2> TAKE q \in Requests
  <2>1. CASE q = p
    BY <1>1, <2>1
  <2>2. CASE q # p
    BY <1>1, <1>2, <2>2
  <2> QED
    BY <2>1, <2>2
<1> QED
  BY <1>1, <1>3 DEF ReqTyped

\* What a change of password ends stays ended.
LEMMA SessionsStep == TypeOK /\ FlowOK /\ SessionsOK /\ [Next]_vars => SessionsOK'
<1> SUFFICES ASSUME TypeOK, FlowOK, SessionsOK, [Next]_vars PROVE SessionsOK'
  OBVIOUS
<1>0. ReqTyped /\ issued \in Nat /\ boot \in Nat /\ (\A q \in Requests : Ending(req[q]))
  BY DEF TypeOK, ReqTyped, TokensTyped, SessionsOK, Ending
<1>1. ASSUME NEW p \in Requests, Serves(p)
      PROVE  req' \in [Requests -> RequestRecord] /\ \A q \in Requests : Ending(req'[q])
  <2>1. PICK t \in RequestRecord : Becomes(p, t) /\ Undoomed(t)
    BY <1>1 DEF Serves
  <2>2. Ending(t)
    BY <2>1 DEF Undoomed, Ending
  <2> QED
    BY <2>1, <2>2, ServedEnding
<1>2. ASSUME NEW p \in Requests, Admit(p) \/ CreateSession(p) PROVE SessionsOK'
  <2>1. Serves(p)
    BY <1>2, LoginServes
  <2>2. boot' = boot /\ revoked' = revoked
    BY <1>2 DEF Admit, CreateSession, history
  <2>3. CASE NewSession(p)
    <3>1. PICK n \in SessionRecord :
            sessions' = sessions \cup {n} /\ n.id = issued + 1 /\ issued' = issued + 1 /\ n.boot = boot
      BY <2>3, NewSessionEffect
    <3> QED
      BY <1>1, <2>1, <2>2, <3>1, SessionsGrow
  <2>4. CASE sessions' = sessions /\ issued' = issued + 1
    BY <1>0, <1>1, <2>1, <2>2, <2>4, SessionsFrame
  <2> QED
    BY <1>2, <2>3, <2>4 DEF Admit, CreateSession, NewToken, Fresh
<1>3. ASSUME NEW p \in Requests, Revoke(p) PROVE SessionsOK'
  <2>1. Serves(p)
    BY <1>3, SelfServes
  <2>2. req' \in [Requests -> RequestRecord] /\ \A q \in Requests : Ending(req'[q])
    BY <1>1, <2>1
  <2>3. issued' = issued /\ boot' = boot /\ sessions' \subseteq sessions
    BY <1>3 DEF Revoke, DeleteSessionsByUser
  <2>4. CASE revoked' = revoked
    BY <1>0, <2>2, <2>3, <2>4, SessionsFrame
  <2>5. CASE revoked' # revoked
    <3>0. /\ sessions' = DeleteSessionsByUser(sessions, req[p].user,
                           IF req[p].op = "changePassword" THEN req[p].sid ELSE 0)
          /\ req[p].pc = "revoke" /\ revoked' = revoked \cup req[p].doomed
      BY <1>3, <2>5 DEF Revoke, At
    <3>1. req[p].pc = "revoke" /\ revoked' = revoked \cup req[p].doomed
      BY <3>0
    <3>2. \A i \in req[p].doomed :
            i <= issued /\ i # req[p].sid /\ \A s \in sessions : s.id = i => s.user = req[p].user
      BY <1>0, <3>1 DEF Ending
    <3>3. \A s \in sessions' : /\ s \in sessions /\ s.id # 0
                               /\ s.user = req[p].user => s.id \in {0, req[p].sid}
      BY <3>0 DEF DeleteSessionsByUser, SessionsOK
    <3>4. \A s \in sessions' : s.id \notin req[p].doomed
      <4> SUFFICES ASSUME NEW s \in sessions', s.id \in req[p].doomed PROVE FALSE
        OBVIOUS
      <4>1. s \in sessions /\ s.id # 0 /\ (s.user = req[p].user => s.id \in {0, req[p].sid})
        BY <3>3
      <4>2. s.id # req[p].sid /\ s.user = req[p].user
        BY <3>2, <4>1
      <4> QED
        BY <4>1, <4>2
    <3>5. PasswordChangeRevokes'
      BY <2>3, <3>1, <3>3, <3>4 DEF PasswordChangeRevokes, SessionsOK
    <3>6. SessionIds'
      BY <2>3, <3>1, <3>2, <3>3 DEF SessionIds, SessionsOK
    <3>7. \A q \in Requests : Ending(req[q])'
      BY <1>0, <2>2, <2>3, EndingKept
    <3> QED
      BY <3>5, <3>6, <3>7 DEF SessionsOK, SessionIds, Ending
  <2> QED
    BY <2>4, <2>5
<1>4. ASSUME NEW p \in Requests, UpdateUser(p) PROVE SessionsOK'
  <2>1. sessions' = sessions /\ issued' = issued /\ boot' = boot /\ revoked' = revoked
    BY <1>4 DEF UpdateUser, tokens
  <2>2. CASE ~Exists(req[p].user)
    BY <1>0, <1>1, <1>4, <2>1, <2>2, UpdateFails, SessionsFrame
  <2>3. CASE Exists(req[p].user)
    <3>1. PICK t \in RequestRecord :
            /\ Becomes(p, t)
            /\ \/ t = Done
               \/ /\ t.user = req[p].user /\ t.sid = req[p].sid
                  /\ t.pc = "revoke"
                     => t.doomed = {s.id : s \in {x \in sessions : x.user = req[p].user}} \ {req[p].sid}
      BY <1>4, <2>3, UpdateEffect
    <3>2. Ending(t)
      <4>1. CASE t = Done
        BY <4>1, DoneTyped DEF Ending
      <4>2. CASE t # Done
        <5> SUFFICES ASSUME t.pc = "revoke", NEW i \in t.doomed
                     PROVE  i <= issued /\ i # t.sid /\ \A s \in sessions : s.id = i => s.user = t.user
          BY DEF Ending
        <5>1. PICK x \in sessions : x.user = t.user /\ x.id = i /\ i # t.sid
          BY <3>1, <4>2
        <5>2. x.id <= issued /\ \A s \in sessions : s.id = x.id => s = x
          BY <1>0 DEF SessionsOK
        <5> QED
          BY <5>1, <5>2
      <4> QED
        BY <4>1, <4>2
    <3>3. req' \in [Requests -> RequestRecord] /\ \A q \in Requests : Ending(req'[q])
      BY <3>1, <3>2, ServedEnding
    <3> QED
      BY <1>0, <2>1, <3>3, SessionsFrame
  <2> QED
    BY <2>2, <2>3
<1>5. ASSUME NEW p \in Requests, ConsumeLoginChallenge(p) \/ ConsumeForPasskey(p) PROVE SessionsOK'
  <2>1. sessions' = sessions /\ issued' = issued /\ boot' = boot /\ revoked' = revoked
    BY <1>5 DEF ConsumeLoginChallenge, ConsumeForPasskey, history
  <2>2. PICK t \in RequestRecord : Becomes(p, t) /\ Ending(t)
    BY <1>5, ConsumeEffect DEF Serves, Undoomed, Ending
  <2>3. req' \in [Requests -> RequestRecord] /\ \A q \in Requests : Ending(req'[q])
    BY <2>2, ServedEnding
  <2> QED
    BY <1>0, <2>1, <2>3, SessionsFrame
<1>6. ASSUME NEW p \in Requests, Serves(p), boot' = boot,
             Logout(p) \/ UNCHANGED <<sessions, issued, revoked>>
      PROVE  SessionsOK'
  <2>1. sessions' \subseteq sessions /\ issued' = issued /\ revoked' = revoked
    BY <1>6 DEF Logout, history
  <2> QED
    BY <1>0, <1>1, <1>6, <2>1, SessionsFrame
<1>7. ASSUME NEW p \in Requests, Serve(p) PROVE SessionsOK'
  <2>1. CASE Serves(p)
    BY <1>2, <1>3, <1>5, <1>6, <1>7, <2>1, TokensFrame
  <2> QED
    BY <1>4, <1>5, <1>7, <2>1, ServeKinds
<1>8. CASE Creates \/ TouchSession \/ UNCHANGED vars
  <2>1. /\ req' = req /\ sessions' = sessions /\ boot' = boot /\ revoked' = revoked
        /\ issued' = issued \/ issued' = issued + 1
    BY <1>8, CreatesFrame DEF vars, tokens, history, TouchSession
  <2> QED
    BY <1>0, <2>1, SessionsFrame DEF ReqTyped
<1>9. CASE Restart
  <2>1. sessions' = sessions /\ issued' = issued /\ boot' = boot + 1
    BY <1>9 DEF Restart, tokens
  <2>2. \A q \in Requests : req'[q].pc # "revoke"
    BY <1>9, RestartEffect
  <2>3. \A i \in revoked' : i <= issued
    BY <1>0, <1>9 DEF Restart, At, Ending, SessionsOK
  <2>4. \A s \in sessions : s.boot \in Nat /\ s.boot <= boot
    BY DEF TypeOK, TokensTyped, SessionsOK
  <2>5. PasswordChangeRevokes'
    BY <1>0, <2>1, <2>4 DEF PasswordChangeRevokes
  <2>6. SessionIds'
    BY <1>0, <2>1, <2>3, <2>4 DEF SessionIds, SessionsOK
  <2> QED
    BY <2>2, <2>5, <2>6 DEF SessionsOK, SessionIds
<1> QED
  BY <1>7, <1>8, <1>9, NextKinds

\* The first sessions have different numbers.
LEMMA SessionsInit == Init => SessionsOK
<1> SUFFICES ASSUME Init PROVE SessionsOK
  OBVIOUS
<1>1. PICK n \in Nat : \E f \in [1..n -> DOMAIN users], w \in SUBSET (1..n) :
        /\ n + 2 <= issued
        /\ sessions = {[id |-> i, user |-> f[i], boot |-> boot, plain |-> FALSE, by |-> "before"] : i \in 1..n}
  BY FirstSessions
<1>2. PICK f \in [1..n -> DOMAIN users] :
        /\ n + 2 <= issued
        /\ sessions = {[id |-> i, user |-> f[i], boot |-> boot, plain |-> FALSE, by |-> "before"] : i \in 1..n}
  BY <1>1
<1>3. issued \in Nat /\ boot = 1 /\ revoked = {}
  BY TypeInit DEF TypeOK, TokensTyped, Init
<1>4. \A p \in Requests : req[p].pc # "revoke"
  BY IdleTyped DEF Init
<1>5. \A s \in sessions : s.id \in 1..n /\ s.boot = boot /\ \A t \in sessions : s.id = t.id => s = t
  <2> DEFINE S(i) == [id |-> i, user |-> f[i], boot |-> boot, plain |-> FALSE, by |-> "before"]
  <2>1. \A i : S(i).id = i /\ S(i).boot = boot
    OBVIOUS
  <2>2. \A s \in sessions : \E i \in 1..n : s = S(i)
    BY <1>2
  <2> HIDE DEF S
  <2> QED
    BY <2>1, <2>2
<1> QED
  BY <1>2, <1>3, <1>4, <1>5 DEF SessionsOK, PasswordChangeRevokes

\* After a change of password that was answered as done, or that a restart
\* cut short, the other sessions of the user are of no use, for any number of
\* requests and restarts in between.
THEOREM ChangeEndsSessions == Spec => []PasswordChangeRevokes
<1>1. SessionsOK => PasswordChangeRevokes
  BY DEF SessionsOK
<1> QED
  BY TypeCorrect, SessionsInit, SessionsStep, <1>1, PTL DEF Spec

-----------------------------------------------------------------------------
(* The second factor and the built-in administrator                        *)

\* A record that is in the document after a call of the other stores was there
\* before, unless it is a new one without a second factor.
LEMMA UsersKept ==
  ASSUME TypeOK, FlowOK, NEW p \in Requests, Serve(p), ~UpdateUser(p)
  PROVE  /\ racing' = racing
         /\ \A u \in DOMAIN users' : \/ Exists(u) /\ users'[u] = users[u]
                                     \/ ~Exists(u) /\ ~users'[u].totp
         /\ Exists(Admin) => Exists(Admin)'
<1>0. Flow(req[p])
  BY DEF FlowOK
<1>1. CASE CreateUser(p)
  <2>1. ~req[p].copy.totp /\ racing' = racing
    BY <1>0, <1>1 DEF CreateUser, At, Flow, Paths, history
  <2>2. CASE users' = users
    BY <2>1, <2>2 DEF Exists
  <2>3. CASE /\ ~Exists(req[p].user)
             /\ users' = [x \in DOMAIN users \cup {req[p].user} |->
                            IF x = req[p].user THEN req[p].copy ELSE users[x]]
    BY <2>1, <2>3 DEF Exists
  <2> QED
    BY <1>1, <2>2, <2>3 DEF CreateUser
<1>2. CASE RemoveUser(p)
  <2>1. req[p].user # Admin /\ racing' = racing /\ users' = [x \in DOMAIN users \ {req[p].user} |-> users[x]]
    BY <1>0, <1>2 DEF RemoveUser, At, Flow, Paths, history
  <2> QED
    BY <2>1 DEF Exists
<1>3. CASE users' = users /\ racing' = racing
  BY <1>3 DEF Exists
<1> QED
  BY <1>1, <1>2, <1>3, AccountsFrame DEF DropRole, SaveRole, history

\* A request that has just read a record is not behind it, and a factor that
\* is switched on remembers who is.
LEMMA FactorStep == TypeOK /\ FlowOK /\ FactorOK /\ [Next]_vars => FactorOK'
<1> SUFFICES ASSUME TypeOK, FlowOK, FactorOK, [Next]_vars, NEW q \in Requests,
                    Admitting(req'[q]), ~req'[q].copy.totp, req'[q].user \in DOMAIN users', users'[req'[q].user].totp
             PROVE  q \in racing'[req'[q].user]
  BY DEF FactorOK, Exists
<1>0. ReqTyped
  BY DEF TypeOK, ReqTyped
<1>1. ASSUME Admitting(req[q]), ~req[q].copy.totp, Exists(req[q].user), users[req[q].user].totp
      PROVE  q \in racing[req[q].user]
  BY <1>1 DEF FactorOK
<1>2. ASSUME NEW p \in Requests, Serves(p), Serve(p), ~UpdateUser(p) PROVE q \in racing'[req'[q].user]
  <2>1. PICK t \in RequestRecord : Becomes(p, t) /\ Read(t)
    BY <1>2 DEF Serves
  <2>2. req'[p] = t /\ (q # p => req'[q] = req[q])
    BY <1>0, <2>1, BecomesOne
  <2>3. PICK u : u = req'[q].user
    OBVIOUS
  <2>4. racing' = racing /\ Exists(u) /\ users'[u] = users[u]
    BY <1>2, <2>3, UsersKept
  <2>5. CASE q = p
    <3>1. t.copy.totp = users[u].totp
      BY <2>1, <2>2, <2>3, <2>5 DEF Read
    <3>2. ~t.copy.totp /\ users[u].totp
      BY <2>2, <2>3, <2>4, <2>5
    <3> QED
      BY <3>1, <3>2
  <2>6. CASE q # p
    BY <1>1, <2>2, <2>3, <2>4, <2>6
  <2> QED
    BY <2>5, <2>6
<1>3. ASSUME NEW p \in Requests, UpdateUser(p) PROVE q \in racing'[req'[q].user]
  <2> DEFINE u == req[p].user
  <2>1. CASE ~Exists(u)
    <3>1. PICK t \in RequestRecord : Becomes(p, t) /\ Read(t) /\ UNCHANGED <<users, racing>>
      BY <1>3, <2>1, UpdateFails DEF Serves
    <3>2. req'[p] = t /\ (q # p => req'[q] = req[q])
      BY <1>0, <3>1, BecomesOne
    <3>3. q # p
      BY <3>1, <3>2 DEF Read, Exists
    <3> QED
      BY <1>1, <3>1, <3>2, <3>3 DEF Exists
  <2>2. CASE Exists(u)
    <3>1. PICK t \in RequestRecord :
            /\ Becomes(p, t)
            /\ t = Done \/ (t.pc # "store" /\ t.user = u /\ (t.pc \in {"admit", "edit"} => t.copy = req[p].copy))
      BY <1>3, <2>2, UpdateEffect
    <3>2. req'[p] = t /\ (q # p => req'[q] = req[q])
      BY <1>0, <3>1, BecomesOne
    <3>3. /\ users' = [users EXCEPT ![u] = req[p].copy]
          /\ racing' = IF req[p].copy.totp /\ ~users[u].totp THEN [racing EXCEPT ![u] = InFlight] ELSE racing
      BY <1>3, <2>2 DEF UpdateUser
    <3>4. u \in DOMAIN users /\ racing \in [Users -> SUBSET Requests] /\ u \in Users
      BY <2>2, StoredRecord DEF Exists, TypeOK, HistoryTyped
    <3>5. users'[u] = req[p].copy /\ DOMAIN users' = DOMAIN users /\ \A v \in DOMAIN users : v # u => users'[v] = users[v]
      BY <3>3, <3>4
    <3>6. q # p
      <4>1. ASSUME q = p PROVE FALSE
        <5>1. t.pc = "admit" /\ t.user = u /\ t.copy = req[p].copy
          BY <3>1, <3>2, <4>1, DoneTyped DEF Admitting
        <5>2. ~req[p].copy.totp
          BY <3>2, <4>1, <5>1
        <5>3. req[p].copy.totp
          BY <3>2, <3>5, <4>1, <5>1
        <5> QED
          BY <5>2, <5>3
      <4> QED
        BY <4>1
    <3>7. PICK v : v = req[q].user /\ v \in DOMAIN users
      BY <3>2, <3>5, <3>6 DEF Exists
    <3>8. Admitting(req[q]) /\ ~req[q].copy.totp /\ users'[v].totp /\ req'[q].user = v
      BY <3>2, <3>6, <3>7
    <3>9. CASE v # u
      <4>1. racing'[v] = racing[v]
        BY <3>3, <3>4, <3>9
      <4>2. users[v].totp
        BY <3>5, <3>7, <3>8, <3>9
      <4>3. q \in racing[v]
        BY <1>1, <3>7, <3>8, <4>2 DEF Exists
      <4> QED
        BY <3>8, <4>1, <4>3
    <3>10. CASE v = u
      <4>1. req[p].copy.totp
        BY <3>5, <3>8, <3>10
      <4>2. q \in InFlight
        BY <3>8 DEF InFlight, Admitting
      <4>3. CASE ~users[u].totp
        <5>1. racing'[u] = InFlight
          BY <3>3, <3>4, <4>1, <4>3
        <5> QED
          BY <3>8, <3>10, <4>2, <5>1
      <4>4. CASE users[u].totp
        <5>1. racing' = racing
          BY <3>3, <4>4
        <5>2. q \in racing[v]
          BY <1>1, <3>7, <3>8, <3>10, <4>4 DEF Exists
        <5> QED
          BY <3>8, <5>1, <5>2
      <4> QED
        BY <4>3, <4>4
    <3> QED
      BY <3>9, <3>10
  <2> QED
    BY <2>1, <2>2
<1>4. ASSUME NEW p \in Requests, ConsumeLoginChallenge(p) \/ ConsumeForPasskey(p), Serve(p), ~Serves(p), ~UpdateUser(p)
      PROVE  q \in racing'[req'[q].user]
  <2>1. PICK t \in RequestRecord : Becomes(p, t) /\ t.pc \in {"second", "session"}
    BY <1>4, ConsumeEffect
  <2>2. req'[p] = t /\ (q # p => req'[q] = req[q])
    BY <1>0, <2>1, BecomesOne
  <2>3. q # p
    BY <2>1, <2>2 DEF Admitting
  <2>4. racing' = racing /\ users' = users
    BY <1>4 DEF ConsumeLoginChallenge, ConsumeForPasskey, history
  <2> QED
    BY <1>1, <2>2, <2>3, <2>4 DEF Exists
<1>5. CASE Creates \/ TouchSession \/ UNCHANGED vars
  <2>1. req' = req /\ users' = users /\ racing' = racing
    BY <1>5, CreatesFrame DEF vars, history, TouchSession
  <2> QED
    BY <1>1, <2>1 DEF Exists
<1>6. ~Restart
  BY RestartEffect DEF Admitting
<1> QED
  BY <1>2, <1>3, <1>4, <1>5, <1>6, NextKinds, ServeKinds

\* No request has read anything at first.
LEMMA FactorInit == Init => FactorOK
  BY IdleTyped DEF Init, FactorOK, Admitting

\* While a user's second factor is on, a session that was opened without it
\* comes from a login that was in flight when the factor was switched on, for
\* any number of requests, users and passkeys.
THEOREM FactorAsked == Spec => SecondFactor
<1>1. TypeOK /\ FlowOK /\ FactorOK /\ [Next]_vars
      => [\A s \in sessions' \ sessions :
            s.plain /\ Exists(s.user) /\ users[s.user].totp => s.by \in racing[s.user]]_vars
  <2> SUFFICES ASSUME TypeOK, FlowOK, FactorOK, [Next]_vars, NEW s \in sessions' \ sessions,
                      s.plain, Exists(s.user), users[s.user].totp
               PROVE  s.by \in racing[s.user]
    OBVIOUS
  <2>1. PICK p \in Requests : Serve(p)
    BY NextKinds, CreatesFrame DEF Restart, TouchSession, vars, tokens
  <2>2. Admit(p) \/ CreateSession(p)
    BY <2>1, TokensFrame DEF ConsumeLoginChallenge, ConsumeForPasskey, Revoke, Logout, DeleteSessionsByUser
  <2>3. NewSession(p)
    BY <2>2 DEF Admit, CreateSession
  <2>4. s.user = req[p].user /\ s.by = p /\ req[p].op \in {"login", "passkeyLogin"}
    BY <2>3, NewSessionEffect
  <2>5. req[p].pc = "admit" /\ ~req[p].copy.totp
    <3>1. Flow(req[p])
      BY DEF FlowOK
    <3>2. ~CreateSession(p)
      BY <2>4, <3>1 DEF CreateSession, At, Flow, Paths
    <3>3. CASE req[p].copy.totp
      <4>1. sessions' = sessions
        BY <2>2, <3>2, <3>3 DEF Admit
      <4> QED
        BY <4>1
    <3> QED
      BY <2>2, <3>2, <3>3 DEF Admit, At
  <2> QED
    BY <2>4, <2>5 DEF FactorOK, Admitting
<1> QED
  BY TypeCorrect, FactorInit, FactorStep, <1>1, PTL DEF Spec, SecondFactor

\* No step takes the administrator away.
LEMMA AdminStep == TypeOK /\ FlowOK /\ AdminSafe /\ [Next]_vars => AdminSafe'
<1> SUFFICES ASSUME TypeOK, FlowOK, AdminSafe, [Next]_vars PROVE AdminSafe'
  OBVIOUS
<1>0. ReqTyped /\ Exists(Admin) /\ Intact(users[Admin])
  BY DEF TypeOK, ReqTyped, AdminSafe
<1>1. ASSUME NEW p \in Requests, NEW t \in RequestRecord, Becomes(p, t),
             t.user = Admin /\ t.pc \in {"store", "edit"} => Intact(t.copy),
             Exists(Admin)', Intact(users'[Admin])
      PROVE  AdminSafe'
  <2>1. req'[p] = t /\ \A q \in Requests : q # p => req'[q] = req[q]
    BY <1>0, <1>1, BecomesOne
  <2>2. ASSUME NEW q \in Requests, req'[q].user = Admin, req'[q].pc \in {"store", "edit"}
        PROVE  Intact(req'[q].copy)
    <3>1. CASE q = p
      BY <1>1, <2>1, <2>2, <3>1
    <3>2. CASE q # p
      BY <2>1, <2>2, <3>2 DEF AdminSafe
    <3> QED
      BY <3>1, <3>2
  <2> QED
    BY <1>1, <2>2 DEF AdminSafe
<1>2. ASSUME NEW p \in Requests, Serve(p), ~UpdateUser(p) PROVE Exists(Admin)' /\ Intact(users'[Admin])
  <2>1. Exists(Admin)'
    BY <1>0, <1>2, UsersKept
  <2>2. users'[Admin] = users[Admin]
    BY <1>0, <1>2, <2>1, UsersKept DEF Exists
  <2> QED
    BY <1>0, <2>1, <2>2
<1>3. ASSUME NEW p \in Requests, UpdateUser(p) PROVE AdminSafe'
  <2> DEFINE u == req[p].user
  <2>0. req[p].pc = "store" /\ (u = Admin => Intact(req[p].copy))
    BY <1>3 DEF UpdateUser, At, AdminSafe
  <2>1. CASE ~Exists(u)
    <3>1. PICK t \in RequestRecord : Becomes(p, t) /\ Read(t) /\ users' = users
      BY <1>3, <2>1, UpdateFails DEF Serves
    <3> QED
      BY <1>0, <1>1, <3>1 DEF Read, Exists
  <2>2. CASE Exists(u)
    <3>1. PICK t \in RequestRecord :
            /\ Becomes(p, t)
            /\ t = Done \/ (t.pc # "store" /\ t.user = u /\ (t.pc \in {"admit", "edit"} => t.copy = req[p].copy))
      BY <1>3, <2>2, UpdateEffect
    <3>2. t.user = Admin /\ t.pc \in {"store", "edit"} => Intact(t.copy)
      BY <2>0, <3>1, DoneTyped
    <3>3. users' = [users EXCEPT ![u] = req[p].copy]
      BY <1>3, <2>2 DEF UpdateUser
    <3>4. Exists(Admin)' /\ (u # Admin => users'[Admin] = users[Admin]) /\ (u = Admin => users'[Admin] = req[p].copy)
      BY <1>0, <2>2, <3>3 DEF Exists
    <3>5. Intact(users'[Admin])
      BY <1>0, <2>0, <3>4
    <3> QED
      BY <1>1, <3>1, <3>2, <3>4, <3>5
  <2> QED
    BY <2>1, <2>2
<1>4. ASSUME NEW p \in Requests, Serve(p), Serves(p), ~UpdateUser(p) PROVE AdminSafe'
  <2>1. PICK t \in RequestRecord : Becomes(p, t) /\ Read(t)
    BY <1>4 DEF Serves
  <2> QED
    BY <1>1, <1>2, <1>4, <2>1 DEF Read
<1>5. ASSUME NEW p \in Requests, Serve(p), ~Serves(p), ~UpdateUser(p) PROVE AdminSafe'
  <2>1. PICK t \in RequestRecord : Becomes(p, t) /\ t.pc \in {"second", "session"}
    BY <1>5, ServeKinds, ConsumeEffect
  <2> QED
    BY <1>1, <1>2, <1>5, <2>1
<1>6. CASE Creates \/ TouchSession \/ UNCHANGED vars
  <2>1. req' = req /\ users' = users
    BY <1>6, CreatesFrame DEF vars, TouchSession
  <2> QED
    BY <2>1 DEF AdminSafe, Exists
<1>7. CASE Restart
  <2>1. users' = users
    BY <1>0, <1>7 DEF Restart, SeedBootstrap, Exists
  <2> QED
    BY <1>0, <1>7, <2>1, RestartEffect DEF AdminSafe, Exists
<1> QED
  BY <1>3, <1>4, <1>5, <1>6, <1>7, NextKinds

\* Whatever requests race, nothing disables the built-in administrator, takes
\* its role away or deletes it.
THEOREM AdminStays == Spec => AdminKept
<1>1. TypeOK /\ FlowOK /\ [Next]_vars => [AdminIntact => AdminIntact']_vars
  <2> SUFFICES ASSUME TypeOK, FlowOK, [Next]_vars, AdminIntact PROVE AdminIntact'
    OBVIOUS
  <2>1. AdminSafe'
    BY AdminStep DEF AdminIntact, AdminSafe, Intact
  <2> QED
    BY <2>1 DEF AdminIntact, AdminSafe, Intact
<1> QED
  BY TypeCorrect, <1>1, PTL DEF Spec, AdminKept
============================================================================
