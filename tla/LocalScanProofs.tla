-------------------------- MODULE LocalScanProofs --------------------------
(***************************************************************************)
(* Theorems about parts that MCLocalScan puts side by side: the fixes of   *)
(* the scanner's local server, who may call the server, the tracking       *)
(* states of stored issues, and how a run of the scanner ends.             *)
(***************************************************************************)
EXTENDS LocalFixes, Access, IssueTriage, Scanner, FiniteSetTheorems, Recursions, TLAPS

-----------------------------------------------------------------------------
(* Fixes                                                                   *)

FixedFile(p) == ReplaceLineRange(p.original, p.first, p.last, p.replacement)

\* The previews are a list, and everything stored or asked for is a file of the project.
FixShape ==
    /\ disk = [p \in Paths |-> disk[p]]
    /\ \E S : previews \in Seq(S)
    /\ \A id \in DOMAIN previews : previews[id].path \in Paths
    /\ request = [c \in Clients |-> request[c]]
    /\ \A c \in Clients : /\ request[c].op \in {"none", "preview", "apply"}
                          /\ request[c].op = "preview" => request[c].path \in Paths

\* Until it is written, the text of an apply is the preview's file with its lines replaced: the
\* file was compared with the preview before, and the preview never changes.
AppliesPrepared ==
    \A c \in Clients : request[c].op = "apply" =>
        /\ request[c].id \in DOMAIN previews
        /\ request[c].path = previews[request[c].id].path
        /\ request[c].updated = FixedFile(previews[request[c].id])

LEMMA FixesInit == FixInit => FixShape /\ AppliesPrepared
<1> SUFFICES ASSUME FixInit PROVE FixShape /\ AppliesPrepared
  OBVIOUS
<1>1. disk = [p \in Paths |-> disk[p]] /\ request = [c \in Clients |-> Free] /\ previews = << >>
  BY DEF FixInit
<1>2. previews \in Seq({})
  BY <1>1
<1>3. QED
  BY <1>1, <1>2 DEF FixShape, AppliesPrepared, Free

\* A preview that is stored comes after the others, which stay.
LEMMA PreviewsKept ==
  ASSUME \E S : previews \in Seq(S), NEW new, previews' = Append(previews, new)
  PROVE  /\ \E S : previews' \in Seq(S)
         /\ \A id \in DOMAIN previews' :
               IF id \in DOMAIN previews THEN previews'[id] = previews[id] ELSE previews'[id] = new
         /\ DOMAIN previews \subseteq DOMAIN previews'
<1>1. PICK S : previews \in Seq(S)
  OBVIOUS
<1>2. previews \in Seq(S \cup {new})
  BY <1>1
<1>3. QED
  BY <1>2

LEMMA FixesKept == FixShape /\ AppliesPrepared /\ [FixNext]_fixVars => FixShape' /\ AppliesPrepared'
<1> SUFFICES ASSUME FixShape, AppliesPrepared, [FixNext]_fixVars PROVE FixShape' /\ AppliesPrepared'
  OBVIOUS
<1>1. ASSUME NEW c \in Clients, NEW agent, NEW issue, BeginPreview(c, agent, issue)
      PROVE  FixShape' /\ AppliesPrepared'
  BY <1>1 DEF BeginPreview, FixShape, AppliesPrepared
<1>2. ASSUME NEW c \in Clients, NEW replacement, StorePreview(c, replacement)
      PROVE  FixShape' /\ AppliesPrepared'
  <2> DEFINE new == [path |-> request[c].path, first |-> request[c].first, last |-> request[c].last,
                     original |-> request[c].original, replacement |-> replacement]
  <2>1. /\ previews' = Append(previews, new) /\ new.path \in Paths
        /\ request' = [request EXCEPT ![c] = Free] /\ disk' = disk
    BY <1>2 DEF StorePreview, Answered, FixShape
  <2> HIDE DEF new
  <2>2. /\ \E S : previews' \in Seq(S)
        /\ \A id \in DOMAIN previews' :
              IF id \in DOMAIN previews THEN previews'[id] = previews[id] ELSE previews'[id] = new
        /\ DOMAIN previews \subseteq DOMAIN previews'
    BY <2>1, PreviewsKept DEF FixShape
  <2>3. \A d \in Clients : request'[d] = IF d = c THEN Free ELSE request[d]
    BY <2>1 DEF FixShape
  <2>4. FixShape'
    BY <2>1, <2>2, <2>3 DEF FixShape, Free
  <2>5. AppliesPrepared'
    BY <2>2, <2>3 DEF AppliesPrepared, Free, FixedFile
  <2>6. QED
    BY <2>4, <2>5
<1>3. ASSUME NEW c \in Clients, PreviewFails(c) \/ ApplyFails(c)
      PROVE  FixShape' /\ AppliesPrepared'
  BY <1>3 DEF PreviewFails, ApplyFails, Answered, Free, FixShape, AppliesPrepared
<1>4. ASSUME NEW c \in Clients, NEW id \in DOMAIN previews, BeginApply(c, id)
      PROVE  FixShape' /\ AppliesPrepared'
  <2>1. disk[previews[id].path] = previews[id].original
    BY <1>4 DEF BeginApply, Unchanged
  <2>2. /\ request' = [request EXCEPT ![c] = [op |-> "apply", id |-> id, path |-> previews[id].path,
                                              updated |-> FixedFile(previews[id])]]
        /\ disk' = disk /\ previews' = previews
    BY <1>4, <2>1 DEF BeginApply, FixedFile
  <2>3. QED
    BY <2>2 DEF FixShape, AppliesPrepared
<1>5. ASSUME NEW c \in Clients, WriteFile(c)
      PROVE  FixShape' /\ AppliesPrepared'
  BY <1>5 DEF WriteFile, Answered, Free, FixShape, AppliesPrepared
<1>6. ASSUME NEW path, NEW content, Edit(path, content)
      PROVE  FixShape' /\ AppliesPrepared'
  BY <1>6 DEF Edit, FixShape, AppliesPrepared
<1>7. ASSUME UNCHANGED fixVars
      PROVE  FixShape' /\ AppliesPrepared'
  BY <1>7 DEF fixVars, FixShape, AppliesPrepared
<1>8. QED
  BY <1>1, <1>2, <1>3, <1>4, <1>5, <1>6, <1>7 DEF FixNext

LEMMA FixesHold == FixSpec => [](FixShape /\ AppliesPrepared)
  BY FixesInit, FixesKept, PTL DEF FixSpec

\* A write that ends an apply is that apply's own.
LEMMA FixWritten ==
  ASSUME FixShape, AppliesPrepared, FixNext, NEW c \in Clients,
         request[c].op = "apply", disk' # disk, request'[c] = Free
  PROVE  LET p == previews[request[c].id]
         IN  disk'[p.path] = ReplaceLineRange(p.original, p.first, p.last, p.replacement)
<1>1. /\ request[c].id \in DOMAIN previews /\ request[c].path = previews[request[c].id].path
      /\ request[c].updated = FixedFile(previews[request[c].id])
      /\ request[c].path \in Paths /\ request[c] # Free
  BY DEF AppliesPrepared, FixShape, Free
<1>2. ASSUME NEW path, NEW content, Edit(path, content) PROVE FALSE
  BY <1>1, <1>2 DEF Edit
<1>3. PICK d \in Clients : WriteFile(d)
  BY <1>2 DEF FixNext, BeginPreview, StorePreview, PreviewFails, BeginApply, ApplyFails
<1>4. request' = [request EXCEPT ![d] = Free] /\ disk' = [disk EXCEPT ![request[d].path] = request[d].updated]
  BY <1>3 DEF WriteFile, Answered
<1>5. d = c
  BY <1>1, <1>4 DEF FixShape
<1>6. disk'[request[c].path] = request[c].updated
  BY <1>1, <1>4, <1>5 DEF FixShape
<1>7. QED
  BY <1>1, <1>6 DEF FixedFile

\* The user gets the file that was shown: whatever requests and edits come between the answer and
\* the write, the write puts the preview's file there with the preview's lines replaced
\* (generatePreview and applyPreview of ollantascanner/server/aifix.go).
THEOREM FixesAreAsShown == FixSpec => AppliedAsPreviewed
<1>1. FixShape /\ AppliesPrepared /\ [FixNext]_fixVars =>
        [\A c \in Clients :
            request[c].op = "apply" /\ disk' # disk /\ request'[c] = Free =>
               LET p == previews[request[c].id]
               IN  disk'[p.path] = ReplaceLineRange(p.original, p.first, p.last, p.replacement)]_fixVars
  BY FixWritten
<1>2. QED
  BY <1>1, FixesHold, PTL DEF FixSpec, AppliedAsPreviewed

-----------------------------------------------------------------------------
(* Access: rows and calls                                                  *)

Stages == {"outside", "login", "refresh", "known", "authorised"}
Calls == [stage : Stages, user : Users \cup {""}, password : Passwords \cup {""}, session : Nat,
          permission : Permissions \cup {""}, withdrawn : Nat]

AccessShape ==
    /\ AccessTypeOK
    /\ accounts = [u \in DOMAIN accounts |-> accounts[u]]
    /\ groups = [g \in DOMAIN groups |-> groups[g]]
    /\ endedAt = [i \in DOMAIN endedAt |-> endedAt[i]]
    /\ \A i \in DOMAIN endedAt : endedAt[i] \in Nat
    /\ now \in Nat /\ withdrawn \in Nat
    /\ call \in [Callers -> Calls]

\* Accounts are never deleted, so that the one of a call stays; a call began at some point.
CallsHaveAccounts ==
    \A c \in Callers : /\ call[c].stage # "outside" => call[c].user \in DOMAIN accounts
                       /\ call[c].withdrawn <= withdrawn

LEMMA ShapeAtFirst == AccessInit => AccessShape /\ CallsHaveAccounts
<1> SUFFICES ASSUME AccessInit PROVE AccessShape /\ CallsHaveAccounts
  OBVIOUS
<1>1. PICK others \in SUBSET Users :
         accounts = [u \in {SeededAdmin} \cup others |-> [active |-> TRUE, password |-> CHOOSE p \in Passwords : TRUE]]
  BY DEF AccessInit
<1>2. (CHOOSE p \in Passwords : TRUE) \in Passwords
  BY AccessAssumption
<1>3. /\ DOMAIN accounts \subseteq Users /\ SeededAdmin \in DOMAIN accounts
      /\ \A u \in DOMAIN accounts : accounts[u] \in AccountRows
      /\ accounts = [u \in DOMAIN accounts |-> accounts[u]]
  BY <1>1, <1>2, AccessAssumption DEF AccountRows
<1>4. /\ \A g \in DOMAIN groups : groups[g] \in GroupRows /\ groups[g].members \subseteq DOMAIN accounts
      /\ groups = [g \in DOMAIN groups |-> groups[g]]
  <2> DEFINE Row(g) == [name |-> IF g = Admins THEN "ollanta-admins" ELSE "ollanta-users",
                        builtin |-> TRUE, members |-> {SeededAdmin}, born |-> 0]
  <2>1. groups = [g \in {Admins, Everybody} |-> Row(g)]
    BY DEF AccessInit
  <2>2. \A g : Row(g) \in GroupRows /\ Row(g).members = {SeededAdmin}
    <3>1. {SeededAdmin} \in SUBSET Users
      BY AccessAssumption
    <3>2. ASSUME NEW g PROVE Row(g) \in GroupRows /\ Row(g).members = {SeededAdmin}
      <4>1. Row(g).name \in GroupNames \cup {"ollanta-admins", "ollanta-users"}
        OBVIOUS
      <4>2. QED
        BY <3>1, <4>1 DEF GroupRows
    <3>3. QED
      BY <3>2
  <2> HIDE DEF Row
  <2>3. QED
    BY <1>3, <2>1, <2>2
<1>5. grants \subseteq GrantRows
  BY AccessAssumption DEF AccessInit, GrantRows, Admins
<1>6. sessions = {} /\ bearers = {} /\ apiTokens = {} /\ now = 0 /\ withdrawn = 0 /\ endedAt = << >>
  BY DEF AccessInit
<1>7. /\ call \in [Callers -> Calls]
      /\ \A c \in Callers : call[c].stage = "outside" /\ call[c].withdrawn = 0
  BY DEF AccessInit, Outside, Calls, Stages
<1>8. \A c \in Callers : call[c].stage \in Stages
  BY <1>7 DEF Stages
<1>9. QED
  BY <1>3, <1>4, <1>5, <1>6, <1>7, <1>8 DEF AccessShape, AccessTypeOK, CallsHaveAccounts, Stages

\* The actions that write each table, and those that begin or go on with a call.
WritesAccounts(c) ==
    \/ \E old, new \in Passwords : ChangePassword(c, old, new)
    \/ \E u \in Users, p \in Passwords : CreateUser(c, u, p)
    \/ \E u \in DOMAIN accounts : Deactivate(c, u) \/ Reactivate(c, u)
WritesSessions(c) ==
    \/ LoginIssue(c)
    \/ \E s \in sessions : RefreshExpired(c, s) \/ Logout(c, s)
WritesTokens(c) ==
    \/ \E e \in {now, Never} : CreateToken(c, e)
    \/ \E t \in apiTokens : DeleteToken(c, t)
WritesGroups(c) ==
    \/ \E n \in GroupNames : CreateGroup(c, n)
    \/ \E g \in DOMAIN groups : DeleteGroup(c, g) \/ \E u \in DOMAIN accounts : AddMember(c, g, u) \/ RemoveMember(c, g, u)
WritesGrants(c) ==
    \/ \E x \in Targets, p \in Permissions : GrantGlobal(c, x, p)
    \/ \E x \in grants : RevokeGlobal(c, x)
GoesOn(c) ==
    \/ \E u \in Users, p \in Passwords : LoginRead(c, u, p)
    \/ \E s \in sessions : RefreshRead(c, s)
    \/ Entering(c)

LEMMA Frames ==
  ASSUME AccessNext
  PROVE  /\ accounts' = accounts \/ \E c \in Callers : WritesAccounts(c)
         /\ (sessions' = sessions /\ endedAt' = endedAt) \/ \E c \in Callers : WritesSessions(c)
         /\ bearers' = bearers \/ \E c \in Callers : LoginIssue(c) \/ RefreshIssue(c)
         /\ apiTokens' = apiTokens \/ \E c \in Callers : WritesTokens(c)
         /\ groups' = groups \/ \E c \in Callers : WritesGroups(c)
         /\ grants' = grants \/ \E c \in Callers : WritesGrants(c)
         /\ now' = now \/ Tick
         /\ withdrawn' = withdrawn \/ withdrawn' = withdrawn + 1
         /\ call' = call \/ \E c \in Callers : GoesOn(c) \/ call' = [call EXCEPT ![c] = Outside]
<1> USE DEF AccessNext, SigningIn, Entering, OwnAffairs, ManagingUsers, ManagingGroups
<1>1. accounts' = accounts \/ \E c \in Callers : WritesAccounts(c)
  BY ZenonT(60) DEF WritesAccounts, Tick, LoginRead, LoginIssue, RefreshExpired, RefreshRead, RefreshIssue,
     AuthenticateBearer, AuthenticateToken, Authorize, Logout, CreateToken, DeleteToken, CreateGroup, DeleteGroup,
     AddMember, RemoveMember, GrantGlobal, RevokeGlobal
<1>2. (sessions' = sessions /\ endedAt' = endedAt) \/ \E c \in Callers : WritesSessions(c)
  BY ZenonT(60) DEF WritesSessions, Tick, LoginRead, RefreshRead, RefreshIssue, AuthenticateBearer,
     AuthenticateToken, Authorize, ChangePassword, CreateToken, CreateUser, Deactivate, Reactivate, DeleteToken,
     CreateGroup, DeleteGroup, AddMember, RemoveMember, GrantGlobal, RevokeGlobal
<1>3. bearers' = bearers \/ \E c \in Callers : LoginIssue(c) \/ RefreshIssue(c)
  BY ZenonT(60) DEF Tick, LoginRead, RefreshExpired, RefreshRead, AuthenticateBearer, AuthenticateToken, Authorize,
     Logout, ChangePassword, CreateToken, CreateUser, Deactivate, Reactivate, DeleteToken, CreateGroup, DeleteGroup,
     AddMember, RemoveMember, GrantGlobal, RevokeGlobal
<1>4. apiTokens' = apiTokens \/ \E c \in Callers : WritesTokens(c)
  BY ZenonT(60) DEF WritesTokens, Tick, LoginRead, LoginIssue, RefreshExpired, RefreshRead, RefreshIssue,
     AuthenticateBearer, AuthenticateToken, Authorize, Logout, ChangePassword, CreateUser, Deactivate, Reactivate,
     CreateGroup, DeleteGroup, AddMember, RemoveMember, GrantGlobal, RevokeGlobal
<1>5. groups' = groups \/ \E c \in Callers : WritesGroups(c)
  BY ZenonT(60) DEF WritesGroups, Tick, LoginRead, LoginIssue, RefreshExpired, RefreshRead, RefreshIssue,
     AuthenticateBearer, AuthenticateToken, Authorize, Logout, ChangePassword, CreateToken, CreateUser, Deactivate,
     Reactivate, DeleteToken, GrantGlobal, RevokeGlobal
<1>6. grants' = grants \/ \E c \in Callers : WritesGrants(c)
  BY ZenonT(60) DEF WritesGrants, Tick, LoginRead, LoginIssue, RefreshExpired, RefreshRead, RefreshIssue,
     AuthenticateBearer, AuthenticateToken, Authorize, Logout, ChangePassword, CreateToken, CreateUser, Deactivate,
     Reactivate, DeleteToken, CreateGroup, DeleteGroup, AddMember, RemoveMember
<1>7. now' = now \/ Tick
  BY ZenonT(60) DEF LoginRead, LoginIssue, RefreshExpired, RefreshRead, RefreshIssue, AuthenticateBearer,
     AuthenticateToken, Authorize, Logout, ChangePassword, CreateToken, CreateUser, Deactivate, Reactivate,
     DeleteToken, CreateGroup, DeleteGroup, AddMember, RemoveMember, GrantGlobal, RevokeGlobal
<1>8. withdrawn' = withdrawn \/ withdrawn' = withdrawn + 1
  BY ZenonT(60) DEF Withdraw, Tick, LoginRead, LoginIssue, RefreshExpired, RefreshRead, RefreshIssue,
     AuthenticateBearer, AuthenticateToken, Authorize, Logout, ChangePassword, CreateToken, CreateUser, Deactivate,
     Reactivate, DeleteToken, CreateGroup, DeleteGroup, AddMember, RemoveMember, GrantGlobal, RevokeGlobal
<1>9. call' = call \/ \E c \in Callers : GoesOn(c) \/ call' = [call EXCEPT ![c] = Outside]
  BY ZenonT(60) DEF GoesOn, Finish, Tick, LoginIssue, RefreshExpired, RefreshIssue, Logout, ChangePassword,
     CreateToken, CreateUser, Deactivate, Reactivate, DeleteToken, CreateGroup, DeleteGroup, AddMember,
     RemoveMember, GrantGlobal, RevokeGlobal
<1>10. QED
  BY <1>1, <1>2, <1>3, <1>4, <1>5, <1>6, <1>7, <1>8, <1>9

\* Accounts stay, and only a withdrawal deactivates one.
LEMMA AccountsStep ==
  ASSUME AccessShape, CallsHaveAccounts, AccessNext
  PROVE  /\ accounts' = [u \in DOMAIN accounts' |-> accounts'[u]]
         /\ DOMAIN accounts \subseteq DOMAIN accounts' /\ DOMAIN accounts' \subseteq Users
         /\ \A u \in DOMAIN accounts' : accounts'[u] \in AccountRows
         /\ \A u \in DOMAIN accounts : accounts[u].active => accounts'[u].active \/ withdrawn' = withdrawn + 1
<1>1. /\ accounts = [u \in DOMAIN accounts |-> accounts[u]] /\ DOMAIN accounts \subseteq Users
      /\ \A u \in DOMAIN accounts : accounts[u] \in [active : BOOLEAN, password : Passwords]
  BY DEF AccessShape, AccessTypeOK, AccountRows
<1> DEFINE Kept == /\ accounts' = [u \in DOMAIN accounts' |-> accounts'[u]]
                   /\ DOMAIN accounts \subseteq DOMAIN accounts' /\ DOMAIN accounts' \subseteq Users
                   /\ \A u \in DOMAIN accounts' : accounts'[u] \in AccountRows
                   /\ \A u \in DOMAIN accounts : accounts[u].active => accounts'[u].active \/ withdrawn' = withdrawn + 1
<1>2. ASSUME NEW c \in Callers, NEW old \in Passwords, NEW new \in Passwords, ChangePassword(c, old, new)
      PROVE  Kept
  <2>1. accounts' = [accounts EXCEPT ![call[c].user].password = new]
    BY <1>2 DEF ChangePassword
  <2>2. QED
    BY <1>1, <2>1 DEF AccountRows
<1>3. ASSUME NEW u \in Users, NEW p \in Passwords, NEW c \in Callers, CreateUser(c, u, p)
      PROVE  Kept
  <2> DEFINE row == [active |-> TRUE, password |-> p]
  <2>1. u \notin DOMAIN accounts /\ accounts' = Put(accounts, u, row)
    BY <1>3 DEF CreateUser
  <2>2. row \in AccountRows
    BY DEF AccountRows
  <2> HIDE DEF row
  <2>3. QED
    BY <1>1, <2>1, <2>2 DEF AccountRows, Put
<1>4. ASSUME NEW u \in DOMAIN accounts, NEW c \in Callers, Deactivate(c, u)
      PROVE  Kept
  <2>1. accounts' = [accounts EXCEPT ![u].active = FALSE] /\ withdrawn' = withdrawn + 1
    BY <1>4 DEF Deactivate, Withdraw
  <2>2. QED
    BY <1>1, <2>1 DEF AccountRows
<1>5. ASSUME NEW u \in DOMAIN accounts, NEW c \in Callers, Reactivate(c, u)
      PROVE  Kept
  <2>1. accounts' = [accounts EXCEPT ![u].active = TRUE]
    BY <1>5 DEF Reactivate
  <2>2. QED
    BY <1>1, <2>1 DEF AccountRows
<1>6. CASE accounts' = accounts
  BY <1>1, <1>6 DEF AccountRows
<1>7. CASE \E c \in Callers : WritesAccounts(c)
  BY <1>2, <1>3, <1>4, <1>5, <1>7 DEF WritesAccounts
<1>8. QED
  BY <1>6, <1>7, Frames

\* What a call remembers when it begins or goes on.
LEMMA GoingOn ==
  ASSUME AccessShape, CallsHaveAccounts, NEW c \in Callers, GoesOn(c)
  PROVE  \E r \in Calls : /\ call' = [call EXCEPT ![c] = r]
                          /\ r.stage # "outside" => r.user \in DOMAIN accounts
                          /\ r.withdrawn <= withdrawn
<1> DEFINE Follows(r) == /\ call' = [call EXCEPT ![c] = r]
                         /\ r.stage # "outside" => r.user \in DOMAIN accounts
                         /\ r.withdrawn <= withdrawn
<1>1. /\ call[c] \in Calls /\ withdrawn \in Nat /\ 0 <= withdrawn /\ withdrawn <= withdrawn
      /\ DOMAIN accounts \subseteq Users
      /\ \A u \in DOMAIN accounts : accounts[u].password \in Passwords
      /\ call[c].stage # "outside" => call[c].user \in DOMAIN accounts
      /\ call[c].withdrawn <= withdrawn
  BY DEF AccessShape, AccessTypeOK, AccountRows, CallsHaveAccounts
<1>2. ASSUME NEW u \in Users, NEW p \in Passwords, LoginRead(c, u, p) PROVE \E r \in Calls : Follows(r)
  <2> DEFINE r == [Outside EXCEPT !.stage = "login", !.user = u]
  <2>1. r \in Calls /\ r.user = u /\ r.withdrawn = 0
    BY DEF Outside, Calls, Stages
  <2>2. QED
    BY <1>1, <1>2, <2>1 DEF LoginRead, ActiveAccount
<1>3. ASSUME NEW s \in sessions, RefreshRead(c, s) PROVE \E r \in Calls : Follows(r)
  <2> DEFINE r == [Outside EXCEPT !.stage = "refresh", !.user = s.user, !.session = s.id]
  <2>1. s.user \in DOMAIN accounts /\ s.user \in Users /\ s.id \in Nat
    BY <1>1 DEF AccessShape, AccessTypeOK, SessionRows
  <2>2. r \in Calls /\ r.user = s.user /\ r.withdrawn = 0
    BY <2>1 DEF Outside, Calls, Stages
  <2>3. QED
    BY <1>1, <1>3, <2>1, <2>2 DEF RefreshRead
<1>4. ASSUME NEW u, u \in DOMAIN accounts, Enter(c, u) PROVE \E r \in Calls : Follows(r)
  <2> DEFINE r == [Outside EXCEPT !.stage = "known", !.user = u, !.password = accounts[u].password,
                                  !.withdrawn = withdrawn]
  <2>1. r \in Calls /\ r.user = u /\ r.withdrawn = withdrawn
    BY <1>1, <1>4 DEF Outside, Calls, Stages
  <2>2. QED
    BY <1>1, <1>4, <2>1 DEF Enter
<1>5. ASSUME NEW p \in Permissions, Authorize(c, p) PROVE \E r \in Calls : Follows(r)
  <2> DEFINE r == [call[c] EXCEPT !.stage = "authorised", !.permission = p]
  <2>1. r \in Calls /\ r.user = call[c].user /\ r.withdrawn = call[c].withdrawn /\ call[c].stage # "outside"
    BY <1>1, <1>5 DEF Authorize, Calls, Stages
  <2>2. Outside \in Calls /\ Outside.stage = "outside" /\ Outside.withdrawn = 0
    BY DEF Outside, Calls, Stages
  <2>3. call' = [call EXCEPT ![c] = IF HasGlobal(call[c].user, p) THEN r ELSE Outside]
    BY <1>5 DEF Authorize
  <2> HIDE DEF r
  <2>4. Follows(r) \/ Follows(Outside)
    BY <1>1, <2>1, <2>2, <2>3
  <2>5. QED
    BY <2>1, <2>2, <2>4
<1>6. ASSUME NEW b, AuthenticateBearer(c, b) \/ AuthenticateToken(c, b) PROVE \E r \in Calls : Follows(r)
  BY <1>4, <1>6 DEF AuthenticateBearer, AuthenticateToken, KnownUser, ActiveAccount
<1>7. QED
  BY <1>2, <1>3, <1>5, <1>6 DEF GoesOn, Entering

LEMMA CallsStep ==
  ASSUME AccessShape, CallsHaveAccounts, AccessNext
  PROVE  call' \in [Callers -> Calls] /\ CallsHaveAccounts'
<1>1. /\ call \in [Callers -> Calls] /\ withdrawn \in Nat /\ withdrawn' \in Nat /\ withdrawn <= withdrawn'
      /\ DOMAIN accounts \subseteq DOMAIN accounts'
  BY Frames, AccountsStep DEF AccessShape
<1>2. \A c \in Callers : call[c].withdrawn \in Nat
  BY <1>1 DEF Calls
<1>3. ASSUME NEW c \in Callers, NEW r \in Calls, call' = [call EXCEPT ![c] = r],
             r.stage # "outside" => r.user \in DOMAIN accounts, r.withdrawn <= withdrawn
      PROVE  call' \in [Callers -> Calls] /\ CallsHaveAccounts'
  <2>0. r.withdrawn \in Nat
    BY DEF Calls
  <2>1. r.withdrawn <= withdrawn'
    BY <1>1, <1>3, <2>0
  <2>2. \A d \in Callers : call'[d] = (IF d = c THEN r ELSE call[d]) /\ call[d].withdrawn <= withdrawn'
    BY <1>1, <1>2, <1>3 DEF CallsHaveAccounts
  <2>3. QED
    BY <1>1, <1>3, <2>1, <2>2 DEF CallsHaveAccounts
<1>4. /\ Outside \in Calls /\ Outside.stage = "outside" /\ Outside.withdrawn = 0
      /\ 0 <= withdrawn
  <2>1. Outside \in Calls /\ Outside.stage = "outside" /\ Outside.withdrawn = 0
    BY DEF Outside, Calls, Stages
  <2>2. QED
    BY <1>1, <2>1
<1>5. CASE call' = call
  BY <1>1, <1>2, <1>5 DEF CallsHaveAccounts
<1>6. QED
  BY <1>3, <1>4, <1>5, Frames, GoingOn

-----------------------------------------------------------------------------
(* Access: sessions                                                        *)

\* Sessions are numbered as they are stored, and no two that are alive share a number.
SessionsNumbered ==
    /\ \E n \in Nat : SessionIds = 1..n
    /\ \A s, t \in sessions : s.id = t.id => s = t

SessionsSound ==
    /\ \A s \in sessions : s \in SessionRows /\ s.user \in DOMAIN accounts /\ s.id \notin DOMAIN endedAt
    /\ endedAt = [i \in DOMAIN endedAt |-> endedAt[i]]
    /\ \A i \in DOMAIN endedAt : endedAt[i] \in Nat
    /\ SessionsNumbered

LEMMA SessionStored ==
  ASSUME AccessShape, CallsHaveAccounts, SessionsSound, NEW c \in Callers, LoginIssue(c)
  PROVE  \E new \in SessionRows :
            /\ sessions' = sessions \cup {new} /\ endedAt' = endedAt
            /\ new.user = call[c].user /\ new.expires = now + RefreshExpiry
            /\ bearers' = bearers \cup {Bearer(call[c].user, new.id)}
            /\ \E n \in Nat : SessionIds = 1..n /\ new.id = n + 1
<1>1. PICK n \in Nat : SessionIds = 1..n
  BY DEF SessionsSound, SessionsNumbered
<1>2. Cardinality(SessionIds) = n
  BY <1>1, FS_Interval
<1>3. call[c].user \in Users /\ now + RefreshExpiry \in Nat /\ n + 1 \in Nat
  <2>1. call[c].user \in Users
    BY DEF LoginIssue, CallsHaveAccounts, AccessShape, AccessTypeOK
  <2>2. now + RefreshExpiry \in Nat
    BY AccessAssumption DEF AccessShape
  <2>3. QED
    BY <2>1, <2>2
<1> DEFINE new == [id |-> n + 1, user |-> call[c].user, expires |-> now + RefreshExpiry]
<1>4. new \in SessionRows
  BY <1>3 DEF SessionRows
<1>5. sessions' = sessions \cup {new} /\ endedAt' = endedAt /\ bearers' = bearers \cup {Bearer(call[c].user, n + 1)}
  BY <1>2 DEF LoginIssue
<1>6. QED
  BY <1>1, <1>4, <1>5

LEMMA SessionEnded ==
  ASSUME NEW c \in Callers, NEW s \in sessions, RefreshExpired(c, s) \/ Logout(c, s)
  PROVE  /\ sessions' = sessions \ {s}
         /\ endedAt' = [i \in DOMAIN endedAt \cup {s.id} |-> IF i = s.id THEN now ELSE endedAt[i]]
  BY DEF RefreshExpired, Logout, End, Put

LEMMA SessionsStep ==
  ASSUME AccessShape, CallsHaveAccounts, SessionsSound, AccessNext
  PROVE  SessionsSound'
<1>1. DOMAIN accounts \subseteq DOMAIN accounts' /\ now \in Nat
  BY AccountsStep DEF AccessShape
<1>2. CASE sessions' = sessions /\ endedAt' = endedAt
  BY <1>1, <1>2 DEF SessionsSound, SessionsNumbered, SessionIds
<1>3. ASSUME NEW c \in Callers, LoginIssue(c) PROVE SessionsSound'
  <2>1. PICK new \in SessionRows :
          /\ sessions' = sessions \cup {new} /\ endedAt' = endedAt /\ new.user = call[c].user
          /\ \E n \in Nat : SessionIds = 1..n /\ new.id = n + 1
    BY <1>3, SessionStored
  <2>2. PICK n \in Nat : SessionIds = 1..n /\ new.id = n + 1
    BY <2>1
  <2>3. new.id \notin DOMAIN endedAt /\ \A s \in sessions : s.id # new.id
    BY <2>2 DEF SessionIds
  <2>4. SessionIds' = 1..(n + 1)
    BY <2>1, <2>2 DEF SessionIds
  <2>5. new.user \in DOMAIN accounts
    BY <1>3, <2>1 DEF LoginIssue, CallsHaveAccounts
  <2>6. \A s \in sessions' : s \in SessionRows /\ s.user \in DOMAIN accounts' /\ s.id \notin DOMAIN endedAt'
    BY <1>1, <2>1, <2>3, <2>5 DEF SessionsSound
  <2>7. \A s, t \in sessions' : s.id = t.id => s = t
    BY <2>1, <2>3 DEF SessionsSound, SessionsNumbered
  <2>8. QED
    BY <2>1, <2>4, <2>6, <2>7 DEF SessionsSound, SessionsNumbered
<1>4. ASSUME NEW c \in Callers, NEW s \in sessions, RefreshExpired(c, s) \/ Logout(c, s) PROVE SessionsSound'
  <2>1. /\ sessions' = sessions \ {s}
        /\ endedAt' = [i \in DOMAIN endedAt \cup {s.id} |-> IF i = s.id THEN now ELSE endedAt[i]]
    BY <1>4, SessionEnded
  <2>2. SessionIds' = SessionIds
    BY <2>1 DEF SessionIds
  <2>3. \A t \in sessions' : t \in SessionRows /\ t.user \in DOMAIN accounts' /\ t.id \notin DOMAIN endedAt'
    BY <1>1, <2>1 DEF SessionsSound, SessionsNumbered
  <2>4. QED
    BY <1>1, <2>1, <2>2, <2>3 DEF SessionsSound, SessionsNumbered
<1>5. QED
  BY <1>2, <1>3, <1>4, Frames DEF WritesSessions

-----------------------------------------------------------------------------
(* Access: groups, grants and tokens                                       *)

\* A bounded set of numbers has a greatest one.
LEMMA MaxOfNumbers ==
  ASSUME NEW n \in Nat, NEW S, S \subseteq 0..n, S # {}
  PROVE  Max(S) \in S /\ \A k \in S : k <= Max(S)
<1> DEFINE Below == {n - k : k \in S}
<1>1. Below \subseteq Nat /\ Below # {}
  <2>1. \A k \in S : n - k \in Nat
    OBVIOUS
  <2>2. QED
    BY <2>1
<1>2. PICK least \in Below : \A d \in Below : ~(<<d, least>> \in OpToRel(<, Nat))
  BY <1>1, NatLessThanWellFounded, WFMin
<1>3. ASSUME NEW d \in Below PROVE ~(d < least)
  <2>1. d \in Nat /\ least \in Nat
    BY <1>1
  <2>2. d < least => <<d, least>> \in OpToRel(<, Nat)
    BY <2>1 DEF OpToRel
  <2>3. QED
    BY <1>2, <2>2
<1>4. PICK k \in S : least = n - k
  OBVIOUS
<1>5. ASSUME NEW j \in S PROVE k >= j
  <2>1. n - j \in Below
    OBVIOUS
  <2>2. ~(n - j < n - k)
    BY <1>3, <1>4, <2>1
  <2> HIDE DEF Below
  <2>3. QED
    BY <2>2
<1>6. Max(S) \in S /\ \A j \in S : Max(S) >= j
  BY <1>5 DEF Max
<1>7. QED
  BY <1>6

\* The highest group id there may be, those of the two built-in groups included.
LastGroup == MaxGroups + 2

\* Ids are small numbers, one of them that of a group which stays.
GroupsNumbered ==
    /\ Admins \in DOMAIN groups /\ groups[Admins].builtin
    /\ DOMAIN groups \subseteq 1..LastGroup
    /\ \A x \in grants : x[1] = "group" => x[2] \in 1..LastGroup

\* A grant to a group is a grant to the group that has its id now, if one has.
GrantsMatch ==
    \A x \in grants, g \in DOMAIN groups : x[1] = "group" /\ x[2] = g => x[4] = groups[g].born

GroupsSound ==
    /\ groups = [g \in DOMAIN groups |-> groups[g]]
    /\ \A g \in DOMAIN groups : groups[g] \in GroupRows /\ groups[g].members \subseteq DOMAIN accounts
    /\ grants \subseteq GrantRows
    /\ GroupsNumbered /\ GrantsMatch

\* A new group has an id that neither a group nor a grant has.
LEMMA NextGroupIsNew ==
  ASSUME GroupsSound
  PROVE  /\ NextGroup \in Nat /\ NextGroup >= 1
         /\ NextGroup \notin DOMAIN groups
         /\ \A x \in grants : x[1] = "group" => x[2] # NextGroup
<1> DEFINE Used == DOMAIN groups \cup {g[2] : g \in {x \in grants : x[1] = "group"}}
<1>1. LastGroup \in Nat
  BY AccessAssumption DEF LastGroup
<1>2. /\ Used \subseteq 1..LastGroup /\ Used \subseteq 0..LastGroup /\ Used # {}
      /\ \A x \in grants : x[1] = "group" => x[2] \in Used
  BY <1>1 DEF GroupsSound, GroupsNumbered
<1>3. NextGroup = Max(Used) + 1
  BY DEF NextGroup
<1> HIDE DEF Used
<1>4. Max(Used) \in Used /\ \A k \in Used : k <= Max(Used)
  BY <1>1, <1>2, MaxOfNumbers
<1>5. NextGroup \in Nat /\ NextGroup >= 1 /\ NextGroup \notin Used
  <2> DEFINE m == Max(Used)
  <2>1. m \in 1..LastGroup /\ \A k \in Used : k <= m
    BY <1>2, <1>4
  <2> HIDE DEF m
  <2>2. m \in Nat /\ m >= 1
    BY <1>1, <2>1
  <2>3. m + 1 \notin Used
    BY <1>1, <1>2, <2>1, <2>2
  <2>4. NextGroup = m + 1
    BY <1>3 DEF m
  <2>5. QED
    BY <2>2, <2>3, <2>4
<1>6. QED
  BY <1>2, <1>5 DEF Used

LEMMA GroupsStep ==
  ASSUME AccessShape, CallsHaveAccounts, GroupsSound, AccessNext
  PROVE  GroupsSound'
<1>1. DOMAIN accounts \subseteq DOMAIN accounts' /\ DOMAIN accounts \subseteq Users /\ withdrawn \in Nat
  BY AccountsStep DEF AccessShape, AccessTypeOK
<1>2. /\ groups = [g \in DOMAIN groups |-> groups[g]]
      /\ \A g \in DOMAIN groups : /\ groups[g] \in [name : GroupNames \cup {"ollanta-admins", "ollanta-users"},
                                                    builtin : BOOLEAN, members : SUBSET Users, born : Nat]
                                  /\ groups[g].members \subseteq DOMAIN accounts
      /\ Admins \in DOMAIN groups /\ groups[Admins].builtin
  BY DEF GroupsSound, GroupsNumbered, GroupRows
<1>3. CASE groups' = groups /\ grants' = grants
  BY <1>1, <1>3 DEF GroupsSound, GroupsNumbered, GrantsMatch
<1>4. ASSUME NEW c \in Callers, NEW n \in GroupNames, CreateGroup(c, n) PROVE GroupsSound'
  <2> DEFINE row == [name |-> n, builtin |-> FALSE, members |-> {}, born |-> withdrawn]
             g0 == NextGroup
  <2>1. groups' = Put(groups, g0, row) /\ grants' = grants /\ g0 <= MaxGroups
    BY <1>4 DEF CreateGroup
  <2>2. row \in GroupRows /\ row.members = {}
    BY <1>1 DEF GroupRows
  <2>3. g0 \in Nat /\ g0 >= 1 /\ g0 \notin DOMAIN groups /\ \A x \in grants : x[1] = "group" => x[2] # g0
    BY NextGroupIsNew
  <2> HIDE DEF row, g0
  <2>4. /\ groups' = [g \in DOMAIN groups \cup {g0} |-> IF g = g0 THEN row ELSE groups[g]]
        /\ DOMAIN groups' = DOMAIN groups \cup {g0}
        /\ groups'[g0] = row /\ \A g \in DOMAIN groups : groups'[g] = groups[g]
    BY <2>1, <2>3 DEF Put
  <2>5. g0 \in 1..LastGroup
    BY <2>1, <2>3, AccessAssumption DEF LastGroup
  <2>6. GroupsNumbered' /\ GrantsMatch'
    BY <2>1, <2>3, <2>4, <2>5 DEF GroupsSound, GroupsNumbered, GrantsMatch
  <2>7. \A g \in DOMAIN groups' : groups'[g] \in GroupRows /\ groups'[g].members \subseteq DOMAIN accounts'
    BY <1>1, <2>2, <2>4 DEF GroupsSound
  <2>8. groups' = [g \in DOMAIN groups' |-> groups'[g]]
    BY <2>4
  <2>9. QED
    BY <2>1, <2>6, <2>7, <2>8 DEF GroupsSound
<1>5. ASSUME NEW c \in Callers, NEW d \in DOMAIN groups, DeleteGroup(c, d) PROVE GroupsSound'
  <2>1. groups' = [g \in DOMAIN groups \ {d} |-> groups[g]] /\ grants' = grants /\ ~groups[d].builtin
    BY <1>5 DEF DeleteGroup, Restrict
  <2>2. d # Admins
    BY <1>2, <2>1
  <2>3. QED
    BY <1>1, <2>1, <2>2 DEF GroupsSound, GroupsNumbered, GrantsMatch
<1>6. ASSUME NEW c \in Callers, NEW d \in DOMAIN groups, NEW u \in DOMAIN accounts,
             AddMember(c, d, u) \/ RemoveMember(c, d, u)
      PROVE  GroupsSound'
  <2>1. PICK members \in SUBSET Users :
          /\ members \subseteq DOMAIN accounts
          /\ groups' = [groups EXCEPT ![d].members = members] /\ grants' = grants
    <3>1. groups[d].members \subseteq DOMAIN accounts
      BY <1>2
    <3>2. CASE AddMember(c, d, u)
      BY <1>1, <3>1, <3>2 DEF AddMember
    <3>3. CASE RemoveMember(c, d, u)
      BY <1>1, <3>1, <3>3 DEF RemoveMember
    <3>4. QED
      BY <1>6, <3>2, <3>3
  <2>2. /\ DOMAIN groups' = DOMAIN groups /\ groups' = [g \in DOMAIN groups' |-> groups'[g]]
        /\ \A g \in DOMAIN groups : g # d => groups'[g] = groups[g]
        /\ groups'[d] = [groups[d] EXCEPT !.members = members]
    BY <1>2, <2>1
  <2>3. /\ groups'[d] \in GroupRows /\ groups'[d].members = members
        /\ groups'[d].born = groups[d].born /\ groups'[d].builtin = groups[d].builtin
    BY <1>2, <2>2 DEF GroupRows
  <2>4. QED
    BY <1>1, <2>1, <2>2, <2>3 DEF GroupsSound, GroupsNumbered, GrantsMatch
<1>7. ASSUME NEW c \in Callers, NEW target \in Targets, NEW p \in Permissions, GrantGlobal(c, target, p)
      PROVE  GroupsSound'
  <2> DEFINE new == <<target[1], target[2], p, target[3]>>
  <2>1. grants' = grants \cup {new} /\ groups' = groups
    BY <1>7 DEF GrantGlobal
  <2>2. /\ new \in GrantRows
        /\ new[1] = "group" => new[2] \in 1..LastGroup
        /\ \A g \in DOMAIN groups : new[1] = "group" /\ new[2] = g => new[4] = groups[g].born
    <3>1. CASE \E u \in DOMAIN accounts : target = <<"user", u, 0>>
      BY <1>1, <3>1 DEF GrantRows
    <3>2. CASE \E g \in DOMAIN groups : target = <<"group", g, groups[g].born>>
      <4>1. PICK g \in DOMAIN groups : target = <<"group", g, groups[g].born>>
        BY <3>2
      <4>2. g \in Nat /\ groups[g].born \in Nat /\ g \in 1..LastGroup
        BY <1>2 DEF GroupsSound, GroupsNumbered
      <4>3. QED
        BY <4>1, <4>2 DEF GrantRows
    <3>3. QED
      BY <3>1, <3>2 DEF Targets
  <2> HIDE DEF new
  <2>3. grants' \subseteq GrantRows /\ GroupsNumbered'
    <3>1. grants' \subseteq GrantRows
      BY <2>1, <2>2 DEF GroupsSound
    <3>2. \A x \in grants' : x[1] = "group" => x[2] \in 1..LastGroup
      BY Zenon, <2>1, <2>2 DEF GroupsSound, GroupsNumbered
    <3>3. QED
      BY <2>1, <3>1, <3>2 DEF GroupsSound, GroupsNumbered
  <2>4. GrantsMatch'
    BY <2>1, <2>2 DEF GroupsSound, GrantsMatch
  <2>5. QED
    BY <1>1, <1>2, <2>1, <2>3, <2>4 DEF GroupsSound
<1>8. ASSUME NEW c \in Callers, NEW x \in grants, RevokeGlobal(c, x) PROVE GroupsSound'
  <2>1. grants' = grants \ {x} /\ groups' = groups
    BY <1>8 DEF RevokeGlobal
  <2>2. QED
    BY <1>1, <2>1 DEF GroupsSound, GroupsNumbered, GrantsMatch
<1>9. QED
  BY <1>3, <1>4, <1>5, <1>6, <1>7, <1>8, Frames DEF WritesGroups, WritesGrants

\* A permission that somebody was given stays his unless something is taken away.
LEMMA GivenKept ==
  ASSUME AccessShape, CallsHaveAccounts, GroupsSound, AccessNext, NEW u, NEW p, GivenTo(u, p)
  PROVE  GivenTo(u, p)' \/ withdrawn' = withdrawn + 1
<1>1. PICK x \in grants :
         /\ x[3] = p
         /\ \/ x[1] = "user" /\ x[2] = u
            \/ \E g \in DOMAIN groups : x[1] = "group" /\ x[2] = g /\ x[4] = groups[g].born /\ u \in groups[g].members
  BY DEF GivenTo
<1>2. ASSUME x \in grants',
             \A g \in DOMAIN groups : /\ g \in DOMAIN groups' /\ groups'[g].born = groups[g].born
                                      /\ groups[g].members \subseteq groups'[g].members
      PROVE  GivenTo(u, p)'
  BY <1>1, <1>2 DEF GivenTo
<1>3. ASSUME NEW c \in Callers, NEW n \in GroupNames, CreateGroup(c, n) PROVE GivenTo(u, p)'
  <2>1. grants' = grants /\ \E row : groups' = Put(groups, NextGroup, row)
    BY <1>3 DEF CreateGroup
  <2>2. NextGroup \notin DOMAIN groups
    BY NextGroupIsNew
  <2>3. QED
    BY <1>2, <2>1, <2>2 DEF Put
<1>4. ASSUME NEW c \in Callers, NEW g \in DOMAIN groups, NEW v \in DOMAIN accounts, AddMember(c, g, v)
      PROVE  GivenTo(u, p)'
  <2>1. grants' = grants /\ groups' = [groups EXCEPT ![g].members = @ \cup {v}]
    BY <1>4 DEF AddMember
  <2>2. /\ DOMAIN groups' = DOMAIN groups /\ \A h \in DOMAIN groups : h # g => groups'[h] = groups[h]
        /\ groups'[g] = [groups[g] EXCEPT !.members = @ \cup {v}]
    BY <2>1 DEF GroupsSound
  <2>3. groups'[g].born = groups[g].born /\ groups[g].members \subseteq groups'[g].members
    BY <2>2 DEF GroupsSound, GroupRows
  <2>4. QED
    BY <1>2, <2>1, <2>2, <2>3
<1>5. ASSUME NEW c \in Callers, NEW g, NEW v, DeleteGroup(c, g) \/ RemoveMember(c, g, v) \/ RevokeGlobal(c, v)
      PROVE  withdrawn' = withdrawn + 1
  BY <1>5 DEF DeleteGroup, RemoveMember, RevokeGlobal, Withdraw
<1>6. ASSUME NEW c \in Callers, NEW target \in Targets, NEW q \in Permissions, GrantGlobal(c, target, q)
      PROVE  GivenTo(u, p)'
  BY <1>2, <1>6 DEF GrantGlobal
<1>7. CASE groups' = groups /\ grants' = grants
  BY <1>2, <1>7
<1>8. QED
  BY <1>3, <1>4, <1>5, <1>6, <1>7, Frames DEF WritesGroups, WritesGrants

TokensSound ==
    IsFiniteSet(apiTokens) /\ \A t \in apiTokens : t \in TokenRows /\ t.user \in DOMAIN accounts

LEMMA TokensStep ==
  ASSUME AccessShape, CallsHaveAccounts, TokensSound, AccessNext
  PROVE  TokensSound'
<1>1. DOMAIN accounts \subseteq DOMAIN accounts' /\ DOMAIN accounts \subseteq Users /\ now \in Nat
  BY AccountsStep DEF AccessShape, AccessTypeOK
<1>2. CASE apiTokens' = apiTokens
  BY <1>1, <1>2 DEF TokensSound
<1>3. ASSUME NEW c \in Callers, NEW e \in {now, Never}, CreateToken(c, e) PROVE TokensSound'
  <2> DEFINE new == [id |-> Cardinality(apiTokens) + 1, user |-> call[c].user, expires |-> e]
  <2>1. apiTokens' = apiTokens \cup {new} /\ call[c].stage = "known"
    BY <1>3 DEF CreateToken
  <2>2. call[c].user \in DOMAIN accounts
    BY <2>1 DEF CallsHaveAccounts
  <2>3. Cardinality(apiTokens) + 1 \in Nat /\ e \in Nat
    BY <1>1, FS_CardinalityType, AccessAssumption DEF TokensSound, Never
  <2>4. new \in TokenRows /\ new.user \in DOMAIN accounts
    BY <1>1, <2>2, <2>3 DEF TokenRows
  <2> HIDE DEF new
  <2>5. QED
    BY <1>1, <2>1, <2>4, FS_AddElement DEF TokensSound
<1>4. ASSUME NEW c \in Callers, NEW t \in apiTokens, DeleteToken(c, t) PROVE TokensSound'
  <2>1. apiTokens' = apiTokens \ {t}
    BY <1>4 DEF DeleteToken
  <2>2. QED
    BY <1>1, <2>1, FS_RemoveElement DEF TokensSound
<1>5. QED
  BY <1>2, <1>3, <1>4, Frames DEF WritesTokens

-----------------------------------------------------------------------------
(* Access: access tokens                                                   *)

\* A refresh that is under way began in this tick, with a session that was not over: it still is
\* not, or it ended in this tick.
RefreshesAreRecent ==
    \A c \in Callers : call[c].stage = "refresh" =>
        /\ call[c].session \in SessionIds
        /\ \A s \in sessions : s.id = call[c].session => now <= s.expires
        /\ call[c].session \in DOMAIN endedAt => endedAt[call[c].session] = now

BearersSound ==
    /\ \A b \in bearers : /\ b \in Bearers /\ b.user \in DOMAIN accounts /\ b.session \in SessionIds
                          /\ b.issued <= now /\ b.expires = b.issued + JWTExpiry
    /\ RefreshesAreRecent
    /\ AccessEndsWithSession

LEMMA BearerFields ==
  ASSUME AccessShape, NEW u \in Users, NEW i \in Nat
  PROVE  /\ Bearer(u, i) \in Bearers /\ Bearer(u, i).user = u /\ Bearer(u, i).session = i
         /\ Bearer(u, i).issued = now /\ Bearer(u, i).expires = now + JWTExpiry
<1>1. now \in Nat /\ now + JWTExpiry \in Nat
  BY AccessAssumption DEF AccessShape
<1>2. QED
  BY <1>1 DEF Bearer, Bearers

\* What one step does to sessions, access tokens and the clock.
SessionsGo ==
    \/ UNCHANGED <<sessions, endedAt, bearers, now>>
    \/ Tick /\ UNCHANGED <<sessions, endedAt, bearers>>
    \/ \E c \in Callers : LoginIssue(c) \/ RefreshIssue(c)
    \/ \E c \in Callers, s \in sessions : RefreshExpired(c, s) \/ Logout(c, s)

LEMMA SessionsGoing == ASSUME AccessNext PROVE SessionsGo
  BY ZenonT(60) DEF SessionsGo, AccessNext, SigningIn, Entering, OwnAffairs, ManagingUsers, ManagingGroups, Tick,
     LoginRead, RefreshRead, AuthenticateBearer, AuthenticateToken, Authorize, ChangePassword, CreateToken,
     CreateUser, Deactivate, Reactivate, DeleteToken, CreateGroup, DeleteGroup, AddMember, RemoveMember,
     GrantGlobal, RevokeGlobal

LEMMA OutsideStage == Outside.stage = "outside" /\ Outside.stage # "refresh"
  BY DEF Outside

LEMMA Refreshing ==
  ASSUME AccessShape, CallsHaveAccounts, AccessNext, NEW d \in Callers, call'[d].stage = "refresh"
  PROVE  call'[d] = call[d] \/ \E s \in sessions : RefreshRead(d, s) /\ call'[d].session = s.id
<1>1. call \in [Callers -> Calls]
  BY DEF AccessShape
<1>2. ASSUME NEW r, call' = [call EXCEPT ![d] = r], r.stage # "refresh" PROVE FALSE
  BY <1>1, <1>2
<1>3. ASSUME NEW u, NEW p, LoginRead(d, u, p) PROVE FALSE
  <2> DEFINE r == [Outside EXCEPT !.stage = "login", !.user = u]
  <2>1. call' = [call EXCEPT ![d] = r]
    BY <1>3 DEF LoginRead
  <2>2. r.stage # "refresh"
    BY DEF Outside
  <2>3. QED
    BY <1>2, <2>1, <2>2
<1>4. ASSUME NEW u, Enter(d, u) PROVE FALSE
  <2> DEFINE r == [Outside EXCEPT !.stage = "known", !.user = u, !.password = accounts[u].password,
                                  !.withdrawn = withdrawn]
  <2>1. call' = [call EXCEPT ![d] = r]
    BY <1>4 DEF Enter
  <2>2. r.stage # "refresh"
    BY DEF Outside
  <2>3. QED
    BY <1>2, <2>1, <2>2
<1>5. ASSUME NEW p, Authorize(d, p) PROVE FALSE
  <2> DEFINE r == IF HasGlobal(call[d].user, p)
                  THEN [call[d] EXCEPT !.stage = "authorised", !.permission = p] ELSE Outside
  <2>1. call' = [call EXCEPT ![d] = r]
    BY <1>5 DEF Authorize
  <2>2. r.stage # "refresh"
    BY <1>1 DEF Outside, Calls
  <2>3. QED
    BY <1>2, <2>1, <2>2
<1>6. ASSUME NEW s \in sessions, RefreshRead(d, s) PROVE call'[d].session = s.id
  BY <1>1, <1>6 DEF RefreshRead, Outside
<1>7. ASSUME GoesOn(d) PROVE \E s \in sessions : RefreshRead(d, s) /\ call'[d].session = s.id
  BY <1>3, <1>4, <1>5, <1>6, <1>7 DEF GoesOn, Entering, AuthenticateBearer, AuthenticateToken
<1>8. ASSUME NEW c \in Callers, c # d, GoesOn(c) PROVE call'[d] = call[d]
  <2>1. PICK r : call' = [call EXCEPT ![c] = r]
    BY <1>8, GoingOn
  <2>2. QED
    BY <1>1, <1>8, <2>1
<1>9. ASSUME NEW c \in Callers, call' = [call EXCEPT ![c] = Outside] PROVE call'[d] = call[d]
  <2>1. c # d
    BY <1>2, <1>9, OutsideStage
  <2>2. QED
    BY <1>1, <1>9, <2>1
<1>10. QED
  BY <1>7, <1>8, <1>9, Frames

\* A step that leaves sessions and clock alone: what is read is not over.
LEMMA RefreshBegun ==
  ASSUME AccessShape, CallsHaveAccounts, SessionsSound, BearersSound, AccessNext,
         UNCHANGED <<sessions, endedAt, now>>
  PROVE  RefreshesAreRecent'
<1> SUFFICES ASSUME NEW d \in Callers, call'[d].stage = "refresh"
             PROVE  /\ call'[d].session \in SessionIds
                    /\ \A s \in sessions : s.id = call'[d].session => now <= s.expires
                    /\ call'[d].session \in DOMAIN endedAt => endedAt[call'[d].session] = now
  BY DEF RefreshesAreRecent, SessionIds
<1>1. CASE call'[d] = call[d]
  BY <1>1 DEF BearersSound, RefreshesAreRecent
<1>2. ASSUME NEW s \in sessions, RefreshRead(d, s), call'[d].session = s.id
      PROVE  /\ call'[d].session \in SessionIds
             /\ \A t \in sessions : t.id = call'[d].session => now <= t.expires
             /\ call'[d].session \in DOMAIN endedAt => endedAt[call'[d].session] = now
  <2>1. now \in Nat /\ s.expires \in Nat /\ ~(now > s.expires)
    BY <1>2 DEF AccessShape, SessionsSound, SessionRows, RefreshRead, Expired
  <2>2. \A t \in sessions : t.id = s.id => t = s
    BY DEF SessionsSound, SessionsNumbered
  <2>3. s.id \notin DOMAIN endedAt /\ s.id \in SessionIds
    BY DEF SessionsSound, SessionIds
  <2>4. QED
    BY <1>2, <2>1, <2>2, <2>3
<1>3. QED
  BY <1>1, <1>2, Refreshing

LEMMA BearersStep ==
  ASSUME AccessShape, CallsHaveAccounts, SessionsSound, BearersSound, AccessNext
  PROVE  BearersSound'
<1>1. /\ DOMAIN accounts \subseteq DOMAIN accounts' /\ DOMAIN accounts \subseteq Users
      /\ now \in Nat /\ JWTExpiry \in Nat /\ call \in [Callers -> Calls]
  BY AccountsStep, AccessAssumption DEF AccessShape, AccessTypeOK
<1>2. \A b \in bearers : b.issued \in Nat /\ b.expires \in Nat /\ b.session \in Nat
  BY DEF BearersSound, Bearers
<1>3. CASE UNCHANGED <<sessions, endedAt, bearers, now>>
  BY <1>1, <1>3, RefreshBegun DEF BearersSound, SessionIds, AccessEndsWithSession
<1>4. CASE Tick /\ UNCHANGED <<sessions, endedAt, bearers>>
  <2>1. now' = now + 1 /\ call' = call /\ \A c \in Callers : call[c].stage # "refresh"
    BY <1>4, OutsideStage DEF Tick
  <2>2. \A b \in bearers : b.issued <= now'
    BY <1>1, <1>2, <2>1 DEF BearersSound
  <2>3. QED
    BY <1>1, <1>4, <2>1, <2>2 DEF BearersSound, RefreshesAreRecent, SessionIds, AccessEndsWithSession
<1>5. ASSUME NEW c \in Callers, LoginIssue(c) PROVE BearersSound'
  <2>1. PICK new \in SessionRows :
            /\ sessions' = sessions \cup {new} /\ endedAt' = endedAt
            /\ new.user = call[c].user /\ new.expires = now + RefreshExpiry
            /\ bearers' = bearers \cup {Bearer(call[c].user, new.id)}
            /\ \E n \in Nat : SessionIds = 1..n /\ new.id = n + 1
    BY <1>5, SessionStored
  <2>2. new.id \notin SessionIds /\ SessionIds' = SessionIds \cup {new.id}
    BY <2>1 DEF SessionIds
  <2>3. call' = [call EXCEPT ![c] = Outside] /\ now' = now /\ call[c].stage = "login"
    BY <1>5 DEF LoginIssue
  <2>4. call[c].user \in DOMAIN accounts /\ call[c].user \in Users /\ new.id \in Nat
    BY <1>1, <2>3 DEF CallsHaveAccounts, SessionRows
  <2> DEFINE b0 == Bearer(call[c].user, new.id)
  <2>5. /\ b0 \in Bearers /\ b0.user \in DOMAIN accounts /\ b0.session = new.id
        /\ b0.issued = now /\ b0.expires = b0.issued + JWTExpiry
    BY <2>4, BearerFields
  <2>6. now <= now /\ now <= new.expires
    BY <1>1, <2>1, AccessAssumption
  <2> HIDE DEF b0
  <2>7. bearers' = bearers \cup {b0}
    BY <2>1 DEF b0
  <2>8. \A b \in bearers' : /\ b \in Bearers /\ b.user \in DOMAIN accounts' /\ b.session \in SessionIds'
                            /\ b.issued <= now' /\ b.expires = b.issued + JWTExpiry
    BY <1>1, <2>2, <2>3, <2>5, <2>6, <2>7 DEF BearersSound
  <2>9. RefreshesAreRecent'
    <3>1. ASSUME NEW d \in Callers, call'[d].stage = "refresh" PROVE d # c /\ call'[d] = call[d]
      BY <1>1, <2>3, <3>1 DEF Outside
    <3>2. QED
      BY <2>1, <2>2, <2>3, <3>1 DEF BearersSound, RefreshesAreRecent
  <2>10. \A b \in bearers : b.session # new.id
    BY <2>2 DEF BearersSound
  <2>11. \A s \in sessions, i \in DOMAIN endedAt : s.id # new.id /\ i # new.id
    BY <2>2 DEF SessionIds
  <2>12. AccessEndsWithSession'
    <3>1. ASSUME NEW b \in bearers'
          PROVE  /\ b.session \in DOMAIN endedAt => b.expires <= endedAt[b.session] + JWTExpiry
                 /\ \A s \in sessions' : b.session = s.id => b.issued <= s.expires
      <4>1. CASE b \in bearers
        BY <2>1, <2>10, <4>1 DEF BearersSound, AccessEndsWithSession
      <4>2. CASE b = b0
        BY <2>1, <2>2, <2>5, <2>6, <4>2 DEF SessionIds
      <4>3. QED
        BY <2>7, <4>1, <4>2
    <3>2. QED
      BY <2>1, <3>1 DEF AccessEndsWithSession
  <2>13. QED
    BY <2>8, <2>9, <2>12 DEF BearersSound
<1>6. ASSUME NEW c \in Callers, RefreshIssue(c) PROVE BearersSound'
  <2> DEFINE b0 == Bearer(call[c].user, call[c].session)
  <2>1. /\ bearers' = bearers \/ bearers' = bearers \cup {b0}
        /\ call[c].stage = "refresh" /\ UNCHANGED <<sessions, endedAt, now>>
    BY <1>6 DEF RefreshIssue
  <2>2. call[c].user \in DOMAIN accounts /\ call[c].user \in Users /\ call[c].session \in Nat
    BY <1>1, <2>1 DEF CallsHaveAccounts, Calls
  <2>3. /\ b0 \in Bearers /\ b0.user \in DOMAIN accounts /\ b0.session = call[c].session
        /\ b0.issued = now /\ b0.expires = now + JWTExpiry
    BY <2>2, BearerFields
  <2>4. /\ b0.session \in SessionIds
        /\ \A s \in sessions : s.id = b0.session => now <= s.expires
        /\ b0.session \in DOMAIN endedAt => endedAt[b0.session] = now
    BY <2>1, <2>3 DEF BearersSound, RefreshesAreRecent
  <2> HIDE DEF b0
  <2>5. now <= now /\ now + JWTExpiry <= now + JWTExpiry
    BY <1>1
  <2>6. \A b \in bearers' : /\ b \in Bearers /\ b.user \in DOMAIN accounts' /\ b.session \in SessionIds'
                            /\ b.issued <= now' /\ b.expires = b.issued + JWTExpiry
    BY <1>1, <2>1, <2>3, <2>4, <2>5 DEF BearersSound, SessionIds
  <2>7. AccessEndsWithSession'
    <3>1. ASSUME NEW b \in bearers'
          PROVE  /\ b.session \in DOMAIN endedAt => b.expires <= endedAt[b.session] + JWTExpiry
                 /\ \A s \in sessions : b.session = s.id => b.issued <= s.expires
      <4>1. CASE b \in bearers
        BY <4>1 DEF BearersSound, AccessEndsWithSession
      <4>2. CASE b = b0
        BY <2>3, <2>4, <2>5, <4>2
      <4>3. QED
        BY <2>1, <4>1, <4>2
    <3>2. QED
      BY <2>1, <3>1 DEF AccessEndsWithSession
  <2>8. QED
    BY <2>1, <2>6, <2>7, RefreshBegun DEF BearersSound
<1>7. ASSUME NEW c \in Callers, NEW s \in sessions, RefreshExpired(c, s) \/ Logout(c, s) PROVE BearersSound'
  <2>1. /\ sessions' = sessions \ {s}
        /\ endedAt' = [i \in DOMAIN endedAt \cup {s.id} |-> IF i = s.id THEN now ELSE endedAt[i]]
    BY <1>7, SessionEnded
  <2>2. /\ bearers' = bearers /\ now' = now
        /\ call' = call \/ call' = [call EXCEPT ![c] = Outside]
    BY <1>7 DEF RefreshExpired, Logout, Finish
  <2>3. SessionIds' = SessionIds
    BY <2>1 DEF SessionIds
  <2>4. ASSUME NEW d \in Callers, call'[d].stage = "refresh" PROVE call'[d] = call[d]
    BY <1>1, <2>2, <2>4, OutsideStage
  <2>5. RefreshesAreRecent'
    BY <2>1, <2>2, <2>3, <2>4 DEF BearersSound, RefreshesAreRecent
  <2>6. \A b \in bearers : b.expires <= now + JWTExpiry
    BY <1>1, <1>2 DEF BearersSound
  <2>7. AccessEndsWithSession'
    BY <2>1, <2>2, <2>6 DEF BearersSound, AccessEndsWithSession
  <2>8. QED
    BY <1>1, <2>2, <2>3, <2>5, <2>7 DEF BearersSound
<1>8. QED
  BY <1>3, <1>4, <1>5, <1>6, <1>7, SessionsGoing DEF SessionsGo

-----------------------------------------------------------------------------
(* Access: the theorems                                                    *)

Entitled(c) ==
    /\ ActiveAccount(call[c].user)
    /\ call[c].stage = "authorised" => GivenTo(call[c].user, call[c].permission)

CallsEntitled ==
    \A c \in Callers :
        call[c].stage \in {"known", "authorised"} /\ call[c].withdrawn = withdrawn => Entitled(c)

AccessInv ==
    /\ AccessShape /\ CallsHaveAccounts
    /\ SessionsSound /\ GroupsSound /\ TokensSound /\ BearersSound
    /\ CallsEntitled

LEMMA AccessInvAtFirst == AccessInit => AccessInv
<1> SUFFICES ASSUME AccessInit PROVE AccessInv
  OBVIOUS
<1>1. /\ AccessShape /\ CallsHaveAccounts /\ \A c \in Callers : call[c] = Outside
      /\ sessions = {} /\ bearers = {} /\ apiTokens = {} /\ endedAt = << >>
  BY ShapeAtFirst DEF AccessInit
<1>2. SessionIds = 1..0
  BY <1>1 DEF SessionIds
<1>3. SessionsSound
  BY <1>1, <1>2 DEF SessionsSound, SessionsNumbered, AccessShape
<1>4. GroupsSound
  <2> DEFINE Row(g) == [name |-> IF g = Admins THEN "ollanta-admins" ELSE "ollanta-users",
                        builtin |-> TRUE, members |-> {SeededAdmin}, born |-> 0]
  <2>1. groups = [g \in {1, 2} |-> Row(g)]
    BY DEF AccessInit, Admins, Everybody
  <2>2. \A g : Row(g).builtin /\ Row(g).born = 0
    OBVIOUS
  <2> HIDE DEF Row
  <2>3. DOMAIN groups = {1, 2} /\ \A g \in DOMAIN groups : groups[g].builtin /\ groups[g].born = 0
    BY <2>1, <2>2
  <2>4. \A x \in grants : (x[1] = "group" => x[2] = 1) /\ x[4] = 0
    BY DEF AccessInit, Admins
  <2>5. 1 \in 1..LastGroup /\ 2 \in 1..LastGroup
    BY AccessAssumption DEF LastGroup
  <2>6. GroupsNumbered /\ GrantsMatch
    BY <2>3, <2>4, <2>5 DEF GroupsNumbered, GrantsMatch, Admins
  <2>7. QED
    BY <1>1, <2>6 DEF GroupsSound, AccessShape, AccessTypeOK
<1>5. TokensSound
  BY <1>1, FS_EmptySet DEF TokensSound
<1>6. BearersSound
  BY <1>1, OutsideStage DEF BearersSound, RefreshesAreRecent, AccessEndsWithSession
<1>7. CallsEntitled
  BY <1>1, OutsideStage DEF CallsEntitled
<1>8. QED
  BY <1>1, <1>3, <1>4, <1>5, <1>6, <1>7 DEF AccessInv

LEMMA AccessShapeStep == ASSUME AccessInv, AccessNext PROVE AccessShape'
<1>1. /\ AccessShape /\ CallsHaveAccounts /\ SessionsSound' /\ GroupsSound' /\ TokensSound' /\ BearersSound'
  BY SessionsStep, GroupsStep, TokensStep, BearersStep DEF AccessInv
<1>2. /\ accounts' = [u \in DOMAIN accounts' |-> accounts'[u]]
      /\ DOMAIN accounts \subseteq DOMAIN accounts' /\ DOMAIN accounts' \subseteq Users
      /\ \A u \in DOMAIN accounts' : accounts'[u] \in AccountRows
      /\ call' \in [Callers -> Calls]
  BY <1>1, AccountsStep, CallsStep
<1>3. now' \in Nat /\ withdrawn' \in Nat
  <2>1. now' = now \/ now' = now + 1
    BY Frames DEF Tick
  <2>2. QED
    BY <1>1, <2>1, Frames DEF AccessShape
<1>4. \A c \in Callers : call'[c].stage \in Stages
  BY <1>2 DEF Calls
<1>5. AccessTypeOK'
  <2>1. SeededAdmin \in DOMAIN accounts'
    BY <1>1, <1>2 DEF AccessShape, AccessTypeOK
  <2>2. QED
    BY <1>1, <1>2, <1>4, <2>1 DEF AccessTypeOK, SessionsSound, GroupsSound, TokensSound, BearersSound, Stages
<1>6. QED
  BY <1>1, <1>2, <1>3, <1>5 DEF AccessShape, SessionsSound, GroupsSound

\* What a call is checked for was given: ids of groups that are gone are not given again.
LEMMA HasIsGiven == ASSUME GroupsSound, NEW u, NEW p, HasGlobal(u, p) PROVE GivenTo(u, p)
  BY DEF HasGlobal, GivenTo, GroupsSound, GrantsMatch

LEMMA EntitledStep == ASSUME AccessInv, AccessNext PROVE CallsEntitled'
<1>1. AccessShape /\ CallsHaveAccounts /\ GroupsSound /\ CallsEntitled /\ call \in [Callers -> Calls]
  BY DEF AccessInv, AccessShape
<1>2. withdrawn \in Nat /\ (withdrawn' = withdrawn \/ withdrawn' = withdrawn + 1)
  BY <1>1, Frames DEF AccessShape
<1> SUFFICES ASSUME NEW d \in Callers, call'[d].stage \in {"known", "authorised"}, call'[d].withdrawn = withdrawn'
             PROVE  Entitled(d)'
  BY DEF CallsEntitled
<1>3. ASSUME call'[d] = call[d]
      PROVE  Entitled(d)'
  <2>1. call[d].withdrawn \in Nat /\ call[d].withdrawn <= withdrawn
    BY <1>1 DEF CallsHaveAccounts, Calls
  <2>2. withdrawn' = withdrawn /\ withdrawn # withdrawn + 1
    BY <1>2, <1>3, <2>1
  <2> DEFINE u == call[d].user
             p == call[d].permission
  <2>3. ActiveAccount(u) /\ (call[d].stage = "authorised" => GivenTo(u, p))
    BY <1>1, <1>3, <2>2 DEF CallsEntitled, Entitled
  <2>4. u \in DOMAIN accounts' /\ accounts'[u].active
    BY <1>1, <2>2, <2>3, AccountsStep DEF ActiveAccount
  <2>5. ASSUME NEW v, NEW q, GivenTo(v, q) PROVE GivenTo(v, q)'
    BY <1>1, <2>2, <2>5, GivenKept
  <2>6. call[d].stage = "authorised" => \E x \in grants' :
           /\ x[3] = p
           /\ \/ x[1] = "user" /\ x[2] = u
              \/ \E g \in DOMAIN groups' : x[1] = "group" /\ x[2] = g /\ x[4] = groups'[g].born /\ u \in groups'[g].members
    BY <2>3, <2>5 DEF GivenTo
  <2>7. QED
    BY <1>3, <2>4, <2>6 DEF Entitled, ActiveAccount, GivenTo
<1>4. ASSUME NEW c \in Callers, c # d, GoesOn(c) PROVE call'[d] = call[d]
  <2>1. PICK r : call' = [call EXCEPT ![c] = r]
    BY <1>1, <1>4, GoingOn
  <2>2. QED
    BY <1>1, <1>4, <2>1
<1>5. ASSUME NEW c \in Callers, call' = [call EXCEPT ![c] = Outside] PROVE call'[d] = call[d]
  <2>1. c # d
    BY <1>1, <1>5, OutsideStage
  <2>2. QED
    BY <1>1, <1>5, <2>1
<1>6. ASSUME NEW u, NEW p, LoginRead(d, u, p) PROVE FALSE
  <2>1. call'[d] = [Outside EXCEPT !.stage = "login", !.user = u]
    BY <1>1, <1>6 DEF LoginRead
  <2>2. QED
    BY <2>1 DEF Outside
<1>7. ASSUME NEW s, RefreshRead(d, s) PROVE FALSE
  <2>1. call'[d] = [Outside EXCEPT !.stage = "refresh", !.user = s.user, !.session = s.id]
    BY <1>1, <1>7 DEF RefreshRead
  <2>2. QED
    BY <2>1 DEF Outside
<1>8. ASSUME NEW t, AuthenticateBearer(d, t) \/ AuthenticateToken(d, t)
      PROVE  Entitled(d)'
  <2>1. Enter(d, t.user) /\ ActiveAccount(t.user) /\ accounts' = accounts
    BY <1>8 DEF AuthenticateBearer, AuthenticateToken, KnownUser
  <2>2. call'[d] = [Outside EXCEPT !.stage = "known", !.user = t.user, !.password = accounts[t.user].password,
                                   !.withdrawn = withdrawn]
    BY <1>1, <2>1 DEF Enter
  <2>3. call'[d].user = t.user /\ call'[d].stage = "known"
    BY <2>2 DEF Outside
  <2>4. QED
    BY <2>1, <2>3 DEF Entitled, ActiveAccount
<1>9. ASSUME NEW p, Authorize(d, p)
      PROVE  Entitled(d)'
  <2>1. /\ call'[d] = IF HasGlobal(call[d].user, p)
                      THEN [call[d] EXCEPT !.stage = "authorised", !.permission = p] ELSE Outside
        /\ call[d].stage = "known" /\ UNCHANGED <<accounts, groups, grants, withdrawn>>
    BY <1>1, <1>9 DEF Authorize
  <2>2. HasGlobal(call[d].user, p)
    BY <2>1, OutsideStage DEF Outside
  <2>3. call'[d].user = call[d].user /\ call'[d].permission = p /\ call'[d].withdrawn = call[d].withdrawn
    BY <1>1, <2>1, <2>2 DEF Calls
  <2>4. ActiveAccount(call[d].user)
    BY <1>1, <2>1, <2>3 DEF CallsEntitled, Entitled
  <2>5. GivenTo(call[d].user, p)
    BY <1>1, <2>2, HasIsGiven
  <2>6. QED
    BY <2>1, <2>3, <2>4, <2>5 DEF Entitled, ActiveAccount, GivenTo
<1>10. ASSUME GoesOn(d)
       PROVE  Entitled(d)'
  BY <1>6, <1>7, <1>8, <1>9, <1>10 DEF GoesOn, Entering
<1>11. QED
  BY <1>3, <1>4, <1>5, <1>10, Frames

LEMMA AccessHolds == AccessSpec => []AccessInv
<1>1. ASSUME AccessInv, AccessNext PROVE AccessInv'
  <2>1. SessionsSound' /\ GroupsSound' /\ TokensSound' /\ BearersSound' /\ CallsHaveAccounts'
    BY <1>1, SessionsStep, GroupsStep, TokensStep, BearersStep, CallsStep DEF AccessInv
  <2>2. QED
    BY <1>1, <2>1, AccessShapeStep, EntitledStep DEF AccessInv
<1>2. ASSUME AccessInv, UNCHANGED accessVars PROVE AccessInv'
  BY <1>2 DEF AccessInv, accessVars, AccessShape, AccessTypeOK, CallsHaveAccounts, SessionsSound, SessionsNumbered,
     SessionIds, GroupsSound, GroupsNumbered, GrantsMatch, TokensSound, BearersSound, RefreshesAreRecent,
     AccessEndsWithSession, CallsEntitled, Entitled, ActiveAccount, GivenTo
<1>3. QED
  BY <1>1, <1>2, AccessInvAtFirst, PTL DEF AccessSpec

\* However calls, withdrawals of accounts, memberships, groups and grants, and the reuse of their
\* names overlap: a call that is in progress is one of an active account, and was authorised by what
\* an administrator gave to it, unless something was taken away after the call began
\* (AuthMiddleware, PermissionRepository.HasGlobal).
THEOREM OnlyTheEntitledCall == AccessSpec => []CallsAreEntitled
<1>1. AccessInv => CallsAreEntitled
  BY DEF AccessInv, AccessShape, CallsEntitled, Entitled, CallsAreEntitled
<1>2. QED
  BY <1>1, AccessHolds, PTL

\* However refreshes, logouts and expiries overlap: no access token outlives the end of its session
\* by more than its own lifetime, and none is issued to a session that is over
\* (AuthHandler.Refresh, Logout).
THEOREM TokensEndWithSessions == AccessSpec => []AccessEndsWithSession
<1>1. AccessInv => AccessEndsWithSession
  BY DEF AccessInv, BearersSound
<1>2. QED
  BY <1>1, AccessHolds, PTL

-----------------------------------------------------------------------------
(* Issues: the tables                                                      *)

TrackingStates == {"new", "unchanged", "reopened"}
ChangeRequests == [stage : {"idle", "read", "committed"}, issue : Nat, from : {"", "open", "closed"}, resolution : Resolutions \cup {""}]

\* The tables hold rows of their types.
TriageShape ==
    /\ issueRows \in Seq(IssueRows)
    /\ scans \in Seq(ScanRows)
    /\ transitions \in Seq(TransitionRows)
    /\ changelog \in Seq(ChangeRows)
    /\ arriving \in Seq(Reports)
    /\ pending \in [Triagers -> ChangeRequests]
    /\ DOMAIN backfill = Backfillers
    /\ \A a \in Backfillers : DOMAIN backfill[a] = DOMAIN IdleBackfill
    /\ \A a \in Backfillers : \A i \in DOMAIN backfill[a].updates : backfill[a].updates[i] \in TrackingStates

\* Rows refer to rows that are there, and what is in progress concerns such rows.
TriageLinks ==
    /\ \A i \in IssueIds : issueRows[i].scan \in ScanIds
    /\ \A s \in ScanIds : scans[s].previous = NoScanId \/ scans[s].previous \in 1..(s - 1)
    /\ \A n \in DOMAIN transitions : transitions[n].issue \in IssueIds
    /\ \A n \in DOMAIN changelog : changelog[n].issue \in IssueIds
    /\ \A k \in DOMAIN snapshots : k \in Manifests /\ snapshots[k] \in ScanIds
    /\ \A u \in Triagers : pending[u].stage # "idle" => pending[u].issue \in IssueIds
    /\ \A u \in Triagers : pending[u].stage = "read" => pending[u].from \in {"open", "closed"}

TriageTables == TriageShape /\ TriageLinks /\ HistoryExplains

StatesKept == \A i \in IssueIds : issueRows[i].tracking # "unknown" => issueRows'[i].tracking = issueRows[i].tracking

LEMMA IdIntervals ==
  ASSUME TriageShape
  PROVE  /\ Len(scans) \in Nat /\ ScanIds = 1..Len(scans) /\ \A s \in ScanIds : scans[s] \in ScanRows
         /\ Len(issueRows) \in Nat /\ IssueIds = 1..Len(issueRows) /\ \A i \in IssueIds : issueRows[i] \in IssueRows
         /\ Len(transitions) \in Nat /\ DOMAIN transitions = 1..Len(transitions)
         /\ \A n \in DOMAIN transitions : transitions[n] \in TransitionRows
BY DEF TriageShape, ScanIds, IssueIds

LEMMA IdleRequestTyped == IdleRequest \in ChangeRequests /\ IdleRequest.stage = "idle"
BY DEF IdleRequest, ChangeRequests

LEMMA TablesAtFirst == TriageInit => TriageTables
<1> SUFFICES ASSUME TriageInit PROVE TriageTables
  OBVIOUS
<1>1. arriving \in Seq(Reports)
  BY TriageAssumption DEF TriageInit
<1>2. \A a \in Backfillers : backfill[a] = IdleBackfill /\ backfill[a].updates = << >>
  BY DEF TriageInit, IdleBackfill
<1>3. TriageShape
  BY <1>1, <1>2, IdleRequestTyped DEF TriageInit, TriageShape
<1>4. /\ ScanIds = {} /\ IssueIds = {} /\ DOMAIN transitions = {} /\ DOMAIN changelog = {} /\ DOMAIN snapshots = {}
      /\ \A u \in Triagers : pending[u].stage = "idle"
  BY IdleRequestTyped DEF TriageInit, ScanIds, IssueIds
<1>5. QED
  BY <1>3, <1>4 DEF TriageTables, TriageLinks, HistoryExplains

\* In a linear order some of finitely many numbers comes before all the others: of those up to k
\* one comes first, for a greatest k, which is all of them.
LEMMA FirstOfNumbers ==
  ASSUME NEW n \in Nat, NEW S, S \subseteq 0..n, S # {}, NEW R,
         \A s, t \in S : s # t => <<s, t>> \in R \/ <<t, s>> \in R,
         \A s, t, u \in S : <<s, t>> \in R /\ <<t, u>> \in R => <<s, u>> \in R
  PROVE  \E s \in S : \A t \in S \ {s} : <<s, t>> \in R
<1> DEFINE First(k, s) == \A t \in S \ {s} : t <= k => <<s, t>> \in R
           reached == {k \in 0..n : \E s \in S : s <= k /\ First(k, s)}
<1>1. PICK least \in S : \A t \in S : least <= t
  <2>1. S \subseteq Nat
    OBVIOUS
  <2>2. PICK m \in S : \A t \in S : ~(<<t, m>> \in OpToRel(<, Nat))
    BY <2>1, NatLessThanWellFounded, WFMin
  <2>3. \A t \in S : ~(t < m)
    BY <2>1, <2>2 DEF OpToRel
  <2>4. QED
    BY <2>1, <2>3
<1>2. least \in reached
  <2>1. First(least, least)
    BY <1>1
  <2>2. QED
    BY <2>1, <1>1
<1>3. Max(reached) \in reached /\ \A k \in reached : k <= Max(reached)
  <2>1. reached \subseteq 0..n /\ reached # {}
    BY <1>2
  <2> HIDE DEF reached
  <2>2. QED
    BY <2>1, MaxOfNumbers
<1> DEFINE k == Max(reached)
<1>4. PICK s \in S : s <= k /\ First(k, s)
  BY <1>3
<1>5. k \in 0..n /\ k + 1 \notin reached
  <2>1. k \in 0..n /\ \A j \in reached : j <= k
    BY <1>3
  <2> HIDE DEF reached, k
  <2>2. QED
    BY <2>1
<1> HIDE DEF k
<1>6. ASSUME k # n PROVE FALSE
  <2>1. k + 1 \in 0..n
    BY <1>5, <1>6
  <2>2. CASE k + 1 \notin S
    <3>1. First(k + 1, s)
      BY <1>4, <1>5, <2>2
    <3>2. k + 1 \in reached
      BY <1>4, <1>5, <2>1, <3>1
    <3>3. QED
      BY <1>5, <3>2
  <2>3. CASE k + 1 \in S
    <3>1. \A t \in S \ {s, k + 1} : t <= k + 1 => t <= k /\ <<s, t>> \in R
      BY <1>4, <1>5
    <3>2. CASE <<s, k + 1>> \in R
      <4>1. First(k + 1, s)
        BY <3>1, <3>2
      <4>2. k + 1 \in reached
        BY <1>4, <1>5, <2>1, <4>1
      <4>3. QED
        BY <1>5, <4>2
    <3>3. CASE <<k + 1, s>> \in R
      <4>1. First(k + 1, k + 1)
        BY <2>3, <3>1, <3>3
      <4>2. k + 1 \in reached
        BY <2>1, <2>3, <4>1
      <4>3. QED
        BY <1>5, <4>2
    <3>4. s # k + 1
      BY <1>4, <1>5
    <3>5. QED
      BY <2>3, <3>2, <3>3, <3>4
  <2>4. QED
    BY <2>2, <2>3
<1>7. QED
  BY <1>4, <1>6

\* Of some scans one is the newest and one the oldest.
LEMMA NewestExists ==
  ASSUME TriageShape, NEW S \in SUBSET ScanIds, S # {}
  PROVE  /\ \E s \in S : \A t \in S \ {s} : Newer(s, t)
         /\ \E s \in S : \A t \in S \ {s} : Newer(t, s)
<1>1. Len(scans) \in Nat /\ S \subseteq 0..Len(scans) /\ \A s \in S : scans[s].date \in Nat
  BY IdIntervals DEF ScanRows
<1> DEFINE After == {p \in S \X S : Newer(p[1], p[2])}
           Prior == {p \in S \X S : Newer(p[2], p[1])}
<1>2. \A s, t \in S : (<<s, t>> \in After <=> Newer(s, t)) /\ (<<s, t>> \in Prior <=> Newer(t, s))
  OBVIOUS
<1>3. \A s, t \in S : s # t => Newer(s, t) \/ Newer(t, s)
  BY <1>1 DEF Newer
<1>4. \A s, t, u \in S : Newer(s, t) /\ Newer(t, u) => Newer(s, u)
  BY <1>1 DEF Newer
<1> HIDE DEF After, Prior
<1>5. \E s \in S : \A t \in S \ {s} : <<s, t>> \in After
  <2>1. \A s, t \in S : s # t => <<s, t>> \in After \/ <<t, s>> \in After
    BY <1>2, <1>3
  <2>2. \A s, t, u \in S : <<s, t>> \in After /\ <<t, u>> \in After => <<s, u>> \in After
    BY <1>2, <1>4
  <2>3. QED
    BY <1>1, <2>1, <2>2, FirstOfNumbers
<1>6. \E s \in S : \A t \in S \ {s} : <<s, t>> \in Prior
  <2>1. \A s, t \in S : s # t => <<s, t>> \in Prior \/ <<t, s>> \in Prior
    BY <1>2, <1>3
  <2>2. \A s, t, u \in S : <<s, t>> \in Prior /\ <<t, u>> \in Prior => <<s, u>> \in Prior
    BY <1>2, <1>4
  <2>3. QED
    BY <1>1, <2>1, <2>2, FirstOfNumbers
<1>7. QED
  BY <1>2, <1>5, <1>6

LEMMA LatestIsScan ==
  ASSUME TriageShape, NEW scope, NEW default
  PROVE  LET found == ScansInScope(scope, default)
             latest == LatestInScope(scope, default)
         IN  IF found = {} THEN latest = NoScanId
             ELSE latest \in found /\ latest \in ScanIds /\ \A t \in found \ {latest} : Newer(latest, t)
<1>1. ScansInScope(scope, default) \in SUBSET ScanIds
  BY DEF ScansInScope
<1>2. QED
  BY <1>1, NewestExists DEF LatestInScope

LEMMA OldestIsScan ==
  ASSUME TriageShape, NEW S \in SUBSET ScanIds, S # {}
  PROVE  Oldest(S) \in S /\ \A t \in S \ {Oldest(S)} : Newer(t, Oldest(S))
BY NewestExists DEF Oldest

\* What the scan after p was compared with, and what the rows of a report will be.
SeenOf(p) == IF p = NoScanId THEN {} ELSE ForTracking(QueryScan(p))
Comparand(default) == LatestInScope([type |-> Head(arriving).type, name |-> Head(arriving).name], default)
RowStored(k, legacy, default) ==
    LET x == Head(arriving).issues[k]
    IN  NewRow(x, Len(scans) + 1, TrackKey(x.key, SeenOf(Comparand(default))), legacy)

LEMMA CountFinite == \A n \in Nat : IsFiniteSet(1..n) /\ Cardinality(1..n) = n
<1> SUFFICES ASSUME NEW n \in Nat PROVE IsFiniteSet(1..n) /\ Cardinality(1..n) = n
  OBVIOUS
<1>1. 1 \in Int /\ n \in Int
  OBVIOUS
<1>2. IsFiniteSet(1..n) /\ Cardinality(1..n) = IF 1 > n THEN 0 ELSE n - 1 + 1
  BY <1>1, FS_Interval
<1>3. QED
  BY <1>2

LEMMA IssueSetsFinite ==
  ASSUME TriageShape, NEW S \in SUBSET IssueIds
  PROVE  IsFiniteSet(S) /\ Cardinality(S) \in Nat
<1>1. Len(issueRows) \in Nat /\ IssueIds = 1..Len(issueRows)
  BY IdIntervals
<1>2. IsFiniteSet(1..Len(issueRows))
  BY <1>1, CountFinite
<1>3. QED
  BY <1>1, <1>2, FS_Subset, FS_CardinalityType

LEMMA ChangesCounted ==
  ASSUME TriageShape, NEW p
  PROVE  ChangesOf(p) \in Nat
<1>1. Len(transitions) \in Nat /\ DOMAIN transitions = 1..Len(transitions)
  BY IdIntervals
<1>2. IsFiniteSet(1..Len(transitions))
  BY <1>1, CountFinite
<1> DEFINE S == {n \in DOMAIN transitions : issueRows[transitions[n].issue].scan = p}
<1>3. S \in SUBSET (1..Len(transitions))
  BY <1>1
<1>4. Cardinality(S) \in Nat
  BY <1>2, <1>3, FS_Subset, FS_CardinalityType
<1>5. QED
  BY <1>4 DEF ChangesOf

LEMMA SeenFinite ==
  ASSUME TriageShape, NEW p
  PROVE  IsFiniteSet(SeenOf(p))
<1> DEFINE ids == QueryScan(p)
           col(i) == [id |-> i, key |-> issueRows[i].key, status |-> issueRows[i].status]
           f == [i \in ids |-> col(i)]
<1>1. IsFiniteSet(ids)
  BY IssueSetsFinite DEF QueryScan, IssuesOf
<1>2. f \in Surjection(ids, {col(i) : i \in ids})
  <2> HIDE DEF ids, col
  <2>1. f \in [ids -> {col(i) : i \in ids}] /\ \A c \in {col(i) : i \in ids} : \E i \in ids : f[i] = c
    OBVIOUS
  <2> HIDE DEF f
  <2>2. QED
    BY <2>1 DEF Surjection
<1>3. IsFiniteSet({col(i) : i \in ids})
  <2> HIDE DEF ids, col, f
  <2>1. QED
    BY <1>1, <1>2, FS_Surjection
<1>4. QED
  BY <1>3, FS_EmptySet DEF SeenOf, ForTracking

LEMMA TrackKeyTyped == \A k, p : TrackKey(k, p) \in TrackingStates
BY DEF TrackKey, TrackingStates

LEMMA NewRowTyped ==
  ASSUME NEW x \in Findings, NEW s \in Nat, NEW state \in TrackingStates, NEW legacy
  PROVE  NewRow(x, s, state, legacy) \in IssueRows
<1>1. /\ x.key \in STRING /\ x.rule \in STRING /\ x.type \in IssueTypes /\ x.severity \in STRING /\ x.tags \in SUBSET STRING
      /\ x.file \in Seq(STRING) /\ x.ext \in STRING
  BY DEF Findings
<1>2. QED
  BY <1>1 DEF NewRow, IssueRows, TrackingStates

\* The row of the scan that is stored.
LEMMA ScanStored ==
  ASSUME TriageShape, NEW legacy \in BOOLEAN, NEW default, StoreReport(legacy, default)
  PROVE  LET r == Head(arriving)
             s == Len(scans) + 1
             p == Comparand(default)
         IN  /\ arriving # <<>> /\ default \in DefaultBranchesNow
             /\ r \in Reports /\ arriving' = Tail(arriving) /\ arriving' \in Seq(Reports)
             /\ scans' \in Seq(ScanRows) /\ ScanIds' = ScanIds \cup {s} /\ s \notin ScanIds
             /\ \A t \in ScanIds : scans'[t] = scans[t]
             /\ scans'[s].type = r.type /\ scans'[s].name = r.name /\ scans'[s].date = r.date
             /\ scans'[s].previous = p /\ scans'[s].changed = (IF p = NoScanId THEN 0 ELSE ChangesOf(p))
             /\ scans'[s].new = Cardinality({k \in 1..Len(r.issues) : RowStored(k, legacy, default).ingested = "new"})
             /\ scans'[s].closed = Cardinality(ClosedBy({r.issues[k].key : k \in 1..Len(r.issues)}, SeenOf(p)))
             /\ p = NoScanId \/ p \in ScanIds
<1> DEFINE r == Head(arriving)
           id == Len(scans) + 1
           scope == [type |-> r.type, name |-> r.name]
           p == LatestInScope(scope, default)
           old == IF p = NoScanId THEN {} ELSE ForTracking(QueryScan(p))
           rows == [k \in DOMAIN r.issues |-> NewRow(r.issues[k], id, TrackKey(r.issues[k].key, old), legacy)]
           new == Cardinality({k \in DOMAIN rows : rows[k].ingested = "new"})
           closed == Cardinality(ClosedBy({x.key : x \in ToSet(r.issues)}, old))
           changed == IF p = NoScanId THEN 0 ELSE ChangesOf(p)
           row == [type |-> r.type, name |-> r.name, date |-> r.date, gate |-> r.gate, total |-> Len(r.issues),
                   legacy |-> legacy, previous |-> p, changed |-> changed, new |-> new, closed |-> closed]
<1>1. arriving # <<>> /\ default \in DefaultBranchesNow /\ arriving' = Tail(arriving) /\ scans' = Append(scans, row)
  BY DEF StoreReport
<1>2. r \in Reports /\ arriving' \in Seq(Reports)
  BY <1>1 DEF TriageShape
<1>3. r.issues \in Seq(Findings) /\ DOMAIN r.issues = 1..Len(r.issues) /\ Len(r.issues) \in Nat
  <2>1. r.issues \in Seq(Findings)
    BY <1>2 DEF Reports
  <2>2. QED
    BY <2>1
<1>4. Comparand(default) = p /\ SeenOf(p) = old
  BY DEF Comparand, SeenOf
<1>5. p = NoScanId \/ p \in ScanIds
  BY LatestIsScan
<1>6. p \in Nat /\ changed \in Nat
  BY <1>5, IdIntervals, ChangesCounted DEF NoScanId
<1>7. new \in Nat /\ new = Cardinality({k \in 1..Len(r.issues) : RowStored(k, legacy, default).ingested = "new"})
  <2> DEFINE S == {k \in DOMAIN rows : rows[k].ingested = "new"}
             T == {k \in 1..Len(r.issues) : RowStored(k, legacy, default).ingested = "new"}
  <2>1. S = T
    <3>1. \A k \in 1..Len(r.issues) : rows[k] = RowStored(k, legacy, default)
      BY <1>3, <1>4 DEF RowStored
    <3>2. DOMAIN rows = 1..Len(r.issues)
      BY <1>3
    <3> HIDE DEF rows
    <3>3. QED
      BY <3>1, <3>2
  <2>2. IsFiniteSet(1..Len(r.issues))
    BY <1>3, CountFinite
  <2>3. Cardinality(T) \in Nat
    <3> HIDE DEF r
    <3>1. T \in SUBSET (1..Len(r.issues))
      OBVIOUS
    <3>2. QED
      BY <2>2, <3>1, FS_Subset, FS_CardinalityType
  <2>4. QED
    BY <2>1, <2>3
<1>8. closed \in Nat /\ closed = Cardinality(ClosedBy({r.issues[k].key : k \in 1..Len(r.issues)}, SeenOf(p)))
  <2>1. {x.key : x \in ToSet(r.issues)} = {r.issues[k].key : k \in 1..Len(r.issues)}
    BY <1>3 DEF ToSet
  <2>2. ClosedBy({x.key : x \in ToSet(r.issues)}, old) \in SUBSET old
    BY DEF ClosedBy
  <2>3. IsFiniteSet(old)
    BY <1>4, SeenFinite
  <2> HIDE DEF r, old, p
  <2>4. QED
    BY <2>1, <2>2, <2>3, <1>4, FS_Subset, FS_CardinalityType
<1>9. row \in ScanRows
  <2>1. r.type \in {"branch", "pull_request"} /\ r.name \in STRING /\ r.date \in Nat /\ r.gate \in {"OK", "WARN", "ERROR"}
    BY <1>2 DEF Reports
  <2> HIDE DEF r, p, changed, new, closed
  <2>2. QED
    BY <2>1, <1>3, <1>6, <1>7, <1>8 DEF ScanRows
<1>10. /\ scans' \in Seq(ScanRows) /\ ScanIds' = ScanIds \cup {id} /\ id \notin ScanIds
       /\ scans'[id] = row /\ \A t \in ScanIds : scans'[t] = scans[t]
  <2>1. scans \in Seq(ScanRows) /\ ScanIds = 1..Len(scans) /\ Len(scans) \in Nat
    BY IdIntervals DEF TriageShape
  <2> HIDE DEF row
  <2>2. QED
    BY <1>1, <1>9, <2>1 DEF ScanIds
<1> HIDE DEF r, id, p, changed, new, closed, old
<1>11. /\ scans'[id].type = r.type /\ scans'[id].name = r.name /\ scans'[id].date = r.date
       /\ scans'[id].previous = p /\ scans'[id].changed = changed /\ scans'[id].new = new /\ scans'[id].closed = closed
  BY <1>10
<1>12. QED
  BY <1>1, <1>2, <1>4, <1>5, <1>7, <1>8, <1>10, <1>11 DEF r, id, p, changed

\* The rows of its issues.
LEMMA IssuesStored ==
  ASSUME TriageShape, NEW legacy \in BOOLEAN, NEW default, StoreReport(legacy, default)
  PROVE  LET n == Len(issueRows)
             m == Len(Head(arriving).issues)
         IN  /\ m \in Nat /\ \A k \in 1..m : Head(arriving).issues[k] \in Findings
             /\ issueRows' \in Seq(IssueRows) /\ Len(issueRows') = n + m
             /\ IssueIds' = 1..(n + m)
             /\ \A i \in IssueIds : i \in IssueIds' /\ issueRows'[i] = issueRows[i]
             /\ \A k \in 1..m : n + k \in IssueIds' /\ issueRows'[n + k] = RowStored(k, legacy, default)
             /\ \A i \in IssueIds' \ IssueIds : i - n \in 1..m /\ issueRows'[i] = RowStored(i - n, legacy, default)
<1> DEFINE r == Head(arriving)
           id == Len(scans) + 1
           scope == [type |-> r.type, name |-> r.name]
           p == LatestInScope(scope, default)
           old == IF p = NoScanId THEN {} ELSE ForTracking(QueryScan(p))
           rows == [k \in DOMAIN r.issues |-> NewRow(r.issues[k], id, TrackKey(r.issues[k].key, old), legacy)]
           n == Len(issueRows)
           m == Len(r.issues)
<1>1. issueRows' = issueRows \o rows
  BY DEF StoreReport
<1>2. r \in Reports /\ r.issues \in Seq(Findings)
  BY ScanStored DEF Reports
<1>3. DOMAIN r.issues = 1..m /\ m \in Nat /\ \A k \in 1..m : r.issues[k] \in Findings
  BY <1>2
<1>4. \A k \in 1..m : rows[k] = RowStored(k, legacy, default)
  BY <1>3 DEF RowStored, SeenOf, Comparand
<1>5. \A k \in 1..m : RowStored(k, legacy, default) \in IssueRows
  <2>1. Len(scans) + 1 \in Nat
    BY IdIntervals
  <2>2. QED
    BY <1>3, <2>1, NewRowTyped, TrackKeyTyped DEF RowStored
<1>6. DOMAIN rows = 1..m
  BY <1>3
<1>7. rows \in [1..m -> IssueRows]
  BY <1>4, <1>5, <1>6
<1> HIDE DEF rows
<1>8. rows \in Seq(IssueRows) /\ Len(rows) = m
  <2>1. \A f \in [1..m -> IssueRows] : f \in Seq(IssueRows) /\ Len(f) = m
    BY <1>3
  <2>2. QED
    BY <2>1, <1>7, Zenon
<1>9. issueRows \in Seq(IssueRows) /\ n \in Nat /\ IssueIds = 1..n
  BY IdIntervals DEF TriageShape
<1> HIDE DEF n, m, r
<1>10. issueRows' \in Seq(IssueRows) /\ Len(issueRows') = n + m /\ DOMAIN issueRows' = 1..(n + m)
  <2>1. \A f, g \in Seq(IssueRows) : f \o g \in Seq(IssueRows) /\ Len(f \o g) = Len(f) + Len(g)
    OBVIOUS
  <2>2. issueRows' \in Seq(IssueRows) /\ Len(issueRows') = n + m
    BY <1>1, <1>8, <1>9, <2>1 DEF n
  <2>3. QED
    BY <2>2
<1>11. \A i \in 1..(n + m) : issueRows'[i] = IF i <= n THEN issueRows[i] ELSE rows[i - n]
  BY <1>1, <1>3, <1>8, <1>9 DEF n
<1>12. \A i \in 1..n : i \in 1..(n + m) /\ issueRows'[i] = issueRows[i]
  BY <1>3, <1>9, <1>11
<1>13. \A k \in 1..m : n + k \in 1..(n + m) /\ issueRows'[n + k] = rows[k]
  <2>1. \A k \in 1..m : n + k \in 1..(n + m) /\ ~(n + k <= n) /\ (n + k) - n = k
    BY <1>3, <1>9
  <2>2. QED
    BY <2>1, <1>11
<1>14. \A i \in (1..(n + m)) \ (1..n) : i - n \in 1..m /\ issueRows'[i] = rows[i - n]
  BY <1>3, <1>9, <1>11
<1>15. QED
  BY <1>3, <1>4, <1>9, <1>10, <1>12, <1>13, <1>14 DEF IssueIds, n, m, r

LEMMA RowFields ==
  ASSUME NEW k, NEW legacy \in BOOLEAN, NEW default
  PROVE  LET row == RowStored(k, legacy, default)
             x == Head(arriving).issues[k]
         IN  /\ row.scan = Len(scans) + 1 /\ row.key = x.key /\ row.status = "open"
             /\ row.ingested = TrackKey(x.key, SeenOf(Comparand(default)))
             /\ row.tracking = IF legacy THEN "unknown" ELSE row.ingested
<1> DEFINE x == Head(arriving).issues[k]
           state == TrackKey(x.key, SeenOf(Comparand(default)))
           s == Len(scans) + 1
<1>1. RowStored(k, legacy, default) = NewRow(x, s, state, legacy)
  BY DEF RowStored
<1> HIDE DEF x, state, s
<1>2. LET row == NewRow(x, s, state, legacy)
      IN  /\ row.scan = s /\ row.key = x.key /\ row.status = "open" /\ row.ingested = state
          /\ row.tracking = IF legacy THEN "unknown" ELSE state
  BY DEF NewRow
<1>3. QED
  BY <1>1, <1>2 DEF x, state, s

\* What any step leaves of the rows that are there: of the issues of one scan either no status
\* changes, or one more change of the scan is counted.
RowsMove ==
    /\ mainBranch' = mainBranch
    /\ \A s \in ScanIds : s \in ScanIds' /\ scans'[s] = scans[s]
    /\ \A i \in IssueIds : /\ i \in IssueIds' /\ issueRows'[i].key = issueRows[i].key
                           /\ issueRows'[i].scan = issueRows[i].scan /\ issueRows'[i].ingested = issueRows[i].ingested
    /\ \A i \in IssueIds' \ IssueIds : issueRows'[i].scan \notin ScanIds
    /\ \A p \in ScanIds : \/ /\ ChangesOf(p)' = ChangesOf(p)
                             /\ \A i \in IssuesOf(p) : issueRows'[i].status = issueRows[i].status
                          \/ ChangesOf(p)' = ChangesOf(p) + 1

TablesMove == TriageTables' /\ StatesKept /\ RowsMove

LEMMA TablesStay ==
  ASSUME TriageTables, UNCHANGED <<mainBranch, scans, issueRows, transitions>>
  PROVE  HistoryExplains' /\ StatesKept /\ RowsMove
<1>1. HistoryExplains' /\ StatesKept
  BY DEF TriageTables, HistoryExplains, StatesKept, IssueIds
<1>2. \A p \in ScanIds : ChangesOf(p)' = ChangesOf(p)
  BY DEF ChangesOf
<1>3. RowsMove
  BY <1>2 DEF RowsMove, IssueIds, ScanIds, IssuesOf
<1>4. QED
  BY <1>1, <1>3

LEMMA StoreMoves ==
  ASSUME TriageTables, NEW legacy \in BOOLEAN, NEW default, StoreReport(legacy, default)
  PROVE  TablesMove
<1> DEFINE s == Len(scans) + 1
           n == Len(issueRows)
           m == Len(Head(arriving).issues)
<1>1. TriageShape /\ TriageLinks /\ HistoryExplains
  BY DEF TriageTables
<1>2. UNCHANGED <<mainBranch, transitions, changelog, pending, backfill>>
  BY DEF StoreReport
<1>3. /\ ScanIds = 1..Len(scans) /\ Len(scans) \in Nat /\ IssueIds = 1..n /\ n \in Nat
      /\ DOMAIN transitions = 1..Len(transitions)
  BY <1>1, IdIntervals
<1>4. TriageShape'
  BY <1>1, <1>2, ScanStored, IssuesStored DEF TriageShape
<1>5. \A i \in IssueIds : i \in IssueIds' /\ issueRows'[i] = issueRows[i]
  BY <1>1, IssuesStored
<1>6. \A t \in ScanIds : t \in ScanIds' /\ scans'[t] = scans[t]
  BY <1>1, ScanStored
<1>7. s \in ScanIds' /\ s \notin ScanIds /\ ScanIds' = ScanIds \cup {s}
  BY <1>1, ScanStored
<1>8. \A i \in IssueIds' \ IssueIds : issueRows'[i].scan = s /\ issueRows'[i].status = "open"
  <2>1. \A i \in IssueIds' \ IssueIds : issueRows'[i] = RowStored(i - n, legacy, default)
    BY <1>1, IssuesStored
  <2>2. \A k : RowStored(k, legacy, default).scan = s /\ RowStored(k, legacy, default).status = "open"
    BY DEF RowStored, NewRow
  <2>3. QED
    BY <2>1, <2>2
<1>9. TriageLinks'
  <2>1. \A i \in IssueIds' : issueRows'[i].scan \in ScanIds'
    BY <1>1, <1>5, <1>6, <1>7, <1>8 DEF TriageLinks
  <2>2. \A t \in ScanIds' : scans'[t].previous = NoScanId \/ scans'[t].previous \in 1..(t - 1)
    <3>1. scans'[s].previous = NoScanId \/ scans'[s].previous \in ScanIds
      <4>1. scans'[s].previous = Comparand(default)
        BY <1>1, ScanStored
      <4>2. Comparand(default) = NoScanId \/ Comparand(default) \in ScanIds
        BY <1>1, LatestIsScan DEF Comparand
      <4>3. QED
        BY <4>1, <4>2
    <3>2. s - 1 = Len(scans)
      BY <1>3
    <3>3. QED
      BY <1>1, <1>3, <1>6, <1>7, <3>1, <3>2 DEF TriageLinks
  <2>3. /\ \A k \in DOMAIN transitions' : transitions'[k].issue \in IssueIds'
        /\ \A k \in DOMAIN changelog' : changelog'[k].issue \in IssueIds'
        /\ \A u \in Triagers : pending'[u].stage # "idle" => pending'[u].issue \in IssueIds'
        /\ \A u \in Triagers : pending'[u].stage = "read" => pending'[u].from \in {"open", "closed"}
    BY <1>1, <1>2, <1>5 DEF TriageLinks
  <2>4. \A k \in DOMAIN snapshots' : k \in Manifests /\ snapshots'[k] \in ScanIds'
    <3> DEFINE scope == [type |-> Head(arriving).type, name |-> Head(arriving).name]
    <3>1. snapshots' = [k \in DOMAIN snapshots \cup {scope} |-> IF k = scope THEN s ELSE snapshots[k]]
      BY DEF StoreReport
    <3>2. Head(arriving) \in Reports
      BY <1>1, ScanStored
    <3>3. scope \in Manifests
      BY <3>2 DEF Manifests, Reports
    <3> HIDE DEF scope
    <3>4. QED
      BY <1>1, <1>6, <1>7, <3>1, <3>3 DEF TriageLinks
  <2>5. QED
    BY <2>1, <2>2, <2>3, <2>4 DEF TriageLinks
<1>10. HistoryExplains'
  <2>1. ASSUME NEW i \in IssueIds'
        PROVE  LET own == {k \in DOMAIN transitions' : transitions'[k].issue = i}
               IN  IF own = {} THEN issueRows'[i].status = "open"
                   ELSE \E k \in own : /\ \A j \in own : j <= k
                                       /\ issueRows'[i].status = transitions'[k].to
                                       /\ issueRows'[i].resolution = transitions'[k].resolution
    <3>1. CASE i \in IssueIds
      BY <1>1, <1>2, <1>5, <3>1 DEF HistoryExplains
    <3>2. CASE i \notin IssueIds
      BY <1>1, <1>2, <1>8, <3>2 DEF TriageLinks
    <3>3. QED
      BY <3>1, <3>2
  <2>2. QED
    BY <2>1 DEF HistoryExplains
<1>11. \A p \in ScanIds : ChangesOf(p)' = ChangesOf(p)
  <2>1. \A k \in DOMAIN transitions : issueRows'[transitions[k].issue] = issueRows[transitions[k].issue]
    BY <1>1, <1>5 DEF TriageLinks
  <2>2. QED
    BY <1>2, <2>1 DEF ChangesOf
<1>12. RowsMove
  BY <1>2, <1>5, <1>6, <1>7, <1>8, <1>11 DEF RowsMove, IssuesOf
<1>13. QED
  BY <1>4, <1>5, <1>9, <1>10, <1>12 DEF TablesMove, TriageTables, StatesKept

LEMMA BeginMoves ==
  ASSUME TriageTables, NEW u \in Triagers, NEW i \in IssueIds, NEW x \in Resolutions, BeginTransition(u, i, x)
  PROVE  TablesMove
<1> DEFINE q == [stage |-> "read", issue |-> i, from |-> issueRows[i].status, resolution |-> x]
<1>0. TriageShape /\ TriageLinks
  BY DEF TriageTables
<1>1. UNCHANGED <<mainBranch, arriving, scans, issueRows, transitions, changelog, snapshots, backfill>>
      /\ pending' = [pending EXCEPT ![u] = q]
  BY DEF BeginTransition
<1>2. q \in ChangeRequests /\ q.issue \in IssueIds /\ q.from \in {"open", "closed"}
  <2>1. issueRows[i].status \in {"open", "closed"}
    BY DEF BeginTransition, AllowedNext
  <2>2. i \in Nat
    BY <1>0, IdIntervals
  <2>3. QED
    BY <2>1, <2>2 DEF ChangeRequests
<1> HIDE DEF q
<1>3. /\ pending' \in [Triagers -> ChangeRequests]
      /\ \A v \in Triagers : pending'[v].stage # "idle" => pending'[v].issue \in IssueIds
      /\ \A v \in Triagers : pending'[v].stage = "read" => pending'[v].from \in {"open", "closed"}
  BY <1>0, <1>1, <1>2 DEF TriageShape, TriageLinks
<1>4. TriageShape' /\ TriageLinks'
  BY <1>0, <1>1, <1>3 DEF TriageShape, TriageLinks, IssueIds, ScanIds
<1>5. QED
  BY <1>1, <1>4, TablesStay DEF TablesMove, TriageTables

LEMMA CommitMoves ==
  ASSUME TriageTables, NEW u \in Triagers, CommitTransition(u)
  PROVE  TablesMove
<1> DEFINE k == pending[u].issue
           x == pending[u].resolution
           moved == [issueRows[k] EXCEPT !.status = Target(x)]
           row == [moved EXCEPT !.resolution = x]
           t == [issue |-> k, from |-> pending[u].from, to |-> Target(x), resolution |-> x]
           n == Len(transitions)
<1>0. TriageShape /\ TriageLinks /\ HistoryExplains
  BY DEF TriageTables
<1>1. k \in IssueIds /\ x \in Resolutions \cup {""} /\ pending[u].from \in {"open", "closed"} /\ k \in Nat
  <2>1. pending[u].stage = "read" /\ pending[u] \in ChangeRequests
    BY <1>0 DEF CommitTransition, TriageShape
  <2>2. QED
    BY <1>0, <2>1 DEF TriageLinks, ChangeRequests
<1>2. issueRows' = [issueRows EXCEPT ![k].status = Target(x), ![k].resolution = x]
  BY DEF CommitTransition
<1>3. issueRows[k] \in IssueRows /\ Target(x) \in {"open", "closed"}
  BY <1>0, <1>1, IdIntervals DEF Target
<1>4. \A r \in IssueRows, s \in {"open", "closed"} :
         LET c == [r EXCEPT !.status = s]
         IN  /\ c \in IssueRows /\ c.tracking = r.tracking /\ c.key = r.key /\ c.scan = r.scan /\ c.ingested = r.ingested
             /\ c.status = s
  BY DEF IssueRows
<1>5. \A r \in IssueRows, y \in Resolutions \cup {""} :
         LET c == [r EXCEPT !.resolution = y]
         IN  /\ c \in IssueRows /\ c.tracking = r.tracking /\ c.key = r.key /\ c.scan = r.scan /\ c.ingested = r.ingested
             /\ c.status = r.status /\ c.resolution = y
  BY DEF IssueRows
<1>6. /\ row \in IssueRows /\ row.tracking = issueRows[k].tracking /\ row.key = issueRows[k].key
      /\ row.scan = issueRows[k].scan /\ row.ingested = issueRows[k].ingested
      /\ row.status = Target(x) /\ row.resolution = x
  <2>1. /\ moved \in IssueRows /\ moved.tracking = issueRows[k].tracking /\ moved.key = issueRows[k].key
        /\ moved.scan = issueRows[k].scan /\ moved.ingested = issueRows[k].ingested /\ moved.status = Target(x)
    BY <1>3, <1>4
  <2> HIDE DEF moved
  <2>2. QED
    BY <2>1, <1>1, <1>5
<1>7. issueRows' = [issueRows EXCEPT ![k] = row]
  BY <1>0, <1>1, <1>2 DEF TriageShape, IssueIds
<1> HIDE DEF moved, row
<1>8. issueRows' \in Seq(IssueRows) /\ IssueIds' = IssueIds /\ issueRows'[k] = row /\ \A i \in IssueIds \ {k} : issueRows'[i] = issueRows[i]
  <2>1. issueRows \in Seq(IssueRows) /\ k \in DOMAIN issueRows
    BY <1>0, <1>1 DEF TriageShape, IssueIds
  <2> HIDE DEF k
  <2>2. [issueRows EXCEPT ![k] = row] \in Seq(IssueRows) /\ DOMAIN [issueRows EXCEPT ![k] = row] = DOMAIN issueRows
    BY <2>1, <1>6
  <2>3. QED
    BY <2>1, <2>2, <1>7 DEF IssueIds
<1>9. t \in TransitionRows /\ t.issue = k /\ t.to = Target(x) /\ t.resolution = x
  <2>1. Target(x) \in {"open", "closed"}
    BY <1>3
  <2> HIDE DEF k, x
  <2>2. QED
    BY <2>1, <1>1 DEF TransitionRows
<1>10. UNCHANGED <<mainBranch, arriving, scans, changelog, snapshots, backfill>> /\ transitions' = Append(transitions, t)
       /\ pending' = [pending EXCEPT ![u].stage = "committed"]
  BY DEF CommitTransition
<1> HIDE DEF t
<1>11. /\ transitions' \in Seq(TransitionRows) /\ DOMAIN transitions' = 1..(n + 1) /\ transitions'[n + 1] = t
       /\ n \in Nat /\ DOMAIN transitions = 1..n /\ n + 1 \notin 1..n /\ 1..(n + 1) = (1..n) \cup {n + 1}
       /\ \A j \in 1..n : transitions'[j] = transitions[j]
  BY <1>0, <1>9, <1>10 DEF TriageShape
<1> HIDE DEF n, k, x
<1>12. \A q \in ChangeRequests : LET c == [q EXCEPT !.stage = "committed"]
                                 IN  c \in ChangeRequests /\ c.stage = "committed" /\ c.issue = q.issue
  BY DEF ChangeRequests
<1>13. /\ pending' \in [Triagers -> ChangeRequests]
       /\ \A v \in Triagers : pending'[v].stage # "idle" => pending'[v].issue \in IssueIds
       /\ \A v \in Triagers : pending'[v].stage = "read" => pending'[v].from \in {"open", "closed"}
  <2>1. pending' = [pending EXCEPT ![u] = [pending[u] EXCEPT !.stage = "committed"]]
    BY <1>10
  <2>2. pending[u] \in ChangeRequests /\ pending \in [Triagers -> ChangeRequests]
    BY <1>0 DEF TriageShape
  <2>3. pending[u].issue \in IssueIds
    BY <1>1 DEF k
  <2>4. QED
    BY <1>0, <2>1, <2>2, <2>3, <1>12 DEF TriageLinks
<1>14. TriageShape'
  BY <1>0, <1>8, <1>10, <1>11, <1>13 DEF TriageShape
<1>15. TriageLinks'
  <2>1. \A i \in IssueIds : issueRows'[i].scan = issueRows[i].scan
    BY <1>6, <1>8
  <2>2. \A j \in DOMAIN transitions' : transitions'[j].issue \in IssueIds'
    BY <1>0, <1>1, <1>8, <1>9, <1>11 DEF TriageLinks
  <2>3. QED
    BY <1>0, <1>8, <1>10, <1>13, <2>1, <2>2 DEF TriageLinks, ScanIds
<1>16. HistoryExplains'
  <2>1. ASSUME NEW i \in IssueIds'
        PROVE  LET own == {j \in DOMAIN transitions' : transitions'[j].issue = i}
               IN  IF own = {} THEN issueRows'[i].status = "open"
                   ELSE \E j \in own : /\ \A l \in own : l <= j
                                       /\ issueRows'[i].status = transitions'[j].to
                                       /\ issueRows'[i].resolution = transitions'[j].resolution
    <3> DEFINE own == {j \in DOMAIN transitions' : transitions'[j].issue = i}
    <3>1. CASE i = k
      <4>1. n + 1 \in own /\ \A l \in own : l <= n + 1
        BY <1>9, <1>11, <3>1
      <4>2. issueRows'[i].status = transitions'[n + 1].to /\ issueRows'[i].resolution = transitions'[n + 1].resolution
        BY <1>6, <1>8, <1>9, <1>11, <3>1
      <4> HIDE DEF own
      <4>3. \E j \in own : /\ \A l \in own : l <= j
                           /\ issueRows'[i].status = transitions'[j].to
                           /\ issueRows'[i].resolution = transitions'[j].resolution
        BY <4>1, <4>2
      <4>4. own # {}
        BY <4>1
      <4>5. QED
        BY <4>3, <4>4 DEF own
    <3>2. CASE i # k
      <4>1. own = {j \in DOMAIN transitions : transitions[j].issue = i}
        BY <1>9, <1>11, <3>2
      <4>2. i \in IssueIds /\ issueRows'[i] = issueRows[i] /\ \A j \in DOMAIN transitions : transitions'[j] = transitions[j]
        BY <1>8, <1>11, <3>2
      <4>3. LET o == {j \in DOMAIN transitions : transitions[j].issue = i}
            IN  IF o = {} THEN issueRows[i].status = "open"
                ELSE \E j \in o : /\ \A l \in o : l <= j
                                  /\ issueRows[i].status = transitions[j].to
                                  /\ issueRows[i].resolution = transitions[j].resolution
        BY <1>0, <4>2 DEF HistoryExplains
      <4>4. QED
        BY <4>1, <4>2, <4>3
    <3>3. QED
      BY <3>1, <3>2
  <2>2. QED
    BY <2>1 DEF HistoryExplains
<1>17. StatesKept
  BY <1>6, <1>8 DEF StatesKept
<1>18. ASSUME NEW p \in ScanIds
       PROVE  \/ /\ ChangesOf(p)' = ChangesOf(p)
                 /\ \A i \in IssuesOf(p) : issueRows'[i].status = issueRows[i].status
              \/ ChangesOf(p)' = ChangesOf(p) + 1
  <2> DEFINE S == {j \in DOMAIN transitions : issueRows[transitions[j].issue].scan = p}
             T == {j \in DOMAIN transitions' : issueRows'[transitions'[j].issue].scan = p}
  <2>1. ChangesOf(p) = Cardinality(S) /\ ChangesOf(p)' = Cardinality(T)
    BY DEF ChangesOf
  <2>2. \A i \in IssueIds : issueRows'[i].scan = issueRows[i].scan
    BY <1>6, <1>8
  <2>3. \A j \in 1..n : transitions[j].issue \in IssueIds /\ transitions'[j].issue = transitions[j].issue
    BY <1>0, <1>11 DEF TriageLinks
  <2>4. \A j \in 1..n : j \in T <=> j \in S
    BY <1>11, <2>2, <2>3
  <2>5. n + 1 \in T <=> issueRows[k].scan = p
    BY <1>1, <1>9, <1>11, <2>2
  <2>6. S \subseteq 1..n /\ T \subseteq (1..n) \cup {n + 1}
    BY <1>11
  <2>7. CASE issueRows[k].scan = p
    <3>1. T = S \cup {n + 1}
      BY <2>7, <2>4, <2>5, <2>6
    <3>2. n + 1 \notin S
      BY <1>11
    <3>3. IsFiniteSet(S)
      <4>1. IsFiniteSet(1..n)
        BY <1>11, CountFinite
      <4>2. S \in SUBSET (1..n)
        BY <1>11
      <4>3. QED
        BY <4>1, <4>2, FS_Subset
    <3> HIDE DEF S, T
    <3>4. Cardinality(T) = Cardinality(S) + 1
      BY <3>1, <3>2, <3>3, FS_AddElement
    <3>5. QED
      BY <2>1, <3>4
  <2>8. CASE issueRows[k].scan # p
    <3>1. T = S
      BY <2>8, <2>4, <2>5, <2>6
    <3>2. \A i \in IssuesOf(p) : issueRows'[i] = issueRows[i]
      BY <1>8, <2>8 DEF IssuesOf
    <3>3. QED
      BY <2>1, <3>1, <3>2
  <2>9. QED
    BY <2>7, <2>8
<1>19. RowsMove
  <2>1. \A i \in IssueIds : /\ issueRows'[i].key = issueRows[i].key /\ issueRows'[i].scan = issueRows[i].scan
                            /\ issueRows'[i].ingested = issueRows[i].ingested
    BY <1>6, <1>8
  <2>2. QED
    BY <1>8, <1>10, <1>18, <2>1 DEF RowsMove, ScanIds
<1>20. QED
  BY <1>14, <1>15, <1>16, <1>17, <1>19 DEF TablesMove, TriageTables

LEMMA RequestEnds ==
  ASSUME TriageTables, NEW u \in Triagers, NEW logged, TransitionFails(u) \/ RecordChange(u, logged)
  PROVE  TablesMove
<1> DEFINE q == pending[u]
<1>0. TriageShape /\ TriageLinks
  BY DEF TriageTables
<1>1. /\ UNCHANGED <<mainBranch, arriving, scans, issueRows, transitions, snapshots, backfill>>
      /\ pending' = [pending EXCEPT ![u] = IdleRequest]
  BY DEF TransitionFails, RecordChange
<1>2. changelog' \in Seq(ChangeRows) /\ \A n \in DOMAIN changelog' : changelog'[n].issue \in IssueIds
  <2>0. changelog \in Seq(ChangeRows) /\ \A n \in DOMAIN changelog : changelog[n].issue \in IssueIds
    BY <1>0 DEF TriageShape, TriageLinks
  <2>1. CASE changelog' = changelog
    BY <2>0, <2>1
  <2>2. CASE RecordChange(u, logged) /\ logged
    <3> DEFINE one == [issue |-> q.issue, field |-> "status", old |-> "", new |-> Target(q.resolution)]
               two == [issue |-> q.issue, field |-> "resolution", old |-> "", new |-> q.resolution]
    <3>1. changelog' = changelog \o <<one>> \o (IF q.resolution = "" THEN <<>> ELSE <<two>>)
      BY <2>2 DEF RecordChange
    <3>2. q.issue \in IssueIds /\ q.issue \in Nat /\ q.resolution \in Resolutions \cup {""}
      BY <1>0, <2>2 DEF RecordChange, TriageShape, TriageLinks, ChangeRequests
    <3>3. one \in ChangeRows /\ one.issue \in IssueIds
      BY <3>2 DEF ChangeRows, Target
    <3>4. q.resolution # "" => two \in ChangeRows /\ two.issue \in IssueIds
      BY <3>2 DEF ChangeRows
    <3> HIDE DEF one, two, q
    <3>5. /\ changelog \o <<one>> \in Seq(ChangeRows)
          /\ \A n \in DOMAIN (changelog \o <<one>>) : (changelog \o <<one>>)[n].issue \in IssueIds
      BY <2>0, <3>3
    <3> DEFINE log == changelog \o <<one>>
    <3> HIDE DEF log
    <3>6. log \in Seq(ChangeRows) /\ \A n \in DOMAIN log : log[n].issue \in IssueIds
      BY <3>5 DEF log
    <3>7. CASE q.resolution = ""
      <4>1. changelog' = log \o <<>>
        BY <3>1, <3>7 DEF log
      <4>2. log \o <<>> = log
        BY <3>6
      <4>3. QED
        BY <3>6, <4>1, <4>2
    <3>8. CASE q.resolution # ""
      <4>1. changelog' = log \o <<two>>
        BY <3>1, <3>8 DEF log
      <4>2. two \in ChangeRows /\ two.issue \in IssueIds
        BY <3>4, <3>8
      <4>3. log \o <<two>> \in Seq(ChangeRows)
        BY <3>6, <4>2
      <4>4. DOMAIN (log \o <<two>>) = 1..(Len(log) + 1) /\ Len(log) \in Nat
        BY <3>6
      <4>5. (log \o <<two>>)[Len(log) + 1] = two /\ \A n \in DOMAIN log : (log \o <<two>>)[n] = log[n]
        BY <3>6
      <4>6. DOMAIN log = 1..Len(log)
        BY <3>6
      <4>7. \A n \in DOMAIN (log \o <<two>>) : (log \o <<two>>)[n].issue \in IssueIds
        BY <3>6, <4>2, <4>4, <4>5, <4>6
      <4>8. QED
        BY <4>1, <4>3, <4>7
    <3>9. QED
      BY <3>7, <3>8
  <2>3. QED
    BY <2>1, <2>2 DEF TransitionFails, RecordChange
<1>3. /\ pending' \in [Triagers -> ChangeRequests]
      /\ \A v \in Triagers : pending'[v].stage # "idle" => pending'[v].issue \in IssueIds
      /\ \A v \in Triagers : pending'[v].stage = "read" => pending'[v].from \in {"open", "closed"}
  BY <1>0, <1>1, IdleRequestTyped DEF TriageShape, TriageLinks
<1>4. TriageShape' /\ TriageLinks'
  BY <1>0, <1>1, <1>2, <1>3 DEF TriageShape, TriageLinks, IssueIds, ScanIds
<1>5. QED
  BY <1>1, <1>4, TablesStay DEF TablesMove, TriageTables

\* A backfill in progress that only notes where it is.
BackfillFields(b) == DOMAIN b = DOMAIN IdleBackfill /\ \A i \in DOMAIN b.updates : b.updates[i] \in TrackingStates

LEMMA BackfillFieldsKeep ==
  ASSUME NEW b, BackfillFields(b)
  PROVE  /\ \A v : BackfillFields([b EXCEPT !.stage = v]) /\ BackfillFields([b EXCEPT !.default = v])
                   /\ BackfillFields([b EXCEPT !.scopes = v]) /\ BackfillFields([b EXCEPT !.scans = v])
                   /\ BackfillFields([b EXCEPT !.previous = v])
         /\ \A v : (\A i \in DOMAIN v : v[i] \in TrackingStates) => BackfillFields([b EXCEPT !.updates = v])
<1>1. DOMAIN b = {"stage", "default", "scopes", "scans", "previous", "updates"}
  BY DEF BackfillFields, IdleBackfill
<1>2. QED
  BY <1>1, Zenon DEF BackfillFields, IdleBackfill

\* The backfill a scan leaves behind, and the one a write leaves behind.
Scanned(b) ==
    LET rows == QueryScan(Oldest(b.scans))
        updates == BackfillUpdates(rows, b.previous)
    IN  [[[[b EXCEPT !.scans = b.scans \ {Oldest(b.scans)}] EXCEPT !.updates = updates] EXCEPT !.previous = ForTracking(rows)]
            EXCEPT !.stage = IF updates = <<>> THEN "scope" ELSE "update"]
Written(b) == [[b EXCEPT !.stage = "scope"] EXCEPT !.updates = <<>>]
Scoped(b, scope) ==
    [[[b EXCEPT !.scopes = b.scopes \ {scope}] EXCEPT !.previous = {}] EXCEPT !.scans = ScansInScope(scope, b.default)]
Begun(default) == [[[IdleBackfill EXCEPT !.stage = "scope"] EXCEPT !.default = default] EXCEPT !.scopes = ProjectScopes(default)]

LEMMA BackfillChanges ==
  ASSUME TriageShape, NEW a \in Backfillers, NEW default, NEW scope
  PROVE  /\ BeginBackfill(a, default) => backfill' = [backfill EXCEPT ![a] = Begun(default)]
         /\ BackfillScope(a, scope) => backfill' = [backfill EXCEPT ![a] = Scoped(backfill[a], scope)]
         /\ BackfillScan(a) => backfill' = [backfill EXCEPT ![a] = Scanned(backfill[a])]
         /\ BackfillWrite(a) => backfill' = [backfill EXCEPT ![a] = Written(backfill[a])]
         /\ BackfillEnds(a) \/ BackfillFails(a) => backfill' = [backfill EXCEPT ![a] = IdleBackfill]
<1>0. a \in DOMAIN backfill
  BY DEF TriageShape
<1>1. BeginBackfill(a, default) => backfill' = [backfill EXCEPT ![a] = Begun(default)]
  BY DEF BeginBackfill, Begun, IdleBackfill
<1>2. BackfillScope(a, scope) => backfill' = [backfill EXCEPT ![a] = Scoped(backfill[a], scope)]
  BY <1>0 DEF BackfillScope, Scoped
<1>3. ASSUME BackfillScan(a) PROVE backfill' = [backfill EXCEPT ![a] = Scanned(backfill[a])]
  <2> DEFINE rows == QueryScan(Oldest(backfill[a].scans))
             updates == BackfillUpdates(rows, backfill[a].previous)
             previous == ForTracking(rows)
             stage == IF updates = <<>> THEN "scope" ELSE "update"
             left == backfill[a].scans \ {Oldest(backfill[a].scans)}
  <2>1. backfill' = [backfill EXCEPT ![a].scans = @ \ {Oldest(@)}, ![a].updates = updates, ![a].previous = previous, ![a].stage = stage]
    BY <1>3 DEF BackfillScan, NextPrevious
  <2> HIDE DEF updates, previous, stage
  <2>2. backfill' = [backfill EXCEPT ![a] = [[[[backfill[a] EXCEPT !.scans = left] EXCEPT !.updates = updates]
                                                EXCEPT !.previous = previous] EXCEPT !.stage = stage]]
    BY <1>0, <2>1
  <2>3. QED
    BY <2>2 DEF Scanned, updates, previous, stage
<1>4. BackfillWrite(a) => backfill' = [backfill EXCEPT ![a] = Written(backfill[a])]
  BY <1>0 DEF BackfillWrite, Written
<1>5. BackfillEnds(a) \/ BackfillFails(a) => backfill' = [backfill EXCEPT ![a] = IdleBackfill]
  BY DEF BackfillEnds, BackfillFails
<1>6. QED
  BY <1>1, <1>2, <1>3, <1>4, <1>5

LEMMA ChangedBackfillFields ==
  ASSUME NEW b, BackfillFields(b), NEW default, NEW scope
  PROVE  BackfillFields(Begun(default)) /\ BackfillFields(Scoped(b, scope)) /\ BackfillFields(Scanned(b))
         /\ BackfillFields(Written(b)) /\ BackfillFields(IdleBackfill)
<1>1. BackfillFields(IdleBackfill)
  BY DEF BackfillFields, IdleBackfill
<1>2. BackfillFields(Begun(default)) /\ BackfillFields(Scoped(b, scope))
  BY <1>1, BackfillFieldsKeep DEF Begun, Scoped
<1>3. BackfillFields(Scanned(b))
  <2> DEFINE rows == QueryScan(Oldest(b.scans))
             updates == BackfillUpdates(rows, b.previous)
  <2>1. \A i \in DOMAIN updates : updates[i] \in TrackingStates
    BY TrackKeyTyped DEF BackfillUpdates
  <2> HIDE DEF updates
  <2>2. QED
    BY <2>1, BackfillFieldsKeep DEF Scanned, updates
<1>4. BackfillFields(Written(b))
  <2>1. BackfillFields([b EXCEPT !.stage = "scope"]) /\ \A i \in DOMAIN <<>> : <<>>[i] \in TrackingStates
    <3>1. DOMAIN <<>> = {}
      OBVIOUS
    <3>2. QED
      BY <3>1, BackfillFieldsKeep
  <2>2. QED
    BY <2>1, BackfillFieldsKeep, Zenon DEF Written
<1>5. QED
  BY <1>1, <1>2, <1>3, <1>4

LEMMA BackfillMoves ==
  ASSUME TriageTables, NEW a \in Backfillers, NEW default, NEW scope,
         \/ BeginBackfill(a, default) \/ BackfillScope(a, scope) \/ BackfillScan(a) \/ BackfillEnds(a) \/ BackfillFails(a)
  PROVE  TablesMove
<1>1. UNCHANGED <<mainBranch, arriving, scans, issueRows, transitions, changelog, snapshots, pending>>
  BY DEF BeginBackfill, BackfillScope, BackfillScan, BackfillEnds, BackfillFails
<1>2. TriageShape /\ TriageLinks
  BY DEF TriageTables
<1>3. \A c \in Backfillers : BackfillFields(backfill[c])
  BY <1>2 DEF TriageShape, BackfillFields
<1>4. \E b : BackfillFields(b) /\ backfill' = [backfill EXCEPT ![a] = b]
  BY <1>2, <1>3, BackfillChanges, ChangedBackfillFields
<1>5. DOMAIN backfill' = Backfillers /\ \A c \in Backfillers : BackfillFields(backfill'[c])
  BY <1>2, <1>3, <1>4 DEF TriageShape
<1>6. TriageShape' /\ TriageLinks'
  BY <1>1, <1>2, <1>5 DEF TriageShape, TriageLinks, BackfillFields, IssueIds, ScanIds
<1>7. QED
  BY <1>1, <1>6, TablesStay DEF TablesMove, TriageTables

\* The write of a batch passes over the rows that have a state by now.
LEMMA WriteMoves ==
  ASSUME TriageTables, NEW a \in Backfillers, BackfillWrite(a)
  PROVE  /\ TablesMove
         /\ \A i \in IssueIds : issueRows'[i].tracking = IF i \in DOMAIN backfill[a].updates /\ issueRows[i].tracking = "unknown"
                                                         THEN backfill[a].updates[i] ELSE issueRows[i].tracking
<1> DEFINE updates == backfill[a].updates
<1>0. TriageShape /\ TriageLinks /\ HistoryExplains
  BY DEF TriageTables
<1>1. issueRows' = [i \in IssueIds |-> IF i \in DOMAIN updates /\ issueRows[i].tracking = "unknown"
                                       THEN [issueRows[i] EXCEPT !.tracking = updates[i]] ELSE issueRows[i]]
  BY DEF BackfillWrite, StillUnknown
<1>2. \A i \in DOMAIN updates : updates[i] \in TrackingStates
  BY <1>0 DEF TriageShape
<1>3. \A r \in IssueRows, t \in TrackingStates :
         LET c == [r EXCEPT !.tracking = t]
         IN  /\ c \in IssueRows /\ c.tracking = t /\ c.key = r.key /\ c.scan = r.scan /\ c.ingested = r.ingested
             /\ c.status = r.status /\ c.resolution = r.resolution
  BY DEF IssueRows, TrackingStates
<1>4. IssueIds = 1..Len(issueRows) /\ Len(issueRows) \in Nat /\ \A i \in IssueIds : issueRows[i] \in IssueRows
  BY <1>0, IdIntervals
<1> HIDE DEF updates
<1>5. issueRows' \in [1..Len(issueRows) -> IssueRows]
  BY <1>1, <1>2, <1>3, <1>4
<1>6. issueRows' \in Seq(IssueRows) /\ IssueIds' = IssueIds
  <2>1. \A f \in [1..Len(issueRows) -> IssueRows] : f \in Seq(IssueRows) /\ DOMAIN f = 1..Len(issueRows)
    BY <1>4
  <2>2. QED
    BY <2>1, <1>4, <1>5, Zenon DEF IssueIds
<1>7. \A i \in IssueIds : /\ issueRows'[i].key = issueRows[i].key /\ issueRows'[i].scan = issueRows[i].scan
                          /\ issueRows'[i].ingested = issueRows[i].ingested /\ issueRows'[i].status = issueRows[i].status
                          /\ issueRows'[i].resolution = issueRows[i].resolution
  BY <1>1, <1>2, <1>3, <1>4
<1>8. \A i \in IssueIds : issueRows'[i].tracking = IF i \in DOMAIN updates /\ issueRows[i].tracking = "unknown"
                                                   THEN updates[i] ELSE issueRows[i].tracking
  BY <1>1, <1>2, <1>3, <1>4
<1>9. UNCHANGED <<mainBranch, arriving, scans, transitions, changelog, snapshots, pending>>
  BY DEF BackfillWrite
<1>10. DOMAIN backfill' = Backfillers /\ \A c \in Backfillers : BackfillFields(backfill'[c])
  <2>1. \A c \in Backfillers : BackfillFields(backfill[c])
    BY <1>0 DEF TriageShape, BackfillFields
  <2>2. backfill' = [backfill EXCEPT ![a] = Written(backfill[a])] /\ BackfillFields(Written(backfill[a]))
    BY <1>0, <2>1, BackfillChanges, ChangedBackfillFields
  <2>3. QED
    BY <1>0, <2>1, <2>2 DEF TriageShape
<1>11. TriageShape'
  BY <1>0, <1>6, <1>9, <1>10 DEF TriageShape, BackfillFields
<1>12. TriageLinks'
  BY <1>0, <1>6, <1>7, <1>9 DEF TriageLinks, ScanIds
<1>13. HistoryExplains'
  BY <1>0, <1>6, <1>7, <1>9 DEF HistoryExplains
<1>14. StatesKept
  BY <1>8 DEF StatesKept
<1>15. RowsMove
  <2>1. \A p \in ScanIds : ChangesOf(p)' = ChangesOf(p)
    <3>1. \A n \in DOMAIN transitions : issueRows'[transitions[n].issue].scan = issueRows[transitions[n].issue].scan
      BY <1>0, <1>7 DEF TriageLinks
    <3>2. QED
      BY <1>9, <3>1 DEF ChangesOf
  <2>2. QED
    BY <1>6, <1>7, <1>9, <2>1 DEF RowsMove, ScanIds, IssuesOf
<1>16. QED
  BY <1>8, <1>11, <1>12, <1>13, <1>14, <1>15 DEF TablesMove, TriageTables, updates

LEMMA ReadersMove ==
  ASSUME TriageTables,
         UNCHANGED <<mainBranch, arriving, scans, issueRows, transitions, changelog, snapshots, pending, backfill>>
  PROVE  TablesMove
<1>1. TriageShape' /\ TriageLinks'
  BY DEF TriageTables, TriageShape, TriageLinks, IssueIds, ScanIds
<1>2. QED
  BY <1>1, TablesStay DEF TablesMove, TriageTables

LEMMA ReadersOnlyRead ==
  ASSUME NEW r \in Readers,
         \/ \E s \in ScanIds : OpenList(r, s)
         \/ ReadPage(r)
         \/ \E b \in DefaultBranchesNow : \E scope \in ProjectScopes(b) : OpenOverview(r, scope, b)
         \/ \E fails \in BOOLEAN : OverviewFacets(r, fails)
         \/ \E conds \in Conditions : OverviewIssues(r, conds)
  PROVE  UNCHANGED <<mainBranch, arriving, scans, issueRows, transitions, changelog, snapshots, pending, backfill>>
BY DEF OpenList, ReadPage, OpenOverview, OverviewFacets, OverviewIssues

LEMMA TriageStep ==
  ASSUME TriageTables, [TriageNext]_triageVars
  PROVE  TablesMove
<1>1. ASSUME NEW legacy \in BOOLEAN, NEW b, StoreReport(legacy, b) PROVE TablesMove
  BY <1>1, StoreMoves
<1>2. ASSUME NEW u \in Triagers, NEW i \in IssueIds, NEW x \in Resolutions, BeginTransition(u, i, x) PROVE TablesMove
  BY <1>2, BeginMoves
<1>3. ASSUME NEW u \in Triagers, CommitTransition(u) PROVE TablesMove
  BY <1>3, CommitMoves
<1>4. ASSUME NEW u \in Triagers, NEW logged, TransitionFails(u) \/ RecordChange(u, logged) PROVE TablesMove
  BY <1>4, RequestEnds
<1>5. ASSUME NEW a \in Backfillers, NEW b, NEW scope,
             BeginBackfill(a, b) \/ BackfillScope(a, scope) \/ BackfillScan(a) \/ BackfillEnds(a) \/ BackfillFails(a)
      PROVE  TablesMove
  BY <1>5, BackfillMoves
<1>6. ASSUME NEW a \in Backfillers, BackfillWrite(a) PROVE TablesMove
  BY <1>6, WriteMoves
<1>7. ASSUME NEW r \in Readers,
             \/ \E s \in ScanIds : OpenList(r, s)
             \/ ReadPage(r)
             \/ \E b \in DefaultBranchesNow : \E scope \in ProjectScopes(b) : OpenOverview(r, scope, b)
             \/ \E fails \in BOOLEAN : OverviewFacets(r, fails)
             \/ \E conds \in Conditions : OverviewIssues(r, conds)
      PROVE  TablesMove
  BY <1>7, ReadersOnlyRead, ReadersMove
<1>8. CASE UNCHANGED triageVars
  BY <1>8, ReadersMove DEF triageVars
<1>9. QED
  BY <1>1, <1>2, <1>3, <1>4, <1>5, <1>6, <1>7, <1>8 DEF TriageNext

LEMMA TablesHold == TriageSpec => []TriageTables
<1>1. TriageTables /\ [TriageNext]_triageVars => TriageTables'
  BY TriageStep DEF TablesMove
<1>2. QED
  BY <1>1, TablesAtFirst, PTL DEF TriageSpec

\* Every table holds what its columns allow and its links lead to rows, and the status of an issue is
\* the one its last transition recorded, although two users change an issue on what each read before
\* and reports and backfills go on meanwhile (IssueRepository.Transition, UpdateTrackingStates).
THEOREM HistoryIsTrue == TriageSpec => [](TriageTypeOK /\ HistoryExplains)
<1>1. TriageTables => TriageTypeOK /\ HistoryExplains
  <2> SUFFICES ASSUME TriageTables PROVE TriageTypeOK /\ HistoryExplains
    OBVIOUS
  <2>1. TriageShape /\ TriageLinks /\ HistoryExplains
    BY DEF TriageTables
  <2>2. \A s \in ScanIds : scans[s] \in ScanRows /\ scans[s].previous \in ScanIds \cup {NoScanId}
    BY <2>1, IdIntervals DEF TriageLinks
  <2>3. \A i \in IssueIds : issueRows[i] \in IssueRows /\ issueRows[i].scan \in ScanIds
    BY <2>1, IdIntervals DEF TriageLinks
  <2>4. \A t \in ToSet(transitions) : t \in TransitionRows /\ t.issue \in IssueIds
    BY <2>1, IdIntervals DEF TriageLinks, ToSet
  <2>5. \A e \in ToSet(changelog) : e \in ChangeRows /\ e.issue \in IssueIds
    BY <2>1 DEF TriageShape, TriageLinks, ToSet
  <2>6. QED
    BY <2>1, <2>2, <2>3, <2>4, <2>5 DEF TriageTypeOK, TriageLinks
<1>2. QED
  BY <1>1, TablesHold, PTL

\* A tracking state once set never changes, although several backfills run, each with states it worked
\* out from rows read before, and although users change issues and reports arrive meanwhile
\* (IssueRepository.UpdateTrackingStates).
THEOREM StatesOnceSetStay == TriageSpec => BackfillKeeps
<1>1. TriageTables /\ [TriageNext]_triageVars
        => [\A i \in IssueIds : issueRows[i].tracking # "unknown" => issueRows'[i].tracking = issueRows[i].tracking]_triageVars
  BY TriageStep DEF TablesMove, StatesKept
<1>2. QED
  BY <1>1, TablesHold, PTL DEF TriageSpec, BackfillKeeps

-----------------------------------------------------------------------------
(* Issues: how scans were tracked                                          *)

KeysOf(s) == {issueRows[i].key : i \in IssuesOf(s)}

\* Nobody has changed the issues a scan was compared with since it was stored, and what it was
\* compared with, as it is now.
ScanSettled(s) == scans[s].previous = NoScanId \/ ChangesOf(scans[s].previous) = scans[s].changed
ComparedWith(s) == SeenOf(scans[s].previous)

\* What an issue was ingested as can be worked out again as long as nobody changed the scan before.
IngestSound ==
    /\ \A s \in ScanIds : scans[s].previous # NoScanId => scans[s].changed <= ChangesOf(scans[s].previous)
    /\ \A i \in IssueIds : ScanSettled(issueRows[i].scan)
                              => issueRows[i].ingested = TrackKey(issueRows[i].key, ComparedWith(issueRows[i].scan))

LEMMA SameIssues ==
  ASSUME RowsMove, NEW p \in ScanIds
  PROVE  IssuesOf(p)' = IssuesOf(p) /\ QueryScan(p)' = QueryScan(p) /\ KeysOf(p)' = KeysOf(p)
<1>1. IssuesOf(p)' = IssuesOf(p)
  BY DEF RowsMove, IssuesOf
<1>2. \A i \in IssuesOf(p) : issueRows'[i].key = issueRows[i].key
  BY DEF RowsMove, IssuesOf
<1>3. QED
  BY <1>1, <1>2 DEF QueryScan, KeysOf

\* A scan that is settled after a step was so before, and what it was compared with is the same.
LEMMA SettledBefore ==
  ASSUME TriageTables, IngestSound, RowsMove, NEW s \in ScanIds, ScanSettled(s)'
  PROVE  ScanSettled(s) /\ ComparedWith(s)' = ComparedWith(s)
<1> DEFINE p == scans[s].previous
<1>1. scans'[s] = scans[s] /\ ScanIds = 1..Len(scans) /\ Len(scans) \in Nat /\ TriageShape /\ TriageLinks
  BY IdIntervals DEF RowsMove, TriageTables
<1>2. CASE p = NoScanId
  BY <1>1, <1>2 DEF ScanSettled, ComparedWith, SeenOf
<1>3. CASE p # NoScanId
  <2>1. p \in ScanIds /\ scans[s] \in ScanRows
    BY <1>1, <1>3, IdIntervals DEF TriageLinks
  <2>2. ChangesOf(p) \in Nat /\ scans[s].changed \in Nat
    BY <1>1, <2>1, ChangesCounted DEF ScanRows
  <2>3. scans[s].changed <= ChangesOf(p)
    BY <1>3 DEF IngestSound
  <2>4. \A q \in ScanIds : \/ /\ ChangesOf(q)' = ChangesOf(q)
                              /\ \A i \in IssuesOf(q) : issueRows'[i].status = issueRows[i].status
                           \/ ChangesOf(q)' = ChangesOf(q) + 1
    BY DEF RowsMove
  <2>5. scans'[s].previous = p
    BY <1>1
  <2>6. \A q : q = p /\ q \in ScanIds => ChangesOf(q)' = scans[s].changed
    <3> SUFFICES ASSUME NEW q, q = p, q \in ScanIds PROVE ChangesOf(q)' = scans[s].changed
      OBVIOUS
    <3>1. ChangesOf(scans[s].previous)' = scans[s].changed
      BY <1>1, <1>3 DEF ScanSettled
    <3>2. (scans[s].previous)' = q
      BY <2>5
    <3>3. QED
      BY <3>1, <3>2 DEF ChangesOf
  <2>7. PICK q \in ScanIds : q = p
    BY <2>1
  <2>8. ChangesOf(q)' = ChangesOf(q) /\ \A i \in IssuesOf(q) : issueRows'[i].status = issueRows[i].status
    <3> HIDE DEF p
    <3>1. ChangesOf(q) \in Nat /\ scans[s].changed <= ChangesOf(q) /\ ChangesOf(q)' = scans[s].changed
      BY <2>2, <2>3, <2>6, <2>7
    <3>2. ChangesOf(q)' # ChangesOf(q) + 1
      BY <2>2, <3>1
    <3>3. QED
      BY <2>4, <3>2
  <2>9. ScanSettled(s)
    BY <2>6, <2>7, <2>8 DEF ScanSettled
  <2>10. SeenOf(q)' = SeenOf(q)
    <3>1. QueryScan(q)' = QueryScan(q)
      BY SameIssues
    <3>2. \A i \in QueryScan(q) : issueRows'[i].key = issueRows[i].key /\ issueRows'[i].status = issueRows[i].status
      BY <2>8 DEF QueryScan, IssuesOf, RowsMove
    <3>3. QED
      BY <3>1, <3>2 DEF SeenOf, ForTracking
  <2>11. ComparedWith(s)' = SeenOf(q)' /\ ComparedWith(s) = SeenOf(q)
    BY <2>5, <2>7 DEF ComparedWith, SeenOf
  <2>12. QED
    BY <2>9, <2>10, <2>11
<1>4. QED
  BY <1>2, <1>3

\* A step stores a report or adds neither scans nor issues.
LEMMA StoreOrNot ==
  ASSUME TriageTables, [TriageNext]_triageVars
  PROVE  \/ \E legacy \in BOOLEAN, b \in DefaultBranchesNow : StoreReport(legacy, b)
         \/ UNCHANGED <<arriving, scans, IssueIds>>
<1>1. \A u \in Triagers : CommitTransition(u) => DOMAIN issueRows' = DOMAIN issueRows /\ UNCHANGED <<arriving, scans>>
  BY DEF CommitTransition
<1>2. \A a \in Backfillers : BackfillWrite(a) => DOMAIN issueRows' = DOMAIN issueRows /\ UNCHANGED <<arriving, scans>>
  BY DEF BackfillWrite, IssueIds
<1>3. \A u \in Triagers : \A i, x : BeginTransition(u, i, x) => UNCHANGED <<arriving, scans, issueRows>>
  BY DEF BeginTransition
<1>4. \A u \in Triagers : \A logged : TransitionFails(u) \/ RecordChange(u, logged) => UNCHANGED <<arriving, scans, issueRows>>
  BY DEF TransitionFails, RecordChange
<1>5. \A a \in Backfillers : \A b, scope : BeginBackfill(a, b) \/ BackfillScope(a, scope) \/ BackfillScan(a) \/ BackfillEnds(a) \/ BackfillFails(a)
         => UNCHANGED <<arriving, scans, issueRows>>
  BY DEF BeginBackfill, BackfillScope, BackfillScan, BackfillEnds, BackfillFails
<1>6. ASSUME NEW r \in Readers,
             \/ \E s \in ScanIds : OpenList(r, s)
             \/ ReadPage(r)
             \/ \E b \in DefaultBranchesNow : \E scope \in ProjectScopes(b) : OpenOverview(r, scope, b)
             \/ \E fails \in BOOLEAN : OverviewFacets(r, fails)
             \/ \E conds \in Conditions : OverviewIssues(r, conds)
      PROVE  UNCHANGED <<arriving, scans, issueRows>>
  BY <1>6, ReadersOnlyRead
<1>7. CASE UNCHANGED triageVars
  BY <1>7 DEF triageVars, IssueIds
<1>8. QED
  BY <1>1, <1>2, <1>3, <1>4, <1>5, <1>6, <1>7 DEF TriageNext, IssueIds

LEMMA SeenStays ==
  ASSUME TriageTables, NEW legacy \in BOOLEAN, NEW default, StoreReport(legacy, default), RowsMove, NEW p, p = NoScanId \/ p \in ScanIds
  PROVE  SeenOf(p)' = SeenOf(p)
<1>1. CASE p = NoScanId
  BY <1>1 DEF SeenOf
<1>2. CASE p \in ScanIds
  <2>1. QueryScan(p)' = QueryScan(p)
    BY <1>2, SameIssues
  <2>2. \A i \in QueryScan(p) : issueRows'[i] = issueRows[i]
    BY IssuesStored DEF QueryScan, IssuesOf, TriageTables
  <2>3. QED
    BY <2>1, <2>2 DEF SeenOf, ForTracking
<1>3. QED
  BY <1>1, <1>2

LEMMA IngestStep ==
  ASSUME TriageTables, IngestSound, [TriageNext]_triageVars
  PROVE  IngestSound'
<1>1. RowsMove /\ TriageShape /\ TriageLinks
  BY TriageStep DEF TablesMove, TriageTables
<1>2. \A s \in ScanIds : s \in ScanIds' /\ scans'[s] = scans[s]
  BY <1>1 DEF RowsMove
<1>3. \A s \in ScanIds : (scans[s].previous # NoScanId => scans[s].changed <= ChangesOf(scans[s].previous))'
  <2> SUFFICES ASSUME NEW s \in ScanIds, scans[s].previous # NoScanId, NEW p, p = scans[s].previous
               PROVE  scans[s].changed <= ChangesOf(p)'
    BY <1>2 DEF ChangesOf
  <2>1. p \in ScanIds /\ scans[s] \in ScanRows
    BY <1>1, IdIntervals DEF TriageLinks
  <2>2. ChangesOf(p) \in Nat /\ scans[s].changed \in Nat /\ scans[s].changed <= ChangesOf(p)
    BY <1>1, <2>1, ChangesCounted DEF IngestSound, ScanRows
  <2>3. ChangesOf(p)' = ChangesOf(p) \/ ChangesOf(p)' = ChangesOf(p) + 1
    BY <1>1, <2>1 DEF RowsMove
  <2>4. QED
    BY <2>2, <2>3
<1>4. \A i \in IssueIds : (ScanSettled(issueRows[i].scan)
                               => issueRows[i].ingested = TrackKey(issueRows[i].key, ComparedWith(issueRows[i].scan)))'
  <2> SUFFICES ASSUME NEW i \in IssueIds, NEW s, s = issueRows[i].scan, ScanSettled(s)'
               PROVE  issueRows'[i].ingested = TrackKey(issueRows'[i].key, ComparedWith(s)')
    BY <1>1 DEF RowsMove, ScanSettled, ComparedWith
  <2>1. s \in ScanIds
    BY <1>1 DEF TriageLinks
  <2>2. ScanSettled(s) /\ ComparedWith(s)' = ComparedWith(s)
    BY <1>1, <2>1, SettledBefore
  <2>3. issueRows[i].ingested = TrackKey(issueRows[i].key, ComparedWith(s))
    BY <2>2 DEF IngestSound
  <2>4. QED
    BY <1>1, <2>2, <2>3 DEF RowsMove
<1>5. CASE UNCHANGED <<arriving, scans, IssueIds>>
  <2>1. ScanIds' = ScanIds
    BY <1>5 DEF ScanIds
  <2>2. QED
    BY <1>3, <1>4, <1>5, <2>1 DEF IngestSound
<1>6. ASSUME NEW legacy \in BOOLEAN, NEW b, StoreReport(legacy, b)
      PROVE  IngestSound'
  <2> DEFINE p == Comparand(b)
  <2>0. PICK s : s = Len(scans) + 1
    OBVIOUS
  <2>1. /\ ScanIds' = ScanIds \cup {s} /\ scans'[s].previous = p
        /\ scans'[s].changed = (IF p = NoScanId THEN 0 ELSE ChangesOf(p))
    BY <1>1, <1>6, <2>0, ScanStored
  <2>2. p = NoScanId \/ p \in ScanIds
    BY <1>1, LatestIsScan DEF Comparand
  <2>3. (scans[s].previous # NoScanId => scans[s].changed <= ChangesOf(scans[s].previous))'
    <3> SUFFICES ASSUME NEW q, q = p, q # NoScanId PROVE ChangesOf(q) <= ChangesOf(q)'
      BY <2>1 DEF ChangesOf
    <3>1. q \in ScanIds
      BY <2>2
    <3>2. ChangesOf(q) \in Nat /\ (ChangesOf(q)' = ChangesOf(q) \/ ChangesOf(q)' = ChangesOf(q) + 1)
      BY <1>1, <3>1, ChangesCounted DEF RowsMove
    <3>3. QED
      BY <3>2
  <2>4. ASSUME NEW i \in IssueIds' \ IssueIds
        PROVE  (issueRows[i].ingested = TrackKey(issueRows[i].key, ComparedWith(issueRows[i].scan)))'
    <3> DEFINE k == i - Len(issueRows)
    <3>1. issueRows'[i] = RowStored(k, legacy, b)
      BY <1>1, <1>6, IssuesStored
    <3>2. /\ issueRows'[i].scan = s /\ issueRows'[i].key = Head(arriving).issues[k].key
          /\ issueRows'[i].ingested = TrackKey(Head(arriving).issues[k].key, SeenOf(p))
      BY <2>0, <3>1, RowFields
    <3>3. PICK q : q = p
      OBVIOUS
    <3>4. SeenOf(q)' = SeenOf(q)
      BY <1>1, <1>6, <2>2, <3>3, SeenStays
    <3>5. ComparedWith(issueRows[i].scan)' = SeenOf(q)'
      BY <2>1, <3>2, <3>3 DEF ComparedWith, SeenOf
    <3>6. QED
      BY <3>2, <3>3, <3>4, <3>5
  <2>5. QED
    BY <1>1, <1>3, <1>4, <2>1, <2>3, <2>4 DEF IngestSound, RowsMove
<1>7. QED
  BY <1>5, <1>6, StoreOrNot

LEMMA IngestAtFirst == TriageInit => IngestSound
BY DEF TriageInit, IngestSound, ScanIds, IssueIds

\* No report holds more issues than the query of a scan returns.
SmallReports == \A a \in Arrivals : \A k \in DOMAIN a : Len(a[k].issues) <= QueryCap

\* So the query returns all issues of each scan.
ScansAreSmall ==
    /\ \A k \in DOMAIN arriving : Len(arriving[k].issues) <= QueryCap
    /\ \A s \in ScanIds : Cardinality(IssuesOf(s)) <= QueryCap

\* What was counted when a scan was stored: its new issues, and, until the scan before is changed,
\* the open issues of that which are gone.
Counted(s, prev) ==
    /\ scans[s].new = Cardinality({i \in IssuesOf(s) : prev = NoScanId \/ issueRows[i].key \notin KeysOf(prev)})
    /\ prev # NoScanId /\ ScanSettled(s)
          => scans[s].closed = Cardinality({i \in IssuesOf(prev) : /\ issueRows[i].status \in OpenStatuses
                                                                   /\ issueRows[i].key \notin KeysOf(s)})
CountsSound == \A s \in ScanIds, p \in ScanIds \cup {NoScanId} : p = scans[s].previous => Counted(s, p)

\* A set that is numbered once by another is as large.
LEMMA SameSize ==
  ASSUME NEW S, IsFiniteSet(S), NEW T, NEW f \in [S -> T],
         \A x, y \in S : f[x] = f[y] => x = y, \A t \in T : \E x \in S : f[x] = t
  PROVE  Cardinality(T) = Cardinality(S)
<1>1. f \in Bijection(S, T)
  BY DEF Bijection, Injection, Surjection, IsInjective
<1>2. ExistsBijection(S, T)
  BY <1>1 DEF ExistsBijection
<1>3. QED
  BY <1>2, FS_Bijection

LEMMA WholeScanIsQueried ==
  ASSUME TriageShape, NEW p, Cardinality(IssuesOf(p)) <= QueryCap
  PROVE  QueryScan(p) = IssuesOf(p)
<1>1. IsFiniteSet(IssuesOf(p)) /\ Cardinality(IssuesOf(p)) \in Nat
  BY IssueSetsFinite DEF IssuesOf
<1>2. ASSUME NEW i \in IssuesOf(p)
      PROVE  Cardinality({j \in IssuesOf(p) : j > i}) < QueryCap
  <2> DEFINE T == {j \in IssuesOf(p) : j > i}
  <2>1. i \in Nat
    BY IdIntervals DEF IssuesOf
  <2>2. T \in SUBSET IssuesOf(p) /\ i \notin T
    BY <2>1
  <2> HIDE DEF T
  <2>3. IsFiniteSet(T) /\ Cardinality(T) <= Cardinality(IssuesOf(p)) /\ (Cardinality(IssuesOf(p)) = Cardinality(T) => IssuesOf(p) = T)
    BY <1>1, <2>2, FS_Subset
  <2>4. Cardinality(T) \in Nat
    BY <2>3, FS_CardinalityType
  <2>5. Cardinality(T) # Cardinality(IssuesOf(p))
    BY <1>2, <2>2, <2>3
  <2>6. Cardinality(T) < QueryCap
    BY <1>1, <2>3, <2>4, <2>5, TriageAssumption
  <2>7. QED
    BY <2>6 DEF T
<1>3. QED
  BY <1>2 DEF QueryScan

\* The issues a report adds are those of the scan it adds.
LEMMA ScanOfReport ==
  ASSUME TriageTables, NEW legacy \in BOOLEAN, NEW default, StoreReport(legacy, default), NEW s, s = Len(scans) + 1
  PROVE  LET n == Len(issueRows)
             m == Len(Head(arriving).issues)
         IN  /\ IssuesOf(s)' = {n + k : k \in 1..m}
             /\ n \in Nat /\ m \in Nat
             /\ \A k \in 1..m : issueRows'[n + k] = RowStored(k, legacy, default)
<1> DEFINE n == Len(issueRows)
           m == Len(Head(arriving).issues)
<1>1. TriageShape /\ TriageLinks /\ n \in Nat /\ IssueIds = 1..n /\ s \notin ScanIds
  BY ScanStored, IdIntervals DEF TriageTables
<1>2. /\ m \in Nat
      /\ \A i \in IssueIds : i \in IssueIds' /\ issueRows'[i] = issueRows[i]
      /\ \A k \in 1..m : n + k \in IssueIds' /\ issueRows'[n + k] = RowStored(k, legacy, default)
      /\ \A i \in IssueIds' \ IssueIds : i - n \in 1..m /\ issueRows'[i] = RowStored(i - n, legacy, default)
      /\ IssueIds' = 1..(n + m)
  BY <1>1, IssuesStored
<1> HIDE DEF n, m
<1>3. \A k \in 1..m : n + k \in IssueIds' /\ issueRows'[n + k].scan = s
  <2>1. \A k : RowStored(k, legacy, default).scan = s
    BY RowFields
  <2>2. QED
    BY <1>2, <2>1
<1>4. ASSUME NEW i \in IssueIds', issueRows'[i].scan = s
      PROVE  i - n \in 1..m /\ i = n + (i - n)
  <2>1. i \notin IssueIds
    BY <1>1, <1>2, <1>4 DEF TriageLinks
  <2>2. i \in Int /\ i - n \in 1..m
    BY <1>2, <2>1
  <2>3. QED
    BY <1>1, <2>2
<1>5. IssuesOf(s)' = {n + k : k \in 1..m}
  BY <1>3, <1>4 DEF IssuesOf
<1>6. QED
  BY <1>1, <1>2, <1>5 DEF n, m

LEMMA SmallStep ==
  ASSUME TriageTables, ScansAreSmall, [TriageNext]_triageVars
  PROVE  ScansAreSmall'
<1>1. RowsMove /\ TriageShape
  BY TriageStep DEF TablesMove, TriageTables
<1>2. \A s \in ScanIds : (Cardinality(IssuesOf(s)) <= QueryCap)'
  <2> SUFFICES ASSUME NEW s \in ScanIds PROVE Cardinality(IssuesOf(s)') <= QueryCap
    OBVIOUS
  <2>1. IssuesOf(s)' = IssuesOf(s)
    BY <1>1, SameIssues
  <2>2. QED
    BY <2>1 DEF ScansAreSmall
<1>3. CASE UNCHANGED <<arriving, scans, IssueIds>>
  BY <1>2, <1>3 DEF ScansAreSmall, ScanIds
<1>4. ASSUME NEW legacy \in BOOLEAN, NEW b, StoreReport(legacy, b)
      PROVE  ScansAreSmall'
  <2> DEFINE n == Len(issueRows)
             m == Len(Head(arriving).issues)
  <2>0. PICK s : s = Len(scans) + 1
    OBVIOUS
  <2>1. ScanIds' = ScanIds \cup {s} /\ arriving' = Tail(arriving) /\ arriving # <<>> /\ arriving \in Seq(Reports)
    BY <1>1, <1>4, <2>0, ScanStored DEF TriageShape
  <2>2. m <= QueryCap /\ \A k \in DOMAIN arriving' : Len(arriving'[k].issues) <= QueryCap
    BY <2>1 DEF ScansAreSmall
  <2>3. IssuesOf(s)' = {n + k : k \in 1..m} /\ n \in Nat /\ m \in Nat
    BY <1>4, <2>0, ScanOfReport
  <2> HIDE DEF n, m
  <2>4. Cardinality({n + k : k \in 1..m}) = m
    <3> DEFINE f == [k \in 1..m |-> n + k]
               T == {n + k : k \in 1..m}
    <3>1. IsFiniteSet(1..m) /\ Cardinality(1..m) = m
      BY <2>3, CountFinite
    <3>2. f \in [1..m -> T] /\ (\A x, y \in 1..m : f[x] = f[y] => x = y) /\ \A t \in T : \E x \in 1..m : f[x] = t
      BY <2>3
    <3> HIDE DEF f, T
    <3>3. Cardinality(T) = Cardinality(1..m)
      BY <3>1, <3>2, SameSize
    <3>4. QED
      BY <3>1, <3>3 DEF T
  <2>5. (Cardinality(IssuesOf(s)) <= QueryCap)'
    BY <2>2, <2>3, <2>4
  <2>6. QED
    BY <1>2, <2>1, <2>2, <2>5 DEF ScansAreSmall
<1>5. QED
  BY <1>3, <1>4, StoreOrNot

LEMMA SmallAtFirst == SmallReports /\ TriageInit => ScansAreSmall
BY DEF SmallReports, TriageInit, ScansAreSmall, ScanIds

\* The issues of a report that are new, counted on the report and on the rows it becomes.
LEMMA NewCounted ==
  ASSUME TriageTables, ScansAreSmall, NEW legacy \in BOOLEAN, NEW default, StoreReport(legacy, default),
         NEW s, s = Len(scans) + 1, NEW p, p = Comparand(default), RowsMove
  PROVE  scans'[s].new = Cardinality({i \in IssuesOf(s)' : p = NoScanId \/ issueRows'[i].key \notin KeysOf(p)'})
<1> DEFINE n == Len(issueRows)
           m == Len(Head(arriving).issues)
           A == {k \in 1..m : RowStored(k, legacy, default).ingested = "new"}
           B == {i \in IssuesOf(s)' : p = NoScanId \/ issueRows'[i].key \notin KeysOf(p)'}
           f == [k \in A |-> n + k]
<1>0. TriageShape
  BY DEF TriageTables
<1>1. /\ IssuesOf(s)' = {n + k : k \in 1..m} /\ n \in Nat /\ m \in Nat
      /\ \A k \in 1..m : issueRows'[n + k] = RowStored(k, legacy, default)
  BY ScanOfReport
<1>2. scans'[s].new = Cardinality(A)
  BY <1>0, ScanStored
<1>3. p = NoScanId \/ p \in ScanIds
  BY <1>0, LatestIsScan DEF Comparand
<1>4. p # NoScanId => KeysOf(p)' = KeysOf(p) /\ SeenOf(p) = ForTracking(IssuesOf(p))
  BY <1>0, <1>3, SameIssues, WholeScanIsQueried DEF SeenOf, ScansAreSmall
<1> HIDE DEF n, m
<1>5. ASSUME NEW k \in 1..m
      PROVE  k \in A <=> n + k \in B
  <2> DEFINE key == RowStored(k, legacy, default).key
  <2>1. RowStored(k, legacy, default).ingested = TrackKey(key, SeenOf(p))
    <3>1. RowStored(k, legacy, default).ingested = TrackKey(RowStored(k, legacy, default).key, SeenOf(Comparand(default)))
      <4> DEFINE x == Head(arriving).issues[k].key
      <4>1. RowStored(k, legacy, default).key = x
        BY RowFields
      <4>2. RowStored(k, legacy, default).ingested = TrackKey(x, SeenOf(Comparand(default)))
        BY RowFields
      <4> HIDE DEF x
      <4>3. QED
        BY <4>1, <4>2
    <3>2. QED
      BY <3>1
  <2> HIDE DEF key
  <2>2. TrackKey(key, SeenOf(p)) = "new" <=> ~(\E c \in SeenOf(p) : c.key = key)
    BY DEF TrackKey
  <2>3. (\E c \in SeenOf(p) : c.key = key) <=> p # NoScanId /\ key \in KeysOf(p)
    <3>1. CASE p = NoScanId
      BY <3>1 DEF SeenOf
    <3>2. CASE p # NoScanId
      <4>1. SeenOf(p) = {[id |-> i, key |-> issueRows[i].key, status |-> issueRows[i].status] : i \in IssuesOf(p)}
        BY <1>4, <3>2 DEF ForTracking
      <4>2. (\E c \in SeenOf(p) : c.key = key) <=> \E i \in IssuesOf(p) : issueRows[i].key = key
        <5>1. ASSUME NEW c \in SeenOf(p) PROVE \E i \in IssuesOf(p) : issueRows[i].key = c.key
          BY <4>1
        <5>2. ASSUME NEW i \in IssuesOf(p) PROVE \E c \in SeenOf(p) : c.key = issueRows[i].key
          <6> DEFINE c == [id |-> i, key |-> issueRows[i].key, status |-> issueRows[i].status]
          <6>1. c \in SeenOf(p) /\ c.key = issueRows[i].key
            BY <4>1
          <6>2. QED
            BY <6>1
        <5>3. QED
          BY <5>1, <5>2
      <4>3. QED
        BY <3>2, <4>2 DEF KeysOf
    <3>3. QED
      BY <3>1, <3>2
  <2>4. n + k \in IssuesOf(s)' /\ issueRows'[n + k].key = key
    BY <1>1 DEF key
  <2>5. k \in A <=> p = NoScanId \/ key \notin KeysOf(p)
    BY <2>1, <2>2, <2>3
  <2>6. n + k \in B <=> p = NoScanId \/ key \notin KeysOf(p)
    BY <1>4, <2>4
  <2>7. QED
    BY <2>5, <2>6
<1>6. A \subseteq 1..m /\ \A i \in B : \E k \in 1..m : i = n + k
  BY <1>1
<1> HIDE DEF A, B
<1>7. IsFiniteSet(A)
  <2>1. IsFiniteSet(1..m)
    BY <1>1, CountFinite
  <2>2. QED
    BY <1>6, <2>1, FS_Subset
<1>8. f \in [A -> B] /\ (\A x, y \in A : f[x] = f[y] => x = y) /\ \A i \in B : \E k \in A : f[k] = i
  <2>1. \A k \in A : k \in 1..m /\ k \in Int /\ n + k \in B
    BY <1>5, <1>6
  <2>2. \A i \in B : \E k \in A : i = n + k
    BY <1>5, <1>6
  <2>3. QED
    BY <1>1, <2>1, <2>2
<1> HIDE DEF f
<1>9. Cardinality(B) = Cardinality(A)
  BY <1>7, <1>8, SameSize
<1>10. QED
  BY <1>2, <1>9 DEF B

\* The issues that are gone, counted on what tracking reads and on the rows.
LEMMA ClosedCounted ==
  ASSUME TriageTables, ScansAreSmall, NEW legacy \in BOOLEAN, NEW default, StoreReport(legacy, default),
         NEW s, s = Len(scans) + 1, NEW p \in ScanIds, p = Comparand(default), RowsMove
  PROVE  scans'[s].closed = Cardinality({i \in IssuesOf(p)' : issueRows'[i].status \in OpenStatuses /\ issueRows'[i].key \notin KeysOf(s)'})
<1> DEFINE n == Len(issueRows)
           m == Len(Head(arriving).issues)
           keys == {Head(arriving).issues[k].key : k \in 1..m}
           A == {i \in IssuesOf(p) : issueRows[i].status \in OpenStatuses /\ issueRows[i].key \notin keys}
           B == {c \in ForTracking(IssuesOf(p)) : c.status \in OpenStatuses /\ c.key \notin keys}
           f == [i \in A |-> [id |-> i, key |-> issueRows[i].key, status |-> issueRows[i].status]]
<1>0. TriageShape
  BY DEF TriageTables
<1>1. /\ IssuesOf(s)' = {n + k : k \in 1..m} /\ n \in Nat /\ m \in Nat
      /\ \A k \in 1..m : issueRows'[n + k] = RowStored(k, legacy, default)
  BY ScanOfReport
<1>2. scans'[s].closed = Cardinality(ClosedBy(keys, SeenOf(p)))
  BY <1>0, ScanStored
<1>3. SeenOf(p) = ForTracking(IssuesOf(p))
  <2>1. p # NoScanId
    BY <1>0, IdIntervals DEF NoScanId
  <2>2. QED
    BY <1>0, <2>1, WholeScanIsQueried DEF SeenOf, ScansAreSmall
<1>4. ClosedBy(keys, SeenOf(p)) = B
  BY <1>3 DEF ClosedBy
<1>5. KeysOf(s)' = keys
  <2> DEFINE x(k) == Head(arriving).issues[k].key
  <2>1. \A k \in 1..m : n + k \in IssuesOf(s)' /\ issueRows'[n + k].key = x(k)
    <3>1. \A k : RowStored(k, legacy, default).key = x(k)
      BY RowFields
    <3> HIDE DEF m, n, x
    <3>2. QED
      BY <1>1, <3>1
  <2>2. \A i \in IssuesOf(s)' : \E k \in 1..m : i = n + k
    BY <1>1
  <2>3. KeysOf(s)' = {issueRows'[i].key : i \in IssuesOf(s)'}
    BY DEF KeysOf
  <2> HIDE DEF m, n, x
  <2>4. {issueRows'[i].key : i \in IssuesOf(s)'} = {x(k) : k \in 1..m}
    BY <2>1, <2>2
  <2>5. QED
    BY <2>3, <2>4 DEF x
<1>6. A = {i \in IssuesOf(p)' : issueRows'[i].status \in OpenStatuses /\ issueRows'[i].key \notin KeysOf(s)'}
  <2>1. IssuesOf(p)' = IssuesOf(p) /\ \A i \in IssuesOf(p) : issueRows'[i] = issueRows[i]
    BY <1>0, SameIssues, IssuesStored DEF IssuesOf
  <2> HIDE DEF keys
  <2>2. QED
    BY <1>5, <2>1
<1>7. Cardinality(B) = Cardinality(A)
  <2> HIDE DEF keys
  <2>1. IsFiniteSet(A)
    BY <1>0, IssueSetsFinite DEF IssuesOf
  <2>2. f \in [A -> B] /\ (\A i, j \in A : f[i] = f[j] => i = j) /\ \A c \in B : \E i \in A : f[i] = c
    BY DEF ForTracking
  <2> HIDE DEF A, B, f
  <2>3. QED
    BY <2>1, <2>2, SameSize
<1>8. QED
  BY <1>2, <1>4, <1>6, <1>7

LEMMA CountsStep ==
  ASSUME TriageTables, IngestSound, ScansAreSmall, CountsSound, [TriageNext]_triageVars
  PROVE  CountsSound'
<1>0. RowsMove /\ TriageShape /\ TriageLinks
  BY TriageStep DEF TablesMove, TriageTables
<1>1. ASSUME NEW s \in ScanIds, NEW p, p = scans[s].previous
      PROVE  Counted(s, p)'
  <2>1. p = NoScanId \/ p \in ScanIds
    BY <1>0, <1>1, IdIntervals DEF TriageLinks
  <2>2. scans'[s] = scans[s] /\ Counted(s, p) /\ IssuesOf(s)' = IssuesOf(s) /\ KeysOf(s)' = KeysOf(s)
    BY <1>0, <1>1, <2>1, SameIssues DEF CountsSound, RowsMove
  <2>3. p # NoScanId => IssuesOf(p)' = IssuesOf(p) /\ KeysOf(p)' = KeysOf(p)
    BY <1>0, <2>1, SameIssues
  <2>4. \A i \in IssuesOf(s) : issueRows'[i].key = issueRows[i].key
    BY <1>0 DEF RowsMove, IssuesOf
  <2>5. (scans[s].new = Cardinality({i \in IssuesOf(s) : p = NoScanId \/ issueRows[i].key \notin KeysOf(p)}))'
    BY <2>2, <2>3, <2>4 DEF Counted
  <2>6. ASSUME p # NoScanId, ScanSettled(s)'
        PROVE  (scans[s].closed = Cardinality({i \in IssuesOf(p) : issueRows[i].status \in OpenStatuses /\ issueRows[i].key \notin KeysOf(s)}))'
    <3>1. ScanSettled(s)
      BY <1>0, <2>6, SettledBefore
    <3>2. p \in ScanIds
      BY <2>1, <2>6
    <3>3. \A i \in IssuesOf(p) : issueRows'[i].key = issueRows[i].key /\ issueRows'[i].status = issueRows[i].status
      <4>1. \A i \in IssuesOf(p) : issueRows'[i].key = issueRows[i].key
        BY <1>0 DEF RowsMove, IssuesOf
      <4>2. ChangesOf(p)' = ChangesOf(p)
        <5>1. ChangesOf(p) = scans[s].changed
          BY <1>1, <2>6, <3>1 DEF ScanSettled
        <5>2. ChangesOf(p)' = scans'[s].changed
          BY <1>1, <2>2, <2>6 DEF ScanSettled, ChangesOf
        <5>3. QED
          BY <2>2, <5>1, <5>2
      <4>3. ChangesOf(p) \in Nat
        BY <1>0, ChangesCounted
      <4>4. \/ \A i \in IssuesOf(p) : issueRows'[i].status = issueRows[i].status
            \/ ChangesOf(p)' = ChangesOf(p) + 1
        BY <1>0, <3>2 DEF RowsMove
      <4>5. QED
        BY <4>1, <4>2, <4>3, <4>4
    <3>4. QED
      BY <2>2, <2>3, <2>6, <3>1, <3>3 DEF Counted
  <2>7. QED
    BY <2>5, <2>6 DEF Counted
<1>2. CASE UNCHANGED <<arriving, scans, IssueIds>>
  <2> SUFFICES ASSUME NEW s \in ScanIds, NEW p, p = scans[s].previous
               PROVE  Counted(s, p)'
    BY <1>2 DEF CountsSound, ScanIds
  <2>1. QED
    BY <1>1
<1>3. ASSUME NEW legacy \in BOOLEAN, NEW b, StoreReport(legacy, b), NEW s, s = Len(scans) + 1, NEW p, p = Comparand(b)
      PROVE  Counted(s, p)' /\ scans'[s].previous = p
  <2>1. scans'[s].previous = p
    BY <1>0, <1>3, ScanStored
  <2>2. p = NoScanId \/ p \in ScanIds
    BY <1>0, <1>3, LatestIsScan DEF Comparand
  <2>3. scans'[s].new = Cardinality({i \in IssuesOf(s)' : p = NoScanId \/ issueRows'[i].key \notin KeysOf(p)'})
    BY <1>0, <1>3, NewCounted
  <2>4. p # NoScanId => scans'[s].closed = Cardinality({i \in IssuesOf(p)' : /\ issueRows'[i].status \in OpenStatuses
                                                                              /\ issueRows'[i].key \notin KeysOf(s)'})
    BY <1>0, <1>3, <2>2, ClosedCounted
  <2>5. QED
    BY <2>1, <2>3, <2>4 DEF Counted
<1>4. ASSUME NEW legacy \in BOOLEAN, NEW b, StoreReport(legacy, b)
      PROVE  CountsSound'
  <2>1. PICK t : t = Len(scans) + 1
    OBVIOUS
  <2>2. ScanIds' = ScanIds \cup {t} /\ \A s \in ScanIds : scans'[s] = scans[s]
    BY <1>0, <1>4, <2>1, ScanStored
  <2> SUFFICES ASSUME NEW s \in ScanIds', NEW p, p = scans'[s].previous
               PROVE  Counted(s, p)'
    BY DEF CountsSound
  <2>3. CASE s \in ScanIds
    BY <1>1, <2>2, <2>3
  <2>4. CASE s = t
    <3>1. PICK q : q = Comparand(b)
      OBVIOUS
    <3>2. Counted(s, q)' /\ scans'[s].previous = q
      BY <1>3, <1>4, <2>1, <2>4, <3>1
    <3>3. QED
      BY <3>2
  <2>5. QED
    BY <2>2, <2>3, <2>4
<1>5. QED
  BY <1>2, <1>4, StoreOrNot

\* Every issue of a scan has one tracking state and each open issue of the scan before is found again
\* or counted as closed, whatever several issues with one key, users and backfills do, as long as no report
\* holds more issues than one query returns (service.Track, unmatchedOpenIssues).
THEOREM TrackingAddsUp == SmallReports => (TriageSpec => []TrackingAccounts)
<1> SUFFICES ASSUME SmallReports PROVE TriageSpec => []TrackingAccounts
  OBVIOUS
<1> DEFINE Inv == TriageTables /\ IngestSound /\ ScansAreSmall /\ CountsSound
<1>1. TriageInit => Inv
  <2>1. TriageInit => CountsSound
    BY DEF TriageInit, CountsSound, ScanIds
  <2>2. QED
    BY <2>1, TablesAtFirst, IngestAtFirst, SmallAtFirst
<1>2. Inv /\ [TriageNext]_triageVars => Inv'
  BY TriageStep, IngestStep, SmallStep, CountsStep DEF TablesMove
<1>3. Inv => TrackingAccounts
  <2> SUFFICES ASSUME Inv, NEW s \in ScanIds, NEW p, p = scans[s].previous
               PROVE  /\ scans[s].new = Cardinality({i \in IssuesOf(s) : p = NoScanId \/ issueRows[i].key \notin KeysOf(p)})
                      /\ p # NoScanId /\ ChangesOf(p) = scans[s].changed /\ (\A i \in IssuesOf(p) : issueRows[i].status = "open")
                            => scans[s].closed = Cardinality({i \in IssuesOf(p) : issueRows[i].key \notin KeysOf(s)})
    BY DEF TrackingAccounts, KeysOf
  <2>1. Counted(s, p)
    <3>1. p \in ScanIds \cup {NoScanId}
      BY IdIntervals DEF TriageTables, TriageLinks
    <3>2. QED
      BY <3>1 DEF CountsSound
  <2>2. ASSUME p # NoScanId, ChangesOf(p) = scans[s].changed, \A i \in IssuesOf(p) : issueRows[i].status = "open"
        PROVE  scans[s].closed = Cardinality({i \in IssuesOf(p) : issueRows[i].key \notin KeysOf(s)})
    <3>1. {i \in IssuesOf(p) : issueRows[i].status \in OpenStatuses /\ issueRows[i].key \notin KeysOf(s)}
             = {i \in IssuesOf(p) : issueRows[i].key \notin KeysOf(s)}
      BY <2>2 DEF OpenStatuses
    <3>2. ScanSettled(s)
      BY <2>2 DEF ScanSettled
    <3>3. QED
      BY <2>1, <2>2, <3>1, <3>2 DEF Counted
  <2>3. QED
    BY <2>1, <2>2 DEF Counted
<1>4. QED
  BY <1>1, <1>2, <1>3, PTL DEF TriageSpec

-----------------------------------------------------------------------------
(* Issues: backfills                                                       *)

ScopeOf(s) == [type |-> scans[s].type, name |-> scans[s].name]

\* A scan was compared with the last one before it in its scope.
Earlier(s) == {t \in ScanIds : t < s /\ Selects(ScopeOf(s), mainBranch, t)}
ChainSound ==
    \A s \in ScanIds : IF Earlier(s) = {} THEN scans[s].previous = NoScanId
                       ELSE scans[s].previous \in Earlier(s) /\ \A t \in Earlier(s) : t <= scans[s].previous

\* A backfill goes through the scans of one scope: the first of those that are left meets the issues it was
\* compared with, and so will the others, whose predecessors are left too. What is to be written is what
\* the issues were ingested as. All of this as long as nobody changes the scan before.
BackfillSound(b) ==
    /\ b.stage # "idle" => b.default = mainBranch
    /\ b.scans \subseteq ScanIds
    /\ \A s, t \in b.scans : Selects(ScopeOf(s), mainBranch, t)
    /\ \A s \in b.scans : \/ (\A t \in b.scans : s <= t) /\ (ScanSettled(s) => b.previous = ComparedWith(s))
                          \/ scans[s].previous \in b.scans
    /\ \A i \in DOMAIN b.updates : i \in IssueIds
    /\ \A i \in DOMAIN b.updates, s \in ScanIds : s = issueRows[i].scan /\ ScanSettled(s) => b.updates[i] = issueRows[i].ingested

BackfillsSound == \A a \in Backfillers : \A b : b = backfill[a] => BackfillSound(b)

StatesSound ==
    \A i \in IssueIds, s \in ScanIds :
        s = issueRows[i].scan /\ ScanSettled(s) /\ issueRows[i].tracking # "unknown" => issueRows[i].tracking = issueRows[i].ingested

ScopesSound == InOrder => ChainSound /\ BackfillsSound /\ StatesSound

LEMMA MainIsDefault ==
  ASSUME mainBranch # ""
  PROVE  DefaultBranchesNow = {mainBranch}
BY DEF DefaultBranchesNow

\* All scans of a scope have the same scans in theirs.
LEMMA ScopesAgree ==
  ASSUME mainBranch # "", NEW scope, NEW s, NEW t, Selects(scope, mainBranch, s)
  PROVE  Selects(scope, mainBranch, t) <=> Selects(ScopeOf(s), mainBranch, t)
BY DEF Selects, ScopeOf

LEMMA LaterIsNewer ==
  ASSUME TriageShape, InOrder, NEW s \in ScanIds, NEW t \in ScanIds
  PROVE  Newer(s, t) <=> t < s
<1>1. s \in Nat /\ t \in Nat /\ scans[s].date \in Nat /\ scans[t].date \in Nat
  BY IdIntervals DEF ScanRows
<1>2. (s < t => scans[s].date <= scans[t].date) /\ (t < s => scans[t].date <= scans[s].date)
  BY DEF InOrder
<1>3. QED
  BY <1>1, <1>2 DEF Newer

LEMMA OldestIsLeast ==
  ASSUME TriageShape, InOrder, NEW S \in SUBSET ScanIds, S # {}
  PROVE  Oldest(S) \in S /\ \A t \in S : Oldest(S) <= t
<1>1. Oldest(S) \in S /\ \A t \in S \ {Oldest(S)} : Newer(t, Oldest(S))
  BY OldestIsScan
<1>2. \A t \in S : t \in Nat
  BY IdIntervals
<1>3. \A t \in S : t = Oldest(S) \/ Oldest(S) < t
  BY <1>1, LaterIsNewer
<1>4. QED
  BY <1>1, <1>2, <1>3

LEMMA OrderStays ==
  ASSUME TriageTables, RowsMove, InOrder'
  PROVE  InOrder
BY DEF InOrder, RowsMove

LEMMA BackfillSoundStays ==
  ASSUME TriageTables, IngestSound, RowsMove, NEW b, BackfillSound(b)
  PROVE  BackfillSound(b)'
<1>1. mainBranch' = mainBranch /\ \A s \in ScanIds : s \in ScanIds' /\ scans'[s] = scans[s]
  BY DEF RowsMove
<1>2. \A s, t \in ScanIds : Selects(ScopeOf(s), mainBranch, t)' <=> Selects(ScopeOf(s), mainBranch, t)
  BY <1>1 DEF Selects, ScopeOf
<1>3. \A s \in ScanIds : ScanSettled(s)' => ScanSettled(s) /\ ComparedWith(s)' = ComparedWith(s)
  BY SettledBefore
<1>4. b.scans \subseteq ScanIds /\ b.scans \subseteq ScanIds'
  BY <1>1 DEF BackfillSound
<1>5. \A s, t \in b.scans : Selects(ScopeOf(s), mainBranch, t)'
  BY <1>2, <1>4 DEF BackfillSound
<1>6. ASSUME NEW s \in b.scans
      PROVE  \/ (\A t \in b.scans : s <= t) /\ (ScanSettled(s)' => b.previous = ComparedWith(s)')
             \/ scans'[s].previous \in b.scans
  BY <1>1, <1>3, <1>4 DEF BackfillSound
<1>7. ASSUME NEW i \in DOMAIN b.updates
      PROVE  i \in IssueIds' /\ \A s \in ScanIds' : s = issueRows'[i].scan /\ ScanSettled(s)' => b.updates[i] = issueRows'[i].ingested
  <2>1. i \in IssueIds
    BY DEF BackfillSound
  <2>2. i \in IssueIds' /\ issueRows'[i].scan = issueRows[i].scan /\ issueRows'[i].ingested = issueRows[i].ingested
    BY <2>1 DEF RowsMove
  <2>3. issueRows[i].scan \in ScanIds
    BY <2>1 DEF TriageTables, TriageLinks
  <2>4. \A s \in ScanIds : s = issueRows[i].scan /\ ScanSettled(s) => b.updates[i] = issueRows[i].ingested
    BY DEF BackfillSound
  <2>5. QED
    BY <1>3, <2>2, <2>3, <2>4
<1>8. b.stage # "idle" => b.default = mainBranch'
  BY <1>1 DEF BackfillSound
<1>9. QED
  BY <1>4, <1>5, <1>6, <1>7, <1>8 DEF BackfillSound

LEMMA ChainStays ==
  ASSUME TriageTables, TriageShape', ChainSound, RowsMove, NEW s \in ScanIds
  PROVE  (IF Earlier(s) = {} THEN scans[s].previous = NoScanId
          ELSE scans[s].previous \in Earlier(s) /\ \A t \in Earlier(s) : t <= scans[s].previous)'
<1>1. mainBranch' = mainBranch /\ \A t \in ScanIds : t \in ScanIds' /\ scans'[t] = scans[t]
  BY DEF RowsMove
<1>2. ScanIds = 1..Len(scans) /\ Len(scans) \in Nat
  BY IdIntervals DEF TriageTables
<1>3. ScanIds' = 1..Len(scans') /\ Len(scans') \in Nat
  BY DEF TriageShape, ScanIds
<1>4. \A t \in ScanIds' : t < s => t \in ScanIds
  BY <1>2, <1>3
<1>5. Earlier(s)' = Earlier(s)
  BY <1>1, <1>4 DEF Earlier, Selects, ScopeOf
<1>6. QED
  BY <1>1, <1>5 DEF ChainSound

\* In order, the latest scan of the scope a report names is the last one before it.
LEMMA ChainGrows ==
  ASSUME TriageTables, InOrder, NEW legacy \in BOOLEAN, NEW default, StoreReport(legacy, default), RowsMove,
         NEW s, s = Len(scans) + 1
  PROVE  (IF Earlier(s) = {} THEN scans[s].previous = NoScanId
          ELSE scans[s].previous \in Earlier(s) /\ \A t \in Earlier(s) : t <= scans[s].previous)'
<1> DEFINE r == Head(arriving)
           scope == [type |-> r.type, name |-> r.name]
           found == ScansInScope(scope, mainBranch)
           p == LatestInScope(scope, mainBranch)
<1>0. TriageShape /\ ScanIds = 1..Len(scans) /\ Len(scans) \in Nat
  BY IdIntervals DEF TriageTables
<1>1. default = mainBranch
  <2>1. default \in DefaultBranchesNow
    BY DEF StoreReport
  <2>2. DefaultBranchesNow = {mainBranch}
    BY MainIsDefault DEF InOrder
  <2>3. QED
    BY <2>1, <2>2
<1>2. /\ ScanIds' = ScanIds \cup {s} /\ \A t \in ScanIds : scans'[t] = scans[t]
      /\ scans'[s].type = r.type /\ scans'[s].name = r.name /\ scans'[s].previous = Comparand(default)
  BY <1>0, ScanStored
<1>3. scans'[s].previous = p
  BY <1>1, <1>2 DEF Comparand
<1>4. mainBranch' = mainBranch
  BY DEF RowsMove
<1>5. Earlier(s)' = found
  <2>1. \A t \in ScanIds : t < s
    BY <1>0
  <2>2. ScopeOf(s)' = scope
    BY <1>2 DEF ScopeOf
  <2>3. \A t \in ScanIds : Selects(ScopeOf(s), mainBranch, t)' <=> Selects(scope, mainBranch, t)
    BY <1>2, <1>4, <2>2 DEF Selects
  <2>4. ~(s < s)
    BY <1>0
  <2>5. QED
    BY <1>2, <2>1, <2>3, <2>4 DEF Earlier, ScansInScope
<1> HIDE DEF scope
<1>6. IF found = {} THEN p = NoScanId ELSE p \in found /\ \A t \in found : t <= p
  <2>1. IF found = {} THEN p = NoScanId ELSE p \in found /\ \A t \in found \ {p} : Newer(p, t)
    BY <1>0, LatestIsScan
  <2>2. \A t \in found : t \in ScanIds
    BY DEF ScansInScope
  <2>3. ASSUME found # {} PROVE \A t \in found : t <= p
    <3>1. p \in found /\ p \in ScanIds /\ \A t \in found \ {p} : t < p
      BY <1>0, <2>1, <2>2, <2>3, LaterIsNewer
    <3>2. QED
      BY <1>0, <2>2, <3>1
  <2>4. QED
    BY <2>1, <2>3
<1>7. QED
  BY <1>3, <1>5, <1>6

\* The fields of a backfill after each of its steps.
LEMMA BackfillReads ==
  ASSUME NEW b, BackfillFields(b), NEW default, NEW scope
  PROVE  /\ Begun(default).default = default /\ Begun(default).scans = {} /\ Begun(default).updates = <<>>
         /\ Scoped(b, scope).stage = b.stage /\ Scoped(b, scope).default = b.default /\ Scoped(b, scope).previous = {}
         /\ Scoped(b, scope).scans = ScansInScope(scope, b.default) /\ Scoped(b, scope).updates = b.updates
         /\ Written(b).default = b.default /\ Written(b).scans = b.scans /\ Written(b).previous = b.previous
         /\ Written(b).updates = <<>>
         /\ Scanned(b).default = b.default /\ Scanned(b).scans = b.scans \ {Oldest(b.scans)}
         /\ Scanned(b).previous = ForTracking(QueryScan(Oldest(b.scans)))
         /\ Scanned(b).updates = BackfillUpdates(QueryScan(Oldest(b.scans)), b.previous)
<1>1. DOMAIN b = {"stage", "default", "scopes", "scans", "previous", "updates"}
  BY DEF BackfillFields, IdleBackfill
<1>2. Begun(default).default = default /\ Begun(default).scans = {} /\ Begun(default).updates = <<>>
  BY DEF Begun, IdleBackfill
<1>3. /\ Scoped(b, scope).stage = b.stage /\ Scoped(b, scope).default = b.default /\ Scoped(b, scope).previous = {}
      /\ Scoped(b, scope).scans = ScansInScope(scope, b.default) /\ Scoped(b, scope).updates = b.updates
  BY <1>1 DEF Scoped
<1>4. /\ Written(b).default = b.default /\ Written(b).scans = b.scans /\ Written(b).previous = b.previous
      /\ Written(b).updates = <<>>
  BY <1>1 DEF Written
<1>5. /\ Scanned(b).default = b.default /\ Scanned(b).scans = b.scans \ {Oldest(b.scans)}
      /\ Scanned(b).previous = ForTracking(QueryScan(Oldest(b.scans)))
      /\ Scanned(b).updates = BackfillUpdates(QueryScan(Oldest(b.scans)), b.previous)
  BY <1>1 DEF Scanned
<1>6. QED
  BY <1>2, <1>3, <1>4, <1>5

LEMMA NothingToDoIsSound ==
  ASSUME NEW b, b.scans = {}, b.updates = <<>>, b.stage # "idle" => b.default = mainBranch
  PROVE  BackfillSound(b)
BY DEF BackfillSound

\* The scans of a scope, from the first: it was compared with nothing, the others with one of them.
LEMMA ScopeIsSound ==
  ASSUME TriageTables, InOrder, ChainSound, NEW b, BackfillFields(b), BackfillSound(b), b.stage # "idle", NEW scope
  PROVE  BackfillSound(Scoped(b, scope))
<1> DEFINE c == Scoped(b, scope)
           S == ScansInScope(scope, mainBranch)
<1>1. /\ b.default = mainBranch /\ mainBranch # "" /\ c.default = mainBranch
      /\ c.scans = S /\ c.previous = {} /\ c.updates = b.updates
  <2>1. b.default = mainBranch /\ mainBranch # ""
    BY DEF BackfillSound, InOrder
  <2>2. /\ c.default = b.default /\ c.previous = {} /\ c.scans = ScansInScope(scope, b.default) /\ c.updates = b.updates
    BY BackfillReads
  <2> HIDE DEF c
  <2>3. QED
    BY <2>1, <2>2
<1>2. S \subseteq ScanIds /\ \A s \in S : Selects(scope, mainBranch, s)
  BY DEF ScansInScope
<1>3. \A s, t \in S : Selects(ScopeOf(s), mainBranch, t)
  BY <1>1, <1>2, ScopesAgree
<1>4. ScanIds = 1..Len(scans) /\ Len(scans) \in Nat
  BY IdIntervals DEF TriageTables
<1>5. ASSUME NEW s \in S
      PROVE  \/ (\A t \in S : s <= t) /\ (ScanSettled(s) => {} = ComparedWith(s))
             \/ scans[s].previous \in S
  <2>1. Earlier(s) = {t \in S : t < s}
    BY <1>1, <1>2, ScopesAgree DEF Earlier, ScansInScope
  <2>2. CASE Earlier(s) = {}
    <3>1. scans[s].previous = NoScanId
      BY <1>2, <2>2 DEF ChainSound
    <3>2. \A t \in S : s <= t
      BY <1>2, <1>4, <2>1, <2>2
    <3>3. QED
      BY <3>1, <3>2 DEF ComparedWith, SeenOf
  <2>3. CASE Earlier(s) # {}
    BY <1>2, <2>1, <2>3 DEF ChainSound
  <2>4. QED
    BY <2>2, <2>3
<1> HIDE DEF c, S
<1>6. QED
  BY <1>1, <1>2, <1>3, <1>5 DEF BackfillSound, c

\* The first scan is gone through: it gets the states its issues were ingested with, and is what the
\* next one was compared with.
LEMMA ScanIsSound ==
  ASSUME TriageTables, InOrder, ChainSound, IngestSound, NEW b, BackfillFields(b), BackfillSound(b), b.stage # "idle", b.scans # {}
  PROVE  BackfillSound(Scanned(b))
<1> DEFINE c == Scanned(b)
           o == Oldest(b.scans)
<1>0. TriageShape /\ TriageLinks /\ ScanIds = 1..Len(scans) /\ Len(scans) \in Nat
  BY IdIntervals DEF TriageTables
<1>1. /\ b.default = mainBranch /\ c.default = mainBranch /\ c.scans = b.scans \ {o}
      /\ c.previous = ForTracking(QueryScan(o)) /\ c.updates = BackfillUpdates(QueryScan(o), b.previous)
  BY BackfillReads DEF BackfillSound
<1>2. b.scans \subseteq ScanIds /\ \A s, t \in b.scans : Selects(ScopeOf(s), mainBranch, t)
  BY DEF BackfillSound
<1>3. o \in b.scans /\ \A t \in b.scans : o <= t
  BY <1>0, <1>2, OldestIsLeast
<1>4. \A s \in b.scans : \/ (\A t \in b.scans : s <= t) /\ (ScanSettled(s) => b.previous = ComparedWith(s))
                         \/ scans[s].previous \in b.scans
  BY DEF BackfillSound
<1> HIDE DEF o, c
<1>5. \A s \in b.scans : s \in Nat /\ scans[s].previous \in Nat /\ (scans[s].previous \in b.scans => scans[s].previous < s)
  <2>1. \A s \in ScanIds : scans[s].previous = NoScanId \/ scans[s].previous \in 1..(s - 1)
    BY <1>0 DEF TriageLinks
  <2>2. QED
    BY <1>0, <1>2, <2>1 DEF NoScanId
<1>6. ScanSettled(o) => b.previous = ComparedWith(o)
  BY <1>3, <1>4, <1>5
<1>7. ASSUME NEW i \in DOMAIN c.updates
      PROVE  i \in IssueIds /\ \A s \in ScanIds : s = issueRows[i].scan /\ ScanSettled(s) => c.updates[i] = issueRows[i].ingested
  <2>1. i \in QueryScan(o) /\ c.updates[i] = TrackKey(issueRows[i].key, b.previous)
    BY <1>1 DEF BackfillUpdates
  <2>2. i \in IssueIds /\ issueRows[i].scan = o
    BY <2>1 DEF QueryScan, IssuesOf
  <2>3. ScanSettled(o) => issueRows[i].ingested = TrackKey(issueRows[i].key, ComparedWith(o))
    BY <2>2 DEF IngestSound
  <2>4. QED
    BY <1>6, <2>1, <2>2, <2>3
<1>8. ASSUME NEW s \in b.scans \ {o}
      PROVE  \/ (\A t \in b.scans \ {o} : s <= t) /\ (ScanSettled(s) => ForTracking(QueryScan(o)) = ComparedWith(s))
             \/ scans[s].previous \in b.scans \ {o}
  <2>1. o < s
    BY <1>3, <1>5
  <2>2. scans[s].previous \in b.scans
    BY <1>3, <1>4, <1>5, <2>1
  <2>3. CASE scans[s].previous = o
    <3>1. o # NoScanId
      BY <1>0, <1>2, <1>3 DEF NoScanId
    <3>2. ComparedWith(s) = ForTracking(QueryScan(o))
      BY <2>3, <3>1 DEF ComparedWith, SeenOf
    <3>3. ASSUME NEW t \in b.scans \ {o} PROVE s <= t
      <4>1. CASE t < s
        <5>1. t \in Earlier(s)
          BY <1>2, <4>1 DEF Earlier
        <5>2. t <= o
          BY <1>2, <2>3, <5>1 DEF ChainSound
        <5>3. o < t
          BY <1>3, <1>5
        <5>4. QED
          BY <1>3, <1>5, <5>2, <5>3
      <4>2. QED
        BY <1>5, <4>1
    <3>4. QED
      BY <3>2, <3>3
  <2>4. QED
    BY <2>2, <2>3
<1>9. QED
  BY <1>1, <1>2, <1>7, <1>8 DEF BackfillSound, c

LEMMA WriteIsSound ==
  ASSUME NEW b, BackfillFields(b), BackfillSound(b), b.stage # "idle"
  PROVE  BackfillSound(Written(b))
<1> DEFINE c == Written(b)
<1>1. c.default = b.default /\ c.scans = b.scans /\ c.previous = b.previous /\ c.updates = <<>> /\ b.default = mainBranch
  BY BackfillReads DEF BackfillSound
<1> HIDE DEF c
<1>2. QED
  BY <1>1 DEF BackfillSound, c

LEMMA BackfillCases ==
  ASSUME TriageTables, [TriageNext]_triageVars, NEW a \in Backfillers
  PROVE  LET b == backfill[a]
         IN  \/ backfill'[a] = b \/ backfill'[a] = IdleBackfill
             \/ \E default \in DefaultBranchesNow : backfill'[a] = Begun(default)
             \/ b.stage # "idle" /\ \E scope : backfill'[a] = Scoped(b, scope)
             \/ b.stage # "idle" /\ b.scans # {} /\ backfill'[a] = Scanned(b)
             \/ b.stage # "idle" /\ backfill'[a] = Written(b)
<1> DEFINE Goal == LET b == backfill[a]
                   IN  \/ backfill'[a] = b \/ backfill'[a] = IdleBackfill
                       \/ \E default \in DefaultBranchesNow : backfill'[a] = Begun(default)
                       \/ b.stage # "idle" /\ \E scope : backfill'[a] = Scoped(b, scope)
                       \/ b.stage # "idle" /\ b.scans # {} /\ backfill'[a] = Scanned(b)
                       \/ b.stage # "idle" /\ backfill'[a] = Written(b)
<1>0. TriageShape /\ DOMAIN backfill = Backfillers
  BY DEF TriageTables, TriageShape
<1>1. UNCHANGED backfill => Goal
  OBVIOUS
<1>2. ASSUME NEW c \in Backfillers, NEW default \in DefaultBranchesNow, BeginBackfill(c, default) PROVE Goal
  <2>1. backfill' = [backfill EXCEPT ![c] = Begun(default)]
    BY <1>0, <1>2, BackfillChanges
  <2>2. QED
    BY <1>0, <2>1
<1>3. ASSUME NEW c \in Backfillers, NEW scope, BackfillScope(c, scope) PROVE Goal
  <2>1. backfill' = [backfill EXCEPT ![c] = Scoped(backfill[c], scope)]
    BY <1>0, <1>3, BackfillChanges
  <2>2. backfill[c].stage # "idle"
    BY <1>3 DEF BackfillScope
  <2>3. QED
    BY <1>0, <2>1, <2>2
<1>4. ASSUME NEW c \in Backfillers, BackfillScan(c) PROVE Goal
  <2>1. backfill' = [backfill EXCEPT ![c] = Scanned(backfill[c])] /\ backfill[c].stage # "idle" /\ backfill[c].scans # {}
    BY <1>0, <1>4, BackfillChanges DEF BackfillScan
  <2>2. QED
    BY <1>0, <2>1
<1>5. ASSUME NEW c \in Backfillers, BackfillWrite(c) PROVE Goal
  <2>1. backfill' = [backfill EXCEPT ![c] = Written(backfill[c])] /\ backfill[c].stage # "idle"
    BY <1>0, <1>5, BackfillChanges DEF BackfillWrite
  <2>2. QED
    BY <1>0, <2>1
<1>6. ASSUME NEW c \in Backfillers, BackfillEnds(c) \/ BackfillFails(c) PROVE Goal
  <2>1. backfill' = [backfill EXCEPT ![c] = IdleBackfill]
    BY <1>0, <1>6, BackfillChanges
  <2>2. QED
    BY <1>0, <2>1
<1> HIDE DEF Goal
<1>7. ASSUME NEW r \in Readers,
             \/ \E s \in ScanIds : OpenList(r, s)
             \/ ReadPage(r)
             \/ \E b \in DefaultBranchesNow : \E scope \in ProjectScopes(b) : OpenOverview(r, scope, b)
             \/ \E fails \in BOOLEAN : OverviewFacets(r, fails)
             \/ \E conds \in Conditions : OverviewIssues(r, conds)
      PROVE  UNCHANGED backfill
  BY <1>7, ReadersOnlyRead
<1>8. \A u \in Triagers : \A i, x, logged :
          BeginTransition(u, i, x) \/ CommitTransition(u) \/ TransitionFails(u) \/ RecordChange(u, logged) => UNCHANGED backfill
  BY DEF BeginTransition, CommitTransition, TransitionFails, RecordChange
<1>9. \A legacy, b : StoreReport(legacy, b) => UNCHANGED backfill
  BY DEF StoreReport
<1>10. UNCHANGED triageVars => UNCHANGED backfill
  BY DEF triageVars
<1>11. Goal
  BY <1>1, <1>2, <1>3, <1>4, <1>5, <1>6, <1>7, <1>8, <1>9, <1>10 DEF TriageNext
<1>12. QED
  BY <1>11 DEF Goal

\* A state that was unknown is set to what a backfill has worked out.
LEMMA StateSet ==
  ASSUME TriageTables, [TriageNext]_triageVars, NEW i \in IssueIds
  PROVE  \/ issueRows'[i].tracking = issueRows[i].tracking
         \/ \E a \in Backfillers : i \in DOMAIN backfill[a].updates /\ issueRows'[i].tracking = backfill[a].updates[i]
<1> DEFINE Same == issueRows'[i].tracking = issueRows[i].tracking
<1>0. TriageShape
  BY DEF TriageTables
<1>1. ASSUME NEW legacy \in BOOLEAN, NEW b, StoreReport(legacy, b) PROVE Same
  BY <1>0, <1>1, IssuesStored
<1>2. ASSUME NEW u \in Triagers, CommitTransition(u) PROVE Same
  <2> DEFINE k == pending[u].issue
             x == pending[u].resolution
  <2>1. issueRows' = [issueRows EXCEPT ![k].status = Target(x), ![k].resolution = x]
    BY <1>2 DEF CommitTransition
  <2>2. issueRows[i] \in IssueRows /\ i \in DOMAIN issueRows
    BY <1>0, IdIntervals DEF IssueIds
  <2>3. \A row \in IssueRows : \A s, y : [[row EXCEPT !.status = s] EXCEPT !.resolution = y].tracking = row.tracking
    BY DEF IssueRows
  <2> HIDE DEF k, x
  <2>4. CASE i = k
    <3>1. issueRows'[i] = [[issueRows[i] EXCEPT !.status = Target(x)] EXCEPT !.resolution = x]
      BY <2>1, <2>2, <2>4
    <3>2. QED
      BY <2>2, <2>3, <3>1
  <2>5. CASE i # k
    BY <2>1, <2>2, <2>5
  <2>6. QED
    BY <2>4, <2>5
<1>3. \A u \in Triagers : \A j, x, logged : BeginTransition(u, j, x) \/ TransitionFails(u) \/ RecordChange(u, logged) => Same
  BY DEF BeginTransition, TransitionFails, RecordChange
<1>4. \A a \in Backfillers : \A b, scope : BeginBackfill(a, b) \/ BackfillScope(a, scope) \/ BackfillScan(a) \/ BackfillEnds(a) \/ BackfillFails(a)
         => Same
  BY DEF BeginBackfill, BackfillScope, BackfillScan, BackfillEnds, BackfillFails
<1>5. ASSUME NEW a \in Backfillers, BackfillWrite(a)
      PROVE  Same \/ (i \in DOMAIN backfill[a].updates /\ issueRows'[i].tracking = backfill[a].updates[i])
  BY <1>5, WriteMoves
<1>6. ASSUME NEW r \in Readers,
             \/ \E s \in ScanIds : OpenList(r, s)
             \/ ReadPage(r)
             \/ \E b \in DefaultBranchesNow : \E scope \in ProjectScopes(b) : OpenOverview(r, scope, b)
             \/ \E fails \in BOOLEAN : OverviewFacets(r, fails)
             \/ \E conds \in Conditions : OverviewIssues(r, conds)
      PROVE  Same
  BY <1>6, ReadersOnlyRead
<1>7. UNCHANGED triageVars => Same
  BY DEF triageVars
<1> HIDE DEF Same
<1>8. Same \/ (\E a \in Backfillers : i \in DOMAIN backfill[a].updates /\ issueRows'[i].tracking = backfill[a].updates[i])
  BY <1>1, <1>2, <1>3, <1>4, <1>5, <1>6, <1>7 DEF TriageNext
<1>9. QED
  BY <1>8 DEF Same

LEMMA BackfillsStep ==
  ASSUME TriageTables, IngestSound, InOrder, ChainSound, BackfillsSound, [TriageNext]_triageVars
  PROVE  BackfillsSound'
<1> SUFFICES ASSUME NEW a \in Backfillers, NEW c, c = backfill'[a] PROVE BackfillSound(c)'
  BY DEF BackfillsSound
<1>1. RowsMove
  BY TriageStep DEF TablesMove
<1>2. PICK b : b = backfill[a]
  OBVIOUS
<1>3. BackfillSound(b) /\ BackfillFields(b)
  BY <1>2 DEF BackfillsSound, TriageTables, TriageShape, BackfillFields
<1>4. BackfillSound(c)
  <2>1. CASE c = b
    BY <1>3, <2>1
  <2>2. CASE c = IdleBackfill
    <3>1. IdleBackfill.scans = {} /\ IdleBackfill.updates = <<>> /\ IdleBackfill.stage = "idle"
      BY DEF IdleBackfill
    <3>2. QED
      BY <2>2, <3>1, NothingToDoIsSound
  <2>3. ASSUME NEW default \in DefaultBranchesNow, c = Begun(default) PROVE BackfillSound(c)
    <3>1. default = mainBranch
      BY MainIsDefault DEF InOrder
    <3>2. Begun(default).default = default /\ Begun(default).scans = {} /\ Begun(default).updates = <<>>
      BY <1>3, BackfillReads
    <3>3. QED
      BY <2>3, <3>1, <3>2, NothingToDoIsSound
  <2>4. ASSUME NEW scope, b.stage # "idle", c = Scoped(b, scope) PROVE BackfillSound(c)
    BY <1>3, <2>4, ScopeIsSound
  <2>5. CASE b.stage # "idle" /\ b.scans # {} /\ c = Scanned(b)
    BY <1>3, <2>5, ScanIsSound
  <2>6. CASE b.stage # "idle" /\ c = Written(b)
    BY <1>3, <2>6, WriteIsSound
  <2>7. QED
    BY <1>2, <2>1, <2>2, <2>3, <2>4, <2>5, <2>6, BackfillCases
<1>5. QED
  BY <1>1, <1>4, BackfillSoundStays

LEMMA ScopesStep ==
  ASSUME TriageTables, IngestSound, ScopesSound, [TriageNext]_triageVars
  PROVE  ScopesSound'
<1> SUFFICES ASSUME InOrder' PROVE (ChainSound /\ BackfillsSound /\ StatesSound)'
  BY DEF ScopesSound
<1>1. RowsMove /\ TriageTables' /\ TriageShape /\ TriageShape' /\ TriageLinks /\ TriageLinks' /\ StatesKept
  BY TriageStep DEF TablesMove, TriageTables
<1>2. InOrder /\ ChainSound /\ BackfillsSound /\ StatesSound
  BY <1>1, OrderStays DEF ScopesSound
<1>3. BackfillsSound'
  BY <1>2, BackfillsStep
<1>4. ChainSound'
  <2>1. ASSUME NEW s \in ScanIds'
        PROVE  (IF Earlier(s) = {} THEN scans[s].previous = NoScanId
                ELSE scans[s].previous \in Earlier(s) /\ \A t \in Earlier(s) : t <= scans[s].previous)'
    <3>1. CASE s \in ScanIds
      BY <1>1, <1>2, <3>1, ChainStays
    <3>2. CASE s \notin ScanIds
      <4>1. PICK legacy \in BOOLEAN, b \in DefaultBranchesNow : StoreReport(legacy, b)
        BY <3>2, StoreOrNot DEF ScanIds
      <4>2. s = Len(scans) + 1
        BY <1>1, <3>2, <4>1, ScanStored
      <4>3. QED
        BY <1>1, <1>2, <4>1, <4>2, ChainGrows
    <3>3. QED
      BY <3>1, <3>2
  <2>2. QED
    BY <2>1 DEF ChainSound
<1>5. StatesSound'
  <2> SUFFICES ASSUME NEW i \in IssueIds', NEW s \in ScanIds', s = issueRows'[i].scan, ScanSettled(s)', issueRows'[i].tracking # "unknown"
               PROVE  issueRows'[i].tracking = issueRows'[i].ingested
    BY DEF StatesSound
  <2>1. CASE i \in IssueIds
    <3>1. s = issueRows[i].scan /\ s \in ScanIds /\ issueRows'[i].ingested = issueRows[i].ingested
      BY <1>1, <2>1 DEF RowsMove, TriageLinks
    <3>2. ScanSettled(s)
      BY <1>1, <3>1, SettledBefore
    <3>3. CASE issueRows'[i].tracking = issueRows[i].tracking
      BY <1>2, <2>1, <3>1, <3>2, <3>3 DEF StatesSound
    <3>4. ASSUME NEW a \in Backfillers, i \in DOMAIN backfill[a].updates, issueRows'[i].tracking = backfill[a].updates[i]
          PROVE  issueRows'[i].tracking = issueRows'[i].ingested
      BY <1>2, <3>1, <3>2, <3>4 DEF BackfillsSound, BackfillSound
    <3>5. QED
      BY <2>1, <3>3, <3>4, StateSet
  <2>2. CASE i \notin IssueIds
    <3>1. PICK legacy \in BOOLEAN, b \in DefaultBranchesNow : StoreReport(legacy, b)
      BY <2>2, StoreOrNot
    <3>2. PICK k : issueRows'[i] = RowStored(k, legacy, b)
      BY <1>1, <2>2, <3>1, IssuesStored
    <3>3. RowStored(k, legacy, b).tracking = IF legacy THEN "unknown" ELSE RowStored(k, legacy, b).ingested
      BY RowFields
    <3>4. QED
      BY <3>2, <3>3
  <2>3. QED
    BY <2>1, <2>2
<1>6. QED
  BY <1>3, <1>4, <1>5

LEMMA ScopesAtFirst == TriageInit => ScopesSound
<1> SUFFICES ASSUME TriageInit PROVE ScopesSound
  OBVIOUS
<1>1. ScanIds = {} /\ IssueIds = {} /\ \A a \in Backfillers : backfill[a] = IdleBackfill
  BY DEF TriageInit, ScanIds, IssueIds
<1>2. IdleBackfill.scans = {} /\ IdleBackfill.updates = <<>> /\ IdleBackfill.stage = "idle"
  BY DEF IdleBackfill
<1>3. BackfillsSound
  BY <1>1, <1>2, NothingToDoIsSound DEF BackfillsSound
<1>4. QED
  BY <1>1, <1>3 DEF ScopesSound, ChainSound, StatesSound

\* A scan that is backfilled gets the tracking states it would have been stored with, whatever other
\* backfills, users and new reports do meanwhile, unless a user changes the issues of the scan before it
\* (backfillScope, buildIssueTrackingBackfillUpdates).
THEOREM BackfillsAddUp == TriageSpec => []BackfillAgrees
<1> DEFINE Inv == TriageTables /\ IngestSound /\ ScopesSound
<1>1. TriageInit => Inv
  BY TablesAtFirst, IngestAtFirst, ScopesAtFirst
<1>2. Inv /\ [TriageNext]_triageVars => Inv'
  BY TriageStep, IngestStep, ScopesStep DEF TablesMove
<1>3. Inv => BackfillAgrees
  <2> SUFFICES ASSUME Inv, InOrder, NEW i \in IssueIds, NEW s, s = issueRows[i].scan, issueRows[i].tracking # "unknown",
                      scans[s].previous # NoScanId => ChangesOf(scans[s].previous) = scans[s].changed
               PROVE  issueRows[i].tracking = issueRows[i].ingested
    BY DEF BackfillAgrees
  <2>1. s \in ScanIds /\ ScanSettled(s) /\ StatesSound
    BY DEF TriageTables, TriageLinks, ScanSettled, ScopesSound
  <2>2. QED
    BY <2>1 DEF StatesSound
<1>4. QED
  BY <1>1, <1>2, <1>3, PTL DEF TriageSpec

\* Together: what is stored of an issue is true, its status to its history and its tracking state to the
\* scans, however users, backfills and reports overlap (service.Track, IssueRepository.Transition,
\* UpdateTrackingStates), as long as no report holds more issues than one query returns.
THEOREM LifecyclesAreTrue == SmallReports => (TriageSpec => []LifecycleIsTrue)
<1> SUFFICES ASSUME SmallReports PROVE TriageSpec => []LifecycleIsTrue
  OBVIOUS
<1>1. TriageSpec => []TrackingAccounts
  BY TrackingAddsUp
<1>2. TriageTypeOK /\ HistoryExplains /\ TrackingAccounts /\ BackfillAgrees => LifecycleIsTrue
  BY DEF LifecycleIsTrue
<1>3. QED
  BY <1>1, <1>2, HistoryIsTrue, BackfillsAddUp, PTL

-----------------------------------------------------------------------------
(* Issues: lists                                                           *)

LEMMA MinOfTwo ==
  ASSUME NEW a \in Nat, NEW b \in Nat
  PROVE  Min({a, b}) = IF a <= b THEN a ELSE b
<1> DEFINE m == IF a <= b THEN a ELSE b
<1>1. m \in {a, b} /\ \A y \in {a, b} : m <= y
  OBVIOUS
<1>2. \A x \in {a, b} : (\A y \in {a, b} : x <= y) => x = m
  OBVIOUS
<1> HIDE DEF m
<1>3. QED
  BY <1>1, <1>2 DEF Min, m

\* The first ones of a list.
LEMMA Starts ==
  ASSUME NEW X, NEW list \in Seq(X), NEW limit \in Nat
  PROVE  LET start == SubSeq(list, 1, Min({limit, Len(list)}))
         IN  start \in Seq(X) /\ Len(start) <= limit /\ \A x \in ToSet(start) : x \in ToSet(list)
<1> DEFINE m == Min({limit, Len(list)})
           start == SubSeq(list, 1, m)
<1>1. m \in Nat /\ m <= limit /\ m <= Len(list)
  BY MinOfTwo
<1> HIDE DEF m
<1>2. start \in Seq(X) /\ Len(start) = m /\ \A k \in 1..m : k \in 1..Len(list) /\ start[k] = list[k]
  BY <1>1
<1>3. \A x \in ToSet(start) : x \in ToSet(list)
  BY <1>2 DEF ToSet
<1>4. QED
  BY <1>1, <1>2, <1>3 DEF m

\* Issues, the newest first.
Descending(S) == Ordered(S, LAMBDA i, j : i > j)

LEMMA DescendingLists ==
  ASSUME NEW S, IsFiniteSet(S), S \subseteq Nat
  PROVE  LET list == Descending(S)
             n == Cardinality(S)
         IN  /\ n \in Nat /\ list \in Seq(S) /\ Len(list) = n
             /\ \A x \in S : \E k \in 1..n : list[k] = x
             /\ \A k, l \in 1..n : list[k] = list[l] => k = l
<1> DEFINE n == Cardinality(S)
           list == Descending(S)
           before == [x \in S |-> {y \in S : y > x}]
<1>1. /\ before \in [S -> SUBSET S]
      /\ \A x \in S : x \notin before[x]
      /\ \A x, y \in S : y \in before[x] => before[y] \subseteq before[x]
      /\ \A x, y \in S : x # y => y \in before[x] \/ x \in before[y]
  <2>1. before \in [S -> SUBSET S]
    OBVIOUS
  <2>2. \A x, y \in S : y \in before[x] <=> y > x
    OBVIOUS
  <2>3. \A x, y, z \in S : ~(x > x) /\ (y > x /\ z > y => z > x) /\ (x # y => y > x \/ x > y)
    OBVIOUS
  <2> HIDE DEF before
  <2>4. \A x, y \in S : y \in before[x] => before[y] \subseteq before[x]
    <3> TAKE x, y \in S
    <3> HAVE y \in before[x]
    <3>1. before[y] \subseteq S /\ before[x] \subseteq S
      BY <2>1
    <3>2. QED
      BY <2>2, <2>3, <3>1
  <2>5. QED
    BY <2>1, <2>2, <2>3, <2>4
<1>2. \A x \in S : before[x] = {y \in S : y > x}
  OBVIOUS
<1> HIDE DEF before
<1>3. list = [k \in 1..n |-> CHOOSE x \in S : Cardinality({y \in S : y > x}) = k - 1]
  BY DEF Descending, Ordered
<1>4. list = [k \in 1..n |-> list[k]] /\ \A k \in 1..n : list[k] = CHOOSE x \in S : Cardinality({y \in S : y > x}) = k - 1
  BY <1>3
<1> HIDE DEF list, n
<1>5. \A k \in 1..n : (\E x \in S : Cardinality(before[x]) = k - 1) => list[k] \in S /\ Cardinality(before[list[k]]) = k - 1
  <2> SUFFICES ASSUME NEW k \in 1..n, \E x \in S : Cardinality(before[x]) = k - 1
               PROVE  list[k] \in S /\ Cardinality(before[list[k]]) = k - 1
    OBVIOUS
  <2>1. \E x \in S : Cardinality({y \in S : y > x}) = k - 1
    BY <1>2
  <2>2. list[k] \in S /\ Cardinality({y \in S : y > list[k]}) = k - 1
    BY <1>4, <2>1
  <2>3. QED
    BY <1>2, <2>2
<1>6. /\ n \in Nat /\ list \in [1..n -> S]
      /\ \A x \in S : \E k \in 1..n : list[k] = x
      /\ \A k, l \in 1..n : k < l => list[k] \in before[list[l]]
  BY <1>1, <1>4, <1>5, OrderedList DEF n
<1>7. list \in Seq(S) /\ Len(list) = n
  BY <1>6
<1>8. \A k, l \in 1..n : list[k] = list[l] => k = l
  <2> SUFFICES ASSUME NEW k \in 1..n, NEW l \in 1..n, list[k] = list[l] PROVE k = l
    OBVIOUS
  <2>1. list[k] \in S /\ list[k] \notin before[list[k]]
    BY <1>1, <1>6
  <2>2. ~(k < l) /\ ~(l < k)
    BY <1>6, <2>1
  <2>3. QED
    BY <1>6, <2>2
<1>9. QED
  BY <1>6, <1>7, <1>8 DEF n, list

\* What is listed of some issues, and what was not yet.
ListedOf(S, listed, offset) ==
    LET list == Descending(S)
    IN  /\ offset \in Nat
        /\ listed \in Seq(S)
        /\ Len(listed) = IF offset <= Len(list) THEN offset ELSE Len(list)
        /\ \A k \in 1..Len(listed) : listed[k] = list[k]

LEMMA OnePageMore ==
  ASSUME NEW S, IsFiniteSet(S), S \subseteq Nat, NEW listed, NEW offset, ListedOf(S, listed, offset), NEW limit \in Nat
  PROVE  LET list == Descending(S)
             page == SubSeq(list, offset + 1, Min({Len(list), offset + limit}))
         IN  /\ ListedOf(S, listed \o page, offset + limit)
             /\ limit > 0 /\ page = <<>> => offset >= Len(list)
<1> DEFINE list == Descending(S)
           n == Len(list)
           last == Min({n, offset + limit})
           page == SubSeq(list, offset + 1, last)
           more == listed \o page
<1>1. list \in Seq(S) /\ n \in Nat
  BY DescendingLists
<1>2. /\ offset \in Nat /\ listed \in Seq(S) /\ Len(listed) = (IF offset <= n THEN offset ELSE n)
      /\ \A k \in 1..Len(listed) : listed[k] = list[k]
  BY DEF ListedOf
<1>3. last = IF n <= offset + limit THEN n ELSE offset + limit
  BY <1>1, <1>2, MinOfTwo
<1> HIDE DEF list, last
<1> HIDE DEF n
<1>4. /\ page \in Seq(S)
      /\ Len(page) = (IF offset + 1 <= last THEN last - offset ELSE 0)
      /\ \A k \in 1..Len(page) : page[k] = list[offset + k]
  <2>1. last \in Nat /\ last <= n /\ offset + 1 \in 1..(offset + 1)
    BY <1>1, <1>2, <1>3
  <2>2. \A k \in (offset + 1)..last : k \in 1..n /\ list[k] \in S
    BY <1>1, <1>2, <2>1 DEF n
  <2>3. QED
    BY <1>1, <1>2, <2>1, <2>2
<1> HIDE DEF page
<1>5. more \in Seq(S) /\ Len(more) = Len(listed) + Len(page)
  <2>1. \A f, g \in Seq(S) : f \o g \in Seq(S) /\ Len(f \o g) = Len(f) + Len(g)
    OBVIOUS
  <2>2. QED
    BY ONLY <1>2, <1>4, <2>1
<1>6. \A k \in 1..Len(more) : more[k] = IF k <= Len(listed) THEN listed[k] ELSE page[k - Len(listed)]
  <2>1. \A f, g \in Seq(S) : \A k \in 1..Len(f \o g) : (f \o g)[k] = IF k <= Len(f) THEN f[k] ELSE g[k - Len(f)]
    OBVIOUS
  <2>2. QED
    BY ONLY <1>2, <1>4, <2>1
<1> HIDE DEF more
<1>7. Len(more) = IF offset + limit <= n THEN offset + limit ELSE n
  BY <1>1, <1>2, <1>3, <1>4, <1>5
<1>8. ASSUME NEW k \in 1..Len(more) PROVE more[k] = list[k]
  <2>1. CASE k <= Len(listed)
    <3>1. k \in 1..Len(listed)
      BY <1>5, <2>1
    <3>2. QED
      BY <1>2, <1>6, <2>1, <3>1
  <2>2. CASE k > Len(listed)
    <3>1. k - Len(listed) \in 1..Len(page) /\ ~(k <= Len(listed))
      BY <1>2, <1>4, <1>5, <2>2
    <3>2. Len(page) > 0 /\ Len(listed) = offset
      BY <1>1, <1>2, <1>3, <1>4, <3>1
    <3>3. more[k] = list[offset + (k - Len(listed))]
      BY <1>4, <1>6, <3>1
    <3>4. offset + (k - Len(listed)) = k
      BY <1>2, <1>5, <3>2
    <3>5. QED
      BY <3>3, <3>4
  <2>3. QED
    BY <1>2, <2>1, <2>2
<1>9. limit > 0 /\ page = <<>> => offset >= n
  BY <1>1, <1>2, <1>3, <1>4
<1>10. offset + limit \in Nat
  BY <1>2
<1>11. QED
  BY <1>5, <1>7, <1>8, <1>9, <1>10 DEF ListedOf, list, n, page, last, more

-----------------------------------------------------------------------------
(* Issues: what readers see                                                *)

\* Paths and types are those of the reports.
RowsReported == \A i \in IssueIds : issueRows[i].type \in IssueTypes /\ issueRows[i].file # <<>>

DetailsStay ==
    \A i \in IssueIds : i \in IssueIds' /\ issueRows'[i].type = issueRows[i].type /\ issueRows'[i].file = issueRows[i].file

LEMMA DetailsStep ==
  ASSUME TriageTables, [TriageNext]_triageVars
  PROVE  DetailsStay
<1>0. TriageShape /\ \A i \in IssueIds : issueRows[i] \in IssueRows
  BY IdIntervals DEF TriageTables
<1>1. ASSUME NEW legacy \in BOOLEAN, NEW b, StoreReport(legacy, b) PROVE DetailsStay
  BY <1>0, <1>1, IssuesStored DEF DetailsStay
<1>2. \A row \in IssueRows : \A s, x : LET c == [[row EXCEPT !.status = s] EXCEPT !.resolution = x]
                                       IN  c.type = row.type /\ c.file = row.file
  BY DEF IssueRows
<1>3. \A row \in IssueRows : \A t : LET c == [row EXCEPT !.tracking = t] IN c.type = row.type /\ c.file = row.file
  BY DEF IssueRows
<1>4. ASSUME NEW u \in Triagers, CommitTransition(u) PROVE DetailsStay
  <2> DEFINE k == pending[u].issue
             x == pending[u].resolution
             row == [[issueRows[k] EXCEPT !.status = Target(x)] EXCEPT !.resolution = x]
  <2>1. pending[u].stage = "read"
    BY <1>4 DEF CommitTransition
  <2>2. k \in IssueIds
    BY <2>1 DEF TriageTables, TriageLinks
  <2>3. issueRows' = [issueRows EXCEPT ![k].status = Target(x), ![k].resolution = x]
    BY <1>4 DEF CommitTransition
  <2>4. issueRows' = [issueRows EXCEPT ![k] = row]
    BY <1>0, <2>2, <2>3 DEF TriageShape, IssueIds
  <2>5. row.type = issueRows[k].type /\ row.file = issueRows[k].file
    BY <1>0, <1>2, <2>2
  <2> HIDE DEF k, row
  <2>6. QED
    BY <2>2, <2>4, <2>5 DEF DetailsStay, IssueIds
<1>5. ASSUME NEW a \in Backfillers, BackfillWrite(a) PROVE DetailsStay
  <2>1. issueRows' = [i \in IssueIds |-> IF i \in DOMAIN backfill[a].updates /\ StillUnknown(i)
                                         THEN [issueRows[i] EXCEPT !.tracking = backfill[a].updates[i]] ELSE issueRows[i]]
    BY <1>5 DEF BackfillWrite
  <2>2. QED
    BY <1>0, <1>3, <2>1 DEF DetailsStay, IssueIds
<1>6. CASE issueRows' = issueRows
  BY <1>6 DEF DetailsStay, IssueIds
<1>7. \A u \in Triagers : \A i, x : BeginTransition(u, i, x) => issueRows' = issueRows
  BY DEF BeginTransition
<1>8. \A u \in Triagers : \A logged : TransitionFails(u) \/ RecordChange(u, logged) => issueRows' = issueRows
  BY DEF TransitionFails, RecordChange
<1>9. \A a \in Backfillers : \A b, scope : BeginBackfill(a, b) \/ BackfillScope(a, scope) \/ BackfillScan(a) \/ BackfillEnds(a) \/ BackfillFails(a)
         => issueRows' = issueRows
  BY DEF BeginBackfill, BackfillScope, BackfillScan, BackfillEnds, BackfillFails
<1>10. ASSUME NEW r \in Readers,
              \/ \E s \in ScanIds : OpenList(r, s)
              \/ ReadPage(r)
              \/ \E b \in DefaultBranchesNow : \E scope \in ProjectScopes(b) : OpenOverview(r, scope, b)
              \/ \E fails \in BOOLEAN : OverviewFacets(r, fails)
              \/ \E conds \in Conditions : OverviewIssues(r, conds)
       PROVE  issueRows' = issueRows
  BY <1>10, ReadersOnlyRead
<1>11. CASE UNCHANGED triageVars
  BY <1>6, <1>11 DEF triageVars
<1>12. QED
  BY <1>1, <1>4, <1>5, <1>6, <1>7, <1>8, <1>9, <1>10, <1>11 DEF TriageNext

\* The issues a report adds are like those it holds.
LEMMA RowDetails ==
  ASSUME NEW k, NEW legacy, NEW default
  PROVE  LET row == RowStored(k, legacy, default)
             x == Head(arriving).issues[k]
         IN  row.type = x.type /\ row.file = x.file
<1> DEFINE x == Head(arriving).issues[k]
           state == TrackKey(x.key, SeenOf(Comparand(default)))
           s == Len(scans) + 1
<1>1. RowStored(k, legacy, default) = NewRow(x, s, state, legacy)
  BY DEF RowStored
<1> HIDE DEF x, state, s
<1>2. NewRow(x, s, state, legacy).type = x.type /\ NewRow(x, s, state, legacy).file = x.file
  BY DEF NewRow
<1>3. QED
  BY <1>1, <1>2 DEF x

LEMMA ReportedStep ==
  ASSUME TriageTables, RowsReported, [TriageNext]_triageVars
  PROVE  RowsReported'
<1>1. DetailsStay
  BY DetailsStep
<1>2. ASSUME NEW i \in IssueIds' \ IssueIds PROVE issueRows'[i].type \in IssueTypes /\ issueRows'[i].file # <<>>
  <2>1. PICK legacy \in BOOLEAN, b \in DefaultBranchesNow : StoreReport(legacy, b)
    BY <1>2, StoreOrNot
  <2>2. PICK k \in 1..Len(Head(arriving).issues) : issueRows'[i] = RowStored(k, legacy, b)
    BY <1>2, <2>1, IssuesStored DEF TriageTables
  <2>3. Head(arriving).issues[k] \in Findings
    BY <2>1, <2>2, IssuesStored DEF TriageTables
  <2>4. Head(arriving).issues[k].type \in IssueTypes /\ Head(arriving).issues[k].file # <<>>
    BY <2>3 DEF Findings
  <2>5. QED
    BY <2>2, <2>4, RowDetails
<1>3. QED
  BY <1>1, <1>2 DEF RowsReported, DetailsStay

\* Only who reads changes what is read.
LEMMA ReaderOrNot ==
  ASSUME [TriageNext]_triageVars
  PROVE  \/ UNCHANGED reader
         \/ \E r \in Readers :
               \/ \E s \in ScanIds : OpenList(r, s)
               \/ ReadPage(r)
               \/ \E b \in DefaultBranchesNow : \E scope \in ProjectScopes(b) : OpenOverview(r, scope, b)
               \/ \E fails \in BOOLEAN : OverviewFacets(r, fails)
               \/ \E conds \in Conditions : OverviewIssues(r, conds)
<1>1. \A legacy, b : StoreReport(legacy, b) => UNCHANGED reader
  BY DEF StoreReport
<1>2. \A u, i, x, logged : BeginTransition(u, i, x) \/ CommitTransition(u) \/ TransitionFails(u) \/ RecordChange(u, logged) => UNCHANGED reader
  BY DEF BeginTransition, CommitTransition, TransitionFails, RecordChange
<1>3. \A a, b, scope : \/ BeginBackfill(a, b) \/ BackfillScope(a, scope) \/ BackfillScan(a)
                       \/ BackfillWrite(a) \/ BackfillEnds(a) \/ BackfillFails(a)
                       => UNCHANGED reader
  BY DEF BeginBackfill, BackfillScope, BackfillScan, BackfillWrite, BackfillEnds, BackfillFails
<1>4. CASE UNCHANGED triageVars
  BY <1>4 DEF triageVars
<1>5. QED
  BY <1>1, <1>2, <1>3, <1>4 DEF TriageNext

\* How many issues of a scan each of its files has.
CountsByFile(s) == [f \in {issueRows[i].file : i \in IssuesOf(s)} |-> IssuesIn(s, f)]

\* What a reader has been told is of one scan: a list of its first issues, all of them when it has ended,
\* the issues each file has, and issues to fix whose files are shown.
ToldOfOneScan(x) ==
    /\ x.stage # "idle" => x.scan \in ScanIds
    /\ x.stage \in {"list", "listed"} => ListedOf(IssuesOf(x.scan), x.listed, x.offset)
    /\ x.stage \notin {"list", "listed"} => x.listed = <<>>
    /\ x.stage = "listed" => x.offset >= Len(Descending(IssuesOf(x.scan)))
    /\ x.stage = "idle" => x.files = <<>>
    /\ x.stage # "shown" => x.shown.fix = <<>>
    /\ x.files # <<>> => x.files = CountsByFile(x.scan)
    /\ \A i \in ToSet(x.shown.fix) :
          /\ i \in IssuesOf(x.scan)
          /\ \/ issueRows[i].file \in x.shown.impacted
             \/ /\ Cardinality(x.shown.impacted) = PageLimit
                /\ x.files # <<>> => \A f \in x.shown.impacted : IssuesIn(x.scan, f) >= IssuesIn(x.scan, issueRows[i].file)

ReaderFields(x) == DOMAIN x = {"stage", "scan", "offset", "listed", "files", "shown"}

ReadersSound ==
    /\ DOMAIN reader = Readers
    /\ reader = [r \in Readers |-> reader[r]]
    /\ \A r \in Readers : ReaderFields(reader[r]) /\ ToldOfOneScan(reader[r])

\* What was told of a scan stays true of it.
LEMMA ToldStays ==
  ASSUME TriageTables, RowsMove, DetailsStay, NEW x, ToldOfOneScan(x)
  PROVE  ToldOfOneScan(x)'
<1>1. CASE x.stage = "idle"
  <2>1. x.listed = <<>> /\ x.files = <<>> /\ ToSet(x.shown.fix) = {}
    BY <1>1 DEF ToldOfOneScan, ToSet
  <2>2. QED
    BY <1>1, <2>1 DEF ToldOfOneScan
<1>2. CASE x.stage # "idle"
  <2> DEFINE s == x.scan
  <2>1. s \in ScanIds /\ s \in ScanIds'
    BY <1>2 DEF ToldOfOneScan, RowsMove
  <2> HIDE DEF s
  <2>2. IssuesOf(s)' = IssuesOf(s)
    BY <2>1, SameIssues
  <2>3. \A i \in IssuesOf(s) : issueRows'[i].file = issueRows[i].file
    BY DEF DetailsStay, IssuesOf
  <2>4. \A f : IssuesIn(s, f)' = IssuesIn(s, f)
    <3> TAKE f
    <3>1. {i \in IssuesOf(s)' : issueRows'[i].file = f} = {i \in IssuesOf(s) : issueRows[i].file = f}
      BY <2>2, <2>3
    <3>2. QED
      BY <3>1 DEF IssuesIn
  <2>5. CountsByFile(s)' = CountsByFile(s)
    <3>1. {issueRows'[i].file : i \in IssuesOf(s)'} = {issueRows[i].file : i \in IssuesOf(s)}
      BY <2>2, <2>3
    <3>2. QED
      BY <3>1, <2>4 DEF CountsByFile
  <2>6. QED
    BY <2>1, <2>2, <2>3, <2>4, <2>5 DEF ToldOfOneScan, s
<1>3. QED
  BY <1>1, <1>2

\* A reader reads pages no longer than the rows a query returns at most.
PagesAreServed == PageLimit \in 1..QueryCap

LEMMA IssuesAreNumbers ==
  ASSUME TriageShape, NEW s
  PROVE  IsFiniteSet(IssuesOf(s)) /\ IssuesOf(s) \subseteq Nat /\ Cardinality(IssuesOf(s)) \in Nat
<1>1. IssueIds \subseteq Nat
  BY IdIntervals
<1>2. QED
  BY <1>1, IssueSetsFinite DEF IssuesOf

LEMMA MatchingScan == \A s : Matching([scan |-> s]) = IssuesOf(s)
<1> TAKE s
<1> DEFINE filter == [scan |-> s]
<1>1. DOMAIN filter = {"scan"} /\ filter["scan"] = s
  OBVIOUS
<1> HIDE DEF filter
<1>2. \A row : Matches(row, filter) <=> row.scan = s
  BY <1>1 DEF Matches
<1>3. QED
  BY <1>2 DEF Matching, IssuesOf, filter

LEMMA PageOfScan ==
  ASSUME PagesAreServed, NEW s, NEW offset
  PROVE  LET list == Descending(IssuesOf(s))
         IN  Page([scan |-> s], PageLimit, offset) = SubSeq(list, offset + 1, Min({Len(list), offset + PageLimit}))
<1>1. Min({PageLimit, QueryCap}) = PageLimit
  BY MinOfTwo, TriageAssumption DEF PagesAreServed
<1>2. QED
  BY <1>1, MatchingScan DEF Page, Descending

LEMMA FileFacet == \A s : Facets([scan |-> s], "file") = CountsByFile(s)
<1> TAKE s
<1>1. \A row : FacetValues(row, "file") = {row.file}
  BY DEF FacetValues
<1>2. Matching([scan |-> s]) = IssuesOf(s)
  BY MatchingScan
<1>3. UNION {FacetValues(issueRows[i], "file") : i \in IssuesOf(s)} = {issueRows[i].file : i \in IssuesOf(s)}
  BY <1>1
<1>4. \A f : {i \in IssuesOf(s) : f \in FacetValues(issueRows[i], "file")} = {i \in IssuesOf(s) : issueRows[i].file = f}
  BY <1>1
<1>5. QED
  BY <1>2, <1>3, <1>4 DEF Facets, CountsByFile, IssuesIn

\* One reader reads on: what it has then is as it should be.
LEMMA ReadersSoundStep ==
  ASSUME TriageTables, ReadersSound, RowsMove, DetailsStay, NEW r \in Readers, NEW x,
         ReaderFields(x), ToldOfOneScan(x)', reader' = [reader EXCEPT ![r] = x]
  PROVE  ReadersSound'
<1>1. /\ DOMAIN reader' = Readers /\ reader' = [q \in Readers |-> reader'[q]]
      /\ \A q \in Readers : reader'[q] = IF q = r THEN x ELSE reader[q]
  BY DEF ReadersSound
<1>2. \A q \in Readers : ReaderFields(reader[q]) /\ ToldOfOneScan(reader[q])
  BY DEF ReadersSound
<1>3. ASSUME NEW q \in Readers PROVE ReaderFields(reader'[q]) /\ ToldOfOneScan(reader[q])'
  <2>1. CASE q = r
    BY <1>1, <2>1 DEF ToldOfOneScan, ReaderFields
  <2>2. CASE q # r
    <3>1. PICK y : y = reader[q]
      OBVIOUS
    <3>2. ToldOfOneScan(y)'
      BY <1>2, <3>1, ToldStays
    <3>3. reader'[q] = y
      BY <1>1, <2>2, <3>1
    <3>4. QED
      BY <1>2, <3>1, <3>2, <3>3 DEF ToldOfOneScan
  <2>3. QED
    BY <2>1, <2>2
<1>4. QED
  BY <1>1, <1>3 DEF ReadersSound, ReaderFields

LEMMA ReaderBegins ==
  ASSUME NEW stage, NEW s
  PROVE  LET x == [IdleReader EXCEPT !.stage = stage, !.scan = s]
         IN  /\ ReaderFields(x) /\ x.stage = stage /\ x.scan = s /\ x.offset = 0 /\ x.listed = <<>> /\ x.files = <<>>
             /\ x.shown = NothingShown
<1> DEFINE first == [IdleReader EXCEPT !.stage = stage]
           x == [first EXCEPT !.scan = s]
<1> HIDE DEF NothingShown
<1>1. /\ ReaderFields(first) /\ first.stage = stage /\ first.offset = 0 /\ first.listed = <<>> /\ first.files = <<>>
      /\ first.shown = NothingShown
  BY DEF IdleReader, ReaderFields
<1> HIDE DEF first
<1>2. /\ ReaderFields(x) /\ x.stage = stage /\ x.scan = s /\ x.offset = 0 /\ x.listed = <<>> /\ x.files = <<>>
      /\ x.shown = NothingShown
  BY <1>1 DEF ReaderFields
<1>3. x = [IdleReader EXCEPT !.stage = stage, !.scan = s]
  BY DEF first
<1>4. QED
  BY <1>2, <1>3

LEMMA ListOpened ==
  ASSUME TriageTables, ReadersSound, RowsMove, DetailsStay, NEW r \in Readers, NEW s \in ScanIds, OpenList(r, s)
  PROVE  ReadersSound'
<1> DEFINE x == [IdleReader EXCEPT !.stage = "list", !.scan = s]
<1>1. reader' = [reader EXCEPT ![r] = x]
  BY DEF OpenList
<1>2. NothingShown.fix = <<>> /\ ToSet(<<>>) = {}
  BY DEF NothingShown, ToSet
<1>3. ListedOf(IssuesOf(s), <<>>, 0)
  <2>1. Len(Descending(IssuesOf(s))) \in Nat
    BY IssuesAreNumbers, DescendingLists DEF TriageTables
  <2>2. QED
    BY <2>1 DEF ListedOf
<1>4. /\ ReaderFields(x) /\ x.stage = "list" /\ x.scan = s /\ x.offset = 0 /\ x.listed = <<>> /\ x.files = <<>>
      /\ x.shown = NothingShown
  BY ReaderBegins
<1> HIDE DEF x
<1>5. ToldOfOneScan(x)
  BY <1>2, <1>3, <1>4 DEF ToldOfOneScan
<1>6. PICK y : y = x
  OBVIOUS
<1>7. ToldOfOneScan(y)'
  BY <1>5, <1>6, ToldStays
<1>8. QED
  BY <1>1, <1>4, <1>6, <1>7, ReadersSoundStep

LEMMA OverviewOpened ==
  ASSUME TriageTables, ReadersSound, RowsMove, DetailsStay, NEW r \in Readers, NEW scope, NEW b, OpenOverview(r, scope, b)
  PROVE  ReadersSound'
<1> DEFINE s == LatestInScope(scope, b)
           x == [IdleReader EXCEPT !.stage = "overview", !.scan = s]
<1>1. reader' = [reader EXCEPT ![r] = x]
  BY DEF OpenOverview
<1>2. s \in ScanIds
  BY LatestIsScan DEF OpenOverview, TriageTables
<1> HIDE DEF s
<1>3. NothingShown.fix = <<>> /\ ToSet(<<>>) = {}
  BY DEF NothingShown, ToSet
<1>4. /\ ReaderFields(x) /\ x.stage = "overview" /\ x.scan = s /\ x.offset = 0 /\ x.listed = <<>> /\ x.files = <<>>
      /\ x.shown = NothingShown
  BY ReaderBegins
<1> HIDE DEF x
<1>5. ToldOfOneScan(x)
  BY <1>2, <1>3, <1>4 DEF ToldOfOneScan
<1>6. PICK y : y = x
  OBVIOUS
<1>7. ToldOfOneScan(y)'
  BY <1>5, <1>6, ToldStays
<1>8. QED
  BY <1>1, <1>4, <1>6, <1>7, ReadersSoundStep

LEMMA PageRead ==
  ASSUME TriageTables, ReadersSound, RowsMove, DetailsStay, PagesAreServed, NEW r \in Readers, ReadPage(r)
  PROVE  ReadersSound'
<1> DEFINE s == reader[r].scan
           offset == reader[r].offset
           S == IssuesOf(s)
           page == Page([scan |-> s], PageLimit, offset)
           listed == reader[r].listed \o page
           next == offset + PageLimit
           stage == IF page = <<>> THEN "listed" ELSE "list"
           x == [[[reader[r] EXCEPT !.listed = listed] EXCEPT !.offset = next] EXCEPT !.stage = stage]
<1>1. ToldOfOneScan(reader[r]) /\ ReaderFields(reader[r]) /\ reader[r].stage = "list" /\ r \in DOMAIN reader
  BY DEF ReadersSound, ReadPage
<1>2. ListedOf(S, reader[r].listed, offset) /\ s \in ScanIds
  BY <1>1 DEF ToldOfOneScan
<1>3. reader' = [reader EXCEPT ![r].listed = @ \o page, ![r].offset = @ + PageLimit, ![r].stage = stage]
  BY DEF ReadPage
<1>4. reader' = [reader EXCEPT ![r] = x]
  <2> HIDE DEF page, stage
  <2>1. QED
    BY <1>1, <1>3
<1>5. ListedOf(S, listed, next) /\ (page = <<>> => offset >= Len(Descending(S)))
  <2>1. IsFiniteSet(S) /\ S \subseteq Nat /\ PageLimit \in Nat /\ PageLimit > 0
    BY IssuesAreNumbers, TriageAssumption DEF PagesAreServed, TriageTables
  <2>2. page = SubSeq(Descending(S), offset + 1, Min({Len(Descending(S)), offset + PageLimit}))
    BY PageOfScan
  <2> HIDE DEF S, page, offset
  <2>3. QED
    BY <1>2, <2>1, <2>2, OnePageMore
<1>6. page = <<>> => next >= Len(Descending(S))
  <2>1. offset \in Nat /\ PageLimit \in Nat /\ Len(Descending(S)) \in Nat
    BY <1>2, IssuesAreNumbers, DescendingLists, TriageAssumption DEF ListedOf, PagesAreServed, TriageTables
  <2> HIDE DEF S, page, offset
  <2>2. QED
    BY <1>5, <2>1
<1>7. stage \in {"list", "listed"} /\ (stage = "listed" => page = <<>>)
  OBVIOUS
<1> HIDE DEF page, listed, next, stage
<1>8. /\ ReaderFields(x) /\ x.stage = stage /\ x.scan = s /\ x.offset = next /\ x.listed = listed
      /\ x.files = reader[r].files /\ x.shown = reader[r].shown
  BY <1>1 DEF ReaderFields
<1> HIDE DEF x
<1>9. ToldOfOneScan(x)
  BY <1>1, <1>2, <1>5, <1>6, <1>7, <1>8 DEF ToldOfOneScan
<1>10. PICK y : y = x
  OBVIOUS
<1>11. ToldOfOneScan(y)'
  BY <1>9, <1>10, ToldStays
<1>12. QED
  BY <1>4, <1>8, <1>10, <1>11, ReadersSoundStep

LEMMA FacetsRead ==
  ASSUME TriageTables, ReadersSound, RowsMove, DetailsStay, NEW r \in Readers, NEW fails, OverviewFacets(r, fails)
  PROVE  ReadersSound'
<1> DEFINE s == reader[r].scan
           counts == IF fails THEN <<>> ELSE Facets([scan |-> s], "file")
           x == [[reader[r] EXCEPT !.stage = "facets"] EXCEPT !.files = counts]
<1>1. ToldOfOneScan(reader[r]) /\ ReaderFields(reader[r]) /\ reader[r].stage = "overview" /\ r \in DOMAIN reader
  BY DEF ReadersSound, OverviewFacets
<1>2. reader' = [reader EXCEPT ![r].stage = "facets", ![r].files = counts]
  BY DEF OverviewFacets
<1>3. counts # <<>> => counts = CountsByFile(s)
  BY FileFacet
<1> HIDE DEF counts
<1>4. reader' = [reader EXCEPT ![r] = x]
  BY <1>1, <1>2
<1>5. /\ ReaderFields(x) /\ x.stage = "facets" /\ x.scan = s
      /\ x.listed = reader[r].listed /\ x.files = counts /\ x.shown = reader[r].shown
  BY <1>1 DEF ReaderFields
<1> HIDE DEF x
<1>6. ToSet(<<>>) = {}
  BY DEF ToSet
<1>7. ToldOfOneScan(x)
  BY <1>1, <1>3, <1>5, <1>6 DEF ToldOfOneScan
<1>8. PICK y : y = x
  OBVIOUS
<1>9. ToldOfOneScan(y)'
  BY <1>7, <1>8, ToldStays
<1>10. QED
  BY <1>4, <1>5, <1>8, <1>9, ReadersSoundStep

-----------------------------------------------------------------------------
(* Issues: overviews                                                       *)

\* What an issue to fix is listed by: its four ranks, the first that differs decides.
FixRank(i, reasons) == <<Bucket(issueRows[i], reasons), SeverityRank(issueRows[i].severity), TypeRank(issueRows[i].type), i>>
FixedFirst(i, j, reasons) ==
    \E k \in 1..4 : /\ FixRank(i, reasons)[k] < FixRank(j, reasons)[k]
                    /\ \A l \in 1..(k - 1) : FixRank(i, reasons)[l] = FixRank(j, reasons)[l]

LEMMA FixOrder ==
  ASSUME NEW reasons, NEW S, S \subseteq Nat
  PROVE  /\ \A i \in S : ~FixedFirst(i, i, reasons)
         /\ \A i, j, k \in S : FixedFirst(i, j, reasons) /\ FixedFirst(j, k, reasons) => FixedFirst(i, k, reasons)
         /\ \A i, j \in S : i # j => FixedFirst(i, j, reasons) \/ FixedFirst(j, i, reasons)
<1> DEFINE b == [i \in S |-> Bucket(issueRows[i], reasons)]
           v == [i \in S |-> SeverityRank(issueRows[i].severity)]
           t == [i \in S |-> TypeRank(issueRows[i].type)]
           Before(i, j) == \/ b[i] < b[j]
                           \/ b[i] = b[j] /\ v[i] < v[j]
                           \/ b[i] = b[j] /\ v[i] = v[j] /\ t[i] < t[j]
                           \/ b[i] = b[j] /\ v[i] = v[j] /\ t[i] = t[j] /\ i < j
<1>1. b \in [S -> Nat]
  BY DEF Bucket
<1>2. v \in [S -> Nat]
  BY DEF SeverityRank
<1>3. t \in [S -> Nat]
  BY DEF TypeRank
<1>4. ASSUME NEW i \in S, NEW j \in S
      PROVE  FixedFirst(i, j, reasons) <=> Before(i, j)
  <2>1. FixRank(i, reasons) = <<b[i], v[i], t[i], i>> /\ FixRank(j, reasons) = <<b[j], v[j], t[j], j>>
    BY DEF FixRank
  <2> HIDE DEF b, v, t
  <2>2. \A k \in 1..4 : k = 1 \/ k = 2 \/ k = 3 \/ k = 4
    OBVIOUS
  <2>3. /\ 1..(1 - 1) = {} /\ 1..(2 - 1) = {1} /\ 1..(3 - 1) = {1, 2} /\ 1..(4 - 1) = {1, 2, 3}
        /\ 1 \in 1..4 /\ 2 \in 1..4 /\ 3 \in 1..4 /\ 4 \in 1..4
    OBVIOUS
  <2>4. QED
    BY <2>1, <2>2, <2>3 DEF FixedFirst
<1> HIDE DEF b, v, t
<1>5. \A i \in S : b[i] \in Nat /\ v[i] \in Nat /\ t[i] \in Nat /\ i \in Nat
  BY <1>1, <1>2, <1>3
<1>6. /\ \A i \in S : ~Before(i, i)
      /\ \A i, j, k \in S : Before(i, j) /\ Before(j, k) => Before(i, k)
      /\ \A i, j \in S : i # j => Before(i, j) \/ Before(j, i)
  BY <1>5
<1> HIDE DEF Before
<1>7. QED
  BY <1>4, <1>6

\* Only active issues are to be fixed, and no more than fit.
LEMMA FixesAreActive ==
  ASSUME TriageShape, NEW rows, rows \subseteq IssueIds, NEW reasons, NEW limit \in Nat
  PROVE  \A i \in ToSet(MustFix(rows, reasons, limit)) : i \in Active(rows)
<1> DEFINE S == Active(rows)
           n == Cardinality(S)
           before == [x \in S |-> {y \in S : FixedFirst(y, x, reasons)}]
           list == Ordered(S, LAMBDA i, j : FixedFirst(i, j, reasons))
<1>1. IsFiniteSet(S) /\ S \subseteq Nat
  <2>1. S \subseteq IssueIds /\ IssueIds \subseteq Nat
    BY IdIntervals DEF Active
  <2>2. QED
    BY <2>1, IssueSetsFinite
<1>2. MustFix(rows, reasons, limit) = SubSeq(list, 1, Min({limit, Len(list)}))
  BY DEF MustFix, FixedFirst, FixRank, Ordered
<1>3. list = [k \in 1..n |-> CHOOSE x \in S : Cardinality({y \in S : FixedFirst(y, x, reasons)}) = k - 1]
  BY DEF Ordered
<1> HIDE DEF S
<1>4. list = [k \in 1..n |-> list[k]] /\ \A k \in 1..n : list[k] = CHOOSE x \in S : Cardinality({y \in S : FixedFirst(y, x, reasons)}) = k - 1
  BY <1>3
<1> HIDE DEF list
<1>5. /\ before \in [S -> SUBSET S]
      /\ \A x \in S : x \notin before[x]
      /\ \A x, y \in S : y \in before[x] => before[y] \subseteq before[x]
      /\ \A x, y \in S : x # y => y \in before[x] \/ x \in before[y]
  <2>1. before \in [S -> SUBSET S]
    OBVIOUS
  <2>2. \A x, y \in S : y \in before[x] <=> FixedFirst(y, x, reasons)
    OBVIOUS
  <2>3. /\ \A i \in S : ~FixedFirst(i, i, reasons)
        /\ \A i, j, k \in S : FixedFirst(i, j, reasons) /\ FixedFirst(j, k, reasons) => FixedFirst(i, k, reasons)
        /\ \A i, j \in S : i # j => FixedFirst(i, j, reasons) \/ FixedFirst(j, i, reasons)
    BY <1>1, FixOrder
  <2> HIDE DEF before
  <2>4. \A x, y \in S : y \in before[x] => before[y] \subseteq before[x]
    <3> TAKE x, y \in S
    <3> HAVE y \in before[x]
    <3>1. before[y] \subseteq S /\ before[x] \subseteq S
      BY <2>1
    <3>2. QED
      BY <2>2, <2>3, <3>1
  <2>5. QED
    BY <2>1, <2>2, <2>3, <2>4
<1>6. \A x \in S : before[x] = {y \in S : FixedFirst(y, x, reasons)}
  OBVIOUS
<1> HIDE DEF before, n
<1>7. \A k \in 1..n : (\E x \in S : Cardinality(before[x]) = k - 1) => list[k] \in S /\ Cardinality(before[list[k]]) = k - 1
  <2> SUFFICES ASSUME NEW k \in 1..n, \E x \in S : Cardinality(before[x]) = k - 1
               PROVE  list[k] \in S /\ Cardinality(before[list[k]]) = k - 1
    OBVIOUS
  <2>1. \E x \in S : Cardinality({y \in S : FixedFirst(y, x, reasons)}) = k - 1
    BY <1>6
  <2>2. list[k] \in S /\ Cardinality({y \in S : FixedFirst(y, list[k], reasons)}) = k - 1
    BY <1>4, <2>1
  <2>3. QED
    BY <1>6, <2>2
<1>8. /\ n \in Nat /\ list \in [1..n -> S]
      /\ \A x \in S : \E k \in 1..n : list[k] = x
      /\ \A k, l \in 1..n : k < l => list[k] \in before[list[l]]
  <2>1. list = [k \in 1..n |-> list[k]] /\ IsFiniteSet(S)
    BY <1>1, <1>4
  <2>2. QED
    BY ONLY <1>5, <1>7, <2>1, OrderedList DEF n
<1>9. list \in Seq(S)
  BY <1>8
<1>10. \A i \in ToSet(MustFix(rows, reasons, limit)) : i \in ToSet(list)
  BY <1>2, <1>9, Starts
<1>11. \A i \in ToSet(list) : i \in S
  BY <1>9 DEF ToSet
<1>12. QED
  BY <1>10, <1>11 DEF S

\* A file that is not among the impacted ones has left its place to as many as fit, which have no fewer issues.
LEMMA LeftOut ==
  ASSUME NEW counts, IsFiniteSet(DOMAIN counts), NEW limit \in Nat, NEW impacted, impacted \subseteq DOMAIN counts,
         AreImpacted(impacted, counts, limit), NEW g \in DOMAIN counts, g \notin impacted
  PROVE  Cardinality(impacted) = limit /\ \A f \in impacted : counts[f] >= counts[g]
<1> DEFINE F == DOMAIN counts
<1>1. Cardinality(F) \in Nat /\ Cardinality(impacted) \in Nat /\ IsFiniteSet(impacted)
  BY FS_CardinalityType, FS_Subset
<1>2. Cardinality(impacted) < Cardinality(F)
  <2>1. impacted \subseteq F \ {g} /\ IsFiniteSet(F \ {g}) /\ Cardinality(F \ {g}) = Cardinality(F) - 1
    BY FS_RemoveElement
  <2>2. Cardinality(impacted) <= Cardinality(F \ {g})
    BY <2>1, FS_Subset
  <2>3. QED
    BY <1>1, <2>1, <2>2
<1>3. Min({limit, Cardinality(F)}) = IF limit <= Cardinality(F) THEN limit ELSE Cardinality(F)
  BY <1>1, MinOfTwo
<1>4. Cardinality(impacted) = Min({limit, Cardinality(F)})
  BY DEF AreImpacted
<1>5. Cardinality(impacted) = limit
  BY <1>1, <1>2, <1>3, <1>4
<1>6. QED
  BY <1>5 DEF AreImpacted

LEMMA FilesFinite ==
  ASSUME TriageShape, NEW S, S \subseteq IssueIds
  PROVE  IsFiniteSet({issueRows[i].file : i \in S})
<1> DEFINE F == {issueRows[i].file : i \in S}
           f == [i \in S |-> issueRows[i].file]
<1>1. IsFiniteSet(S)
  BY IssueSetsFinite
<1>2. f \in [S -> F] /\ \A x \in F : \E i \in S : f[i] = x
  OBVIOUS
<1> HIDE DEF F, f
<1>3. f \in Surjection(S, F)
  BY <1>2 DEF Surjection
<1>4. IsFiniteSet(F)
  BY <1>1, <1>3, FS_Surjection
<1>5. QED
  BY <1>4 DEF F

LEMMA IssuesShown ==
  ASSUME TriageTables, ReadersSound, RowsMove, DetailsStay, PagesAreServed, NEW r \in Readers, NEW conds, OverviewIssues(r, conds)
  PROVE  ReadersSound'
<1> DEFINE s == reader[r].scan
           facet == reader[r].files
           reasons == IF scans[s].gate = "" THEN <<>> ELSE SummaryReasons(s, conds)
           rows == QueryScan(s)
           counts == FileCounts(facet, rows)
           fix == MustFix(rows, reasons, PageLimit)
<1>0. TriageShape /\ PageLimit \in Nat
  BY TriageAssumption DEF TriageTables, PagesAreServed
<1>1. ToldOfOneScan(reader[r]) /\ ReaderFields(reader[r]) /\ reader[r].stage = "facets" /\ r \in DOMAIN reader
  BY DEF ReadersSound, OverviewIssues
<1>2. PICK impacted \in SUBSET (DOMAIN counts) :
         /\ AreImpacted(impacted, counts, PageLimit)
         /\ reader' = [reader EXCEPT ![r].stage = "shown",
                                     ![r].shown = [review |-> ReviewStatus(scans[s].gate), reasons |-> reasons,
                                                   fix |-> fix, impacted |-> impacted]]
  BY DEF OverviewIssues
<1> DEFINE shown == [review |-> ReviewStatus(scans[s].gate), reasons |-> reasons, fix |-> fix, impacted |-> impacted]
           x == [[reader[r] EXCEPT !.stage = "shown"] EXCEPT !.shown = shown]
<1>3. rows \subseteq IssuesOf(s) /\ IssuesOf(s) \subseteq IssueIds
  BY DEF QueryScan, IssuesOf
<1> HIDE DEF rows, reasons
<1>4. \A i \in ToSet(fix) : i \in Active(rows) /\ i \in IssuesOf(s)
  <2>1. rows \subseteq IssueIds
    BY <1>3
  <2>2. \A i \in ToSet(fix) : i \in Active(rows)
    BY <1>0, <2>1, FixesAreActive
  <2>3. QED
    BY <1>3, <2>2 DEF Active
<1>5. shown.fix = fix /\ shown.impacted = impacted
  <2> HIDE DEF fix
  <2>1. QED
    OBVIOUS
<1> HIDE DEF shown, fix
<1>6. reader' = [reader EXCEPT ![r] = x]
  BY <1>1, <1>2 DEF shown
<1>7. /\ ReaderFields(x) /\ x.stage = "shown" /\ x.scan = s
      /\ x.listed = reader[r].listed /\ x.files = facet /\ x.shown = shown
  BY <1>1 DEF ReaderFields
<1>8. facet # <<>> => facet = CountsByFile(s) /\ counts = facet
  BY <1>1 DEF ToldOfOneScan, FileCounts
<1>9. facet = <<>> => DOMAIN counts = {issueRows[i].file : i \in Active(rows)}
  BY DEF FileCounts
<1>10. DOMAIN CountsByFile(s) = {issueRows[i].file : i \in IssuesOf(s)} /\ \A f \in DOMAIN CountsByFile(s) : CountsByFile(s)[f] = IssuesIn(s, f)
  BY DEF CountsByFile
<1> HIDE DEF counts, facet
<1>11. IsFiniteSet(DOMAIN counts)
  <2>1. Active(rows) \subseteq IssueIds
    BY <1>3 DEF Active
  <2>2. QED
    BY <1>0, <1>3, <1>8, <1>9, <1>10, <2>1, FilesFinite
<1>12. ASSUME NEW i \in ToSet(fix), issueRows[i].file \notin impacted
       PROVE  /\ Cardinality(impacted) = PageLimit
              /\ facet # <<>> => \A f \in impacted : IssuesIn(s, f) >= IssuesIn(s, issueRows[i].file)
  <2> DEFINE g == issueRows[i].file
  <2>1. g \in DOMAIN counts
    BY <1>4, <1>8, <1>9, <1>10
  <2>2. Cardinality(impacted) = PageLimit /\ \A f \in impacted : counts[f] >= counts[g]
    BY <1>0, <1>2, <1>11, <1>12, <2>1, LeftOut
  <2>3. QED
    BY <1>2, <1>8, <1>10, <2>1, <2>2
<1> HIDE DEF x
<1>13. ToldOfOneScan(x)
  BY <1>1, <1>4, <1>5, <1>7, <1>12 DEF ToldOfOneScan, facet
<1>14. PICK y : y = x
  OBVIOUS
<1>15. ToldOfOneScan(y)'
  BY <1>13, <1>14, ToldStays
<1>16. QED
  BY <1>6, <1>7, <1>14, <1>15, ReadersSoundStep

LEMMA ReadersStep ==
  ASSUME PagesAreServed, TriageTables, ReadersSound, [TriageNext]_triageVars
  PROVE  ReadersSound'
<1>1. RowsMove /\ DetailsStay
  BY TriageStep, DetailsStep DEF TablesMove
<1>2. CASE UNCHANGED reader
  <2>1. ASSUME NEW r \in Readers PROVE ReaderFields(reader'[r]) /\ ToldOfOneScan(reader[r])'
    <3>1. PICK x : x = reader[r]
      OBVIOUS
    <3>2. ReaderFields(x) /\ ToldOfOneScan(x)'
      BY <1>1, <3>1, ToldStays DEF ReadersSound
    <3>3. reader'[r] = x
      BY <1>2, <3>1
    <3>4. QED
      BY <3>2, <3>3 DEF ToldOfOneScan
  <2>2. QED
    BY <1>2, <2>1 DEF ReadersSound, ReaderFields
<1>3. ASSUME NEW r \in Readers, NEW s \in ScanIds, OpenList(r, s) PROVE ReadersSound'
  BY <1>1, <1>3, ListOpened
<1>4. ASSUME NEW r \in Readers, ReadPage(r) PROVE ReadersSound'
  BY <1>1, <1>4, PageRead
<1>5. ASSUME NEW r \in Readers, NEW b, NEW scope, OpenOverview(r, scope, b) PROVE ReadersSound'
  BY <1>1, <1>5, OverviewOpened
<1>6. ASSUME NEW r \in Readers, NEW fails, OverviewFacets(r, fails) PROVE ReadersSound'
  BY <1>1, <1>6, FacetsRead
<1>7. ASSUME NEW r \in Readers, NEW conds, OverviewIssues(r, conds) PROVE ReadersSound'
  BY <1>1, <1>7, IssuesShown
<1>8. QED
  BY <1>2, <1>3, <1>4, <1>5, <1>6, <1>7, ReaderOrNot

LEMMA ReadersAtFirst == TriageInit => ReadersSound
<1> SUFFICES ASSUME TriageInit PROVE ReadersSound
  OBVIOUS
<1>1. reader = [r \in Readers |-> IdleReader]
  BY DEF TriageInit
<1>2. /\ ReaderFields(IdleReader) /\ IdleReader.stage = "idle" /\ IdleReader.listed = <<>> /\ IdleReader.files = <<>>
      /\ IdleReader.shown.fix = <<>>
  BY DEF IdleReader, ReaderFields, NothingShown
<1>3. ToldOfOneScan(IdleReader)
  BY <1>2 DEF ToldOfOneScan, ToSet
<1>4. QED
  BY <1>1, <1>2, <1>3 DEF ReadersSound

\* A list in progress is of the first issues, one that has ended of all.
LEMMA ListsAreOfOneScan ==
  ASSUME TriageTables, NEW x, ToldOfOneScan(x)
  PROVE  IsInjective(x.listed) /\ (x.stage = "listed" => ToSet(x.listed) = IssuesOf(x.scan))
<1> DEFINE S == IssuesOf(x.scan)
           list == Descending(S)
<1>1. IsFiniteSet(S) /\ S \subseteq Nat
  BY IssuesAreNumbers DEF TriageTables
<1>2. /\ list \in Seq(S) /\ \A y \in S : \E k \in 1..Len(list) : list[k] = y
      /\ \A k, l \in 1..Len(list) : list[k] = list[l] => k = l
  <2> HIDE DEF S
  <2>1. QED
    BY <1>1, DescendingLists
<1>3. CASE x.stage \in {"list", "listed"}
  <2>1. /\ x.offset \in Nat /\ x.listed \in Seq(S) /\ Len(x.listed) = (IF x.offset <= Len(list) THEN x.offset ELSE Len(list))
        /\ \A k \in 1..Len(x.listed) : x.listed[k] = list[k]
        /\ x.stage = "listed" => x.offset >= Len(list)
    BY <1>3 DEF ToldOfOneScan, ListedOf
  <2> HIDE DEF list, S
  <2>2. Len(list) \in Nat /\ Len(x.listed) \in Nat /\ DOMAIN x.listed = 1..Len(x.listed) /\ Len(x.listed) <= Len(list)
    <3>1. \A f \in Seq(S) : Len(f) \in Nat /\ DOMAIN f = 1..Len(f)
      OBVIOUS
    <3>2. QED
      BY ONLY <1>2, <2>1, <3>1
  <2>3. IsInjective(x.listed)
    <3>1. \A k \in 1..Len(x.listed) : k \in 1..Len(list) /\ x.listed[k] = list[k]
      BY ONLY <2>1, <2>2
    <3>2. QED
      BY <1>2, <2>2, <3>1 DEF IsInjective
  <2>4. ASSUME x.stage = "listed" PROVE ToSet(x.listed) = S
    <3>1. Len(x.listed) = Len(list)
      BY <2>1, <2>2, <2>4
    <3>2. \A k \in 1..Len(list) : x.listed[k] = list[k] /\ list[k] \in S
      <4>1. \A f \in Seq(S) : \A k \in 1..Len(f) : f[k] \in S
        OBVIOUS
      <4>2. QED
        BY ONLY <1>2, <2>1, <3>1, <4>1
    <3>3. ToSet(x.listed) = {list[k] : k \in 1..Len(list)}
      BY <2>2, <3>1, <3>2 DEF ToSet
    <3>4. QED
      BY <1>2, <3>2, <3>3
  <2>5. QED
    BY <2>3, <2>4 DEF S
<1>4. CASE x.stage \notin {"list", "listed"}
  <2>1. DOMAIN x.listed = {}
    BY <1>4 DEF ToldOfOneScan
  <2>2. QED
    BY <1>4, <2>1 DEF IsInjective
<1>5. QED
  BY <1>3, <1>4

\* The counts by file add up to the issues of the scan.
LEMMA FilesAddUp ==
  ASSUME TriageShape, NEW s
  PROVE  Cardinality(AllOf(CountsByFile(s))) = Cardinality(IssuesOf(s))
<1> DEFINE M == IssuesOf(s)
           of == [i \in M |-> issueRows[i].file]
           tally == CountsByFile(s)
<1>1. IsFiniteSet(M)
  BY IssuesAreNumbers
<1>2. tally = [v \in {of[i] : i \in M} |-> Cardinality({i \in M : of[i] = v})]
  <2>1. {of[i] : i \in M} = {issueRows[i].file : i \in M}
    OBVIOUS
  <2>2. \A v : {i \in M : of[i] = v} = {i \in M : issueRows[i].file = v}
    OBVIOUS
  <2> HIDE DEF of
  <2>3. QED
    BY <2>1, <2>2 DEF CountsByFile, IssuesIn
<1> HIDE DEF tally, M, of
<1>3. Cardinality(AllOf(tally)) = Cardinality(M)
  <2>1. Cardinality(PairsOf(tally)) = Cardinality(M)
    BY <1>1, <1>2, GroupsAddUp
  <2>2. PairsOf(tally) = AllOf(tally)
    BY DEF PairsOf, AllOf
  <2>3. QED
    BY <2>1, <2>2
<1>4. QED
  BY <1>3 DEF tally, M

LEMMA OneScanIsRead ==
  ASSUME TriageTables, ReadersSound
  PROVE  ReadersSeeOneScan
<1> SUFFICES ASSUME NEW r \in Readers, NEW x, x = reader[r]
             PROVE  /\ IsInjective(x.listed)
                    /\ x.stage = "listed" => ToSet(x.listed) = IssuesOf(x.scan)
                    /\ x.files # <<>> => Cardinality(AllOf(x.files)) = Cardinality(IssuesOf(x.scan))
                    /\ \A i \in ToSet(x.shown.fix) :
                          /\ i \in IssuesOf(x.scan)
                          /\ \/ issueRows[i].file \in x.shown.impacted
                             \/ /\ Cardinality(x.shown.impacted) = PageLimit
                                /\ x.files # <<>> => \A f \in x.shown.impacted : IssuesIn(x.scan, f) >= IssuesIn(x.scan, issueRows[i].file)
  BY DEF ReadersSeeOneScan
<1>1. ToldOfOneScan(x)
  BY DEF ReadersSound
<1>2. IsInjective(x.listed) /\ (x.stage = "listed" => ToSet(x.listed) = IssuesOf(x.scan))
  BY <1>1, ListsAreOfOneScan
<1>3. x.files # <<>> => Cardinality(AllOf(x.files)) = Cardinality(IssuesOf(x.scan))
  BY <1>1, FilesAddUp DEF ToldOfOneScan, TriageTables
<1>4. QED
  BY <1>1, <1>2, <1>3 DEF ToldOfOneScan

-----------------------------------------------------------------------------
(* Issues: facets                                                          *)

Dimensions == {"quality", "language", "tag", "category", "severity", "type", "status", "tracking", "rule", "directory"}

\* What one parameter of a filter asks of a row.
Meets(row, d, v) ==
    CASE d = "quality" -> QualityCondition(row, v)
      [] d = "language" -> LanguageCondition(row, v)
      [] d \in {"tag", "category"} -> v \in row.tags
      [] d = "directory" -> IsPrefix(v, row.file)
      [] OTHER -> row[d] = v

LEMMA MatchesAdded ==
  ASSUME NEW row, NEW filter, NEW d, NEW v, d \notin DOMAIN filter
  PROVE  Matches(row, Adding(filter, d, v)) <=> Matches(row, filter) /\ Meets(row, d, v)
<1> DEFINE more == Adding(filter, d, v)
<1>1. DOMAIN more = DOMAIN filter \cup {d} /\ more[d] = v /\ \A e \in DOMAIN filter : more[e] = filter[e]
  BY DEF Adding
<1> HIDE DEF more
<1>2. \A f : Matches(row, f) <=> \A e \in DOMAIN f : Meets(row, e, f[e])
  BY DEF Matches, Meets
<1>3. (\A e \in DOMAIN more : Meets(row, e, more[e])) <=> (\A e \in DOMAIN filter : Meets(row, e, filter[e])) /\ Meets(row, d, v)
  BY <1>1
<1>4. QED
  BY <1>2, <1>3 DEF more

\* A value derived for a row is the one whose condition, on what is stored, the row meets.
LEMMA QualitiesAgree ==
  ASSUME NEW row, row.type \in IssueTypes, NEW other
  PROVE  QualityCondition(row, QualityDomain(other)) <=> QualityDomain(other) = QualityDomain(row)
<1>1. QualityDomain(other) \in {"testability", "security", "reliability", "maintainability"}
  BY DEF QualityDomain
<1>2. \A v \in {"testability", "security", "reliability", "maintainability"} : QualityCondition(row, v) <=> v = QualityDomain(row)
  BY DEF QualityCondition, QualityDomain, IssueTypes
<1>3. QED
  BY <1>1, <1>2

LEMMA LanguagesAgree ==
  ASSUME NEW row, NEW ext
  PROVE  LanguageCondition(row, LanguageFromPath(ext)) <=> LanguageFromPath(ext) = LanguageFromPath(row.ext)
<1> DEFINE Languages == {"go", "javascript", "typescript", "python", "rust", "unknown"}
<1>1. LanguageFromPath(ext) \in Languages
  BY DEF LanguageFromPath
<1>2. \A v \in Languages : LanguageCondition(row, v) <=> v = LanguageFromPath(row.ext)
  BY DEF LanguageCondition, LanguageFromPath
<1>3. QED
  BY <1>1, <1>2

LEMMA DirectoryHolds ==
  ASSUME NEW file \in Seq(STRING), file # <<>>, IssueDirectory(file) # <<"./">>
  PROVE  IsPrefix(IssueDirectory(file), file)
<1>1. Len(file) \in Nat /\ Len(file) > 1 /\ IssueDirectory(file) = SubSeq(file, 1, Len(file) - 1)
  BY DEF IssueDirectory, Front
<1> DEFINE n == Len(file) - 1
           front == SubSeq(file, 1, n)
<1>2. n \in Nat /\ n <= Len(file)
  BY <1>1
<1>3. front \in Seq(STRING) /\ Len(front) = n
  BY <1>1, <1>2
<1>4. SubSeq(front, 1, n) = front
  BY <1>2, <1>3
<1>5. QED
  BY <1>1, <1>2, <1>3, <1>4 DEF IsPrefix

\* A facet counts the rows that meet the condition on its value; of a directory, some of them.
LEMMA ValuesAgree ==
  ASSUME NEW row, row.type \in IssueTypes, row.file \in Seq(STRING), row.file # <<>>, NEW other,
         NEW d \in Dimensions, NEW v \in FacetValues(other, d)
  PROVE  /\ d # "directory" => (v \in FacetValues(row, d) <=> Meets(row, d, v))
         /\ d = "directory" /\ v # <<"./">> => (v \in FacetValues(row, d) => Meets(row, d, v))
<1>1. CASE d = "quality"
  <2>1. v = QualityDomain(other) /\ FacetValues(row, d) = {QualityDomain(row)}
    BY <1>1 DEF FacetValues
  <2>2. Meets(row, d, v) <=> QualityCondition(row, v)
    BY <1>1 DEF Meets
  <2>3. QED
    BY <1>1, <2>1, <2>2, QualitiesAgree
<1>2. CASE d = "language"
  <2>1. v = LanguageFromPath(other.ext) /\ FacetValues(row, d) = {LanguageFromPath(row.ext)}
    BY <1>2 DEF FacetValues
  <2>2. Meets(row, d, v) <=> LanguageCondition(row, v)
    BY <1>2 DEF Meets
  <2>3. QED
    BY <1>2, <2>1, <2>2, LanguagesAgree
<1>3. CASE d \in {"tag", "category"}
  BY <1>3 DEF FacetValues, Meets
<1>4. CASE d = "directory"
  <2>1. FacetValues(row, d) = {IssueDirectory(row.file)} /\ (Meets(row, d, v) <=> IsPrefix(v, row.file))
    BY <1>4 DEF FacetValues, Meets
  <2>2. QED
    BY <1>4, <2>1, DirectoryHolds
<1>5. CASE d \in {"severity", "type", "status", "tracking", "rule"}
  BY <1>5 DEF FacetValues, Meets
<1>6. QED
  BY <1>1, <1>2, <1>3, <1>4, <1>5 DEF Dimensions

LEMMA FacetsAreOfLists ==
  ASSUME TriageTables, RowsReported, NEW base, NEW d \in Dimensions, d \notin DOMAIN base, NEW v \in DOMAIN Facets(base, d)
  PROVE  LET total == TotalOf(Adding(base, d, v))
         IN  Facets(base, d)[v] = total \/ (d = "directory" /\ (Facets(base, d)[v] <= total \/ v = <<"./">>))
<1> DEFINE counted == {i \in Matching(base) : v \in FacetValues(issueRows[i], d)}
           listed == Matching(Adding(base, d, v))
<1>1. (\E i \in Matching(base) : v \in FacetValues(issueRows[i], d)) /\ Facets(base, d)[v] = Cardinality(counted)
  BY DEF Facets
<1>2. listed = {i \in Matching(base) : Meets(issueRows[i], d, v)}
  BY MatchesAdded DEF Matching
<1>3. PICK other : v \in FacetValues(other, d)
  BY <1>1
<1>4. \A i \in Matching(base) : /\ i \in IssueIds /\ issueRows[i].type \in IssueTypes /\ issueRows[i].file \in Seq(STRING)
                                /\ issueRows[i].file # <<>>
  <2>1. \A i \in IssueIds : issueRows[i] \in IssueRows
    BY IdIntervals DEF TriageTables
  <2>2. QED
    BY <2>1 DEF RowsReported, Matching, IssueRows
<1>5. /\ d # "directory" => \A i \in Matching(base) : v \in FacetValues(issueRows[i], d) <=> Meets(issueRows[i], d, v)
      /\ d = "directory" /\ v # <<"./">> => \A i \in Matching(base) : v \in FacetValues(issueRows[i], d) => Meets(issueRows[i], d, v)
  BY <1>3, <1>4, ValuesAgree
<1>6. CASE d # "directory"
  <2>1. counted = listed
    BY <1>2, <1>5, <1>6
  <2>2. QED
    BY <1>1, <2>1 DEF TotalOf
<1>7. CASE d = "directory" /\ v # <<"./">>
  <2>1. counted \subseteq listed /\ listed \subseteq IssueIds
    BY <1>2, <1>4, <1>5, <1>7
  <2>2. IsFiniteSet(listed)
    BY <2>1, IssueSetsFinite DEF TriageTables
  <2>3. Cardinality(counted) <= Cardinality(listed)
    BY <2>1, <2>2, FS_Subset
  <2>4. QED
    BY <1>1, <1>7, <2>3 DEF TotalOf
<1>8. QED
  BY <1>6, <1>7

LEMMA FacetsAreTrue ==
  ASSUME TriageTables, RowsReported
  PROVE  FacetsMatchLists
<1> SUFFICES ASSUME NEW s \in ScanIds, NEW f \in {<<>>, [status |-> "open"], [type |-> "bug"]}, NEW base, base = Adding(f, "scan", s),
                    NEW d \in Dimensions, NEW v \in DOMAIN Facets(base, d), d \notin DOMAIN f
             PROVE  LET total == TotalOf(Adding(base, d, v))
                    IN  Facets(base, d)[v] = total \/ (d = "directory" /\ (Facets(base, d)[v] <= total \/ v = <<"./">>))
  BY DEF FacetsMatchLists, Dimensions
<1>1. d \notin DOMAIN base
  BY DEF Adding, Dimensions
<1>2. QED
  BY <1>1, FacetsAreOfLists

-----------------------------------------------------------------------------
(* Issues: activity and code                                               *)

LEMMA WindowOfList ==
  ASSUME NEW X, NEW all \in Seq(X), NEW limit \in Nat, NEW offset \in 0..(Len(all) - 1)
  PROVE  LET window == ActivityWindow(all, limit, offset)
             n == Len(all)
         IN  /\ n \in Nat /\ Len(window) = IF n <= offset + limit + 1 THEN n - offset ELSE limit + 1
             /\ \A k \in 1..Len(window) : window[k] = all[offset + k]
<1> DEFINE n == Len(all)
           last == Min({n, offset + limit + 1})
           window == SubSeq(all, offset + 1, last)
<1>1. n \in Nat /\ offset \in Nat /\ offset < n
  OBVIOUS
<1>2. last = IF n <= offset + limit + 1 THEN n ELSE offset + limit + 1
  BY <1>1, MinOfTwo
<1> HIDE DEF last
<1>3. last \in Nat /\ last <= n /\ offset + 1 <= last
  BY <1>1, <1>2
<1>4. Len(window) = last - offset /\ \A k \in 1..(last - offset) : window[k] = all[offset + k]
  <2>1. \A k \in (offset + 1)..last : k \in 1..n /\ all[k] \in X
    BY <1>1, <1>3
  <2>2. QED
    BY <1>1, <1>3, <2>1
<1> HIDE DEF n
<1>5. Len(window) = IF n <= offset + limit + 1 THEN n - offset ELSE limit + 1
  BY <1>1, <1>2, <1>4
<1>6. QED
  BY <1>1, <1>3, <1>4, <1>5 DEF ActivityWindow, n, last

\* What a page shows at a place is what the list of all scans would show there.
ActivityEntry(all, k) ==
    [scan |-> all[k],
     delta |-> IF k < Len(all) THEN scans[all[k]].total - scans[all[k + 1]].total ELSE 0,
     events |-> (IF k = Len(all) THEN {"FIRST_ANALYSIS"} ELSE {})
                \cup (IF k < Len(all) THEN ComparisonEvents(all[k], all[k + 1]) ELSE {})]

LEMMA PageOfActivity ==
  ASSUME NEW X, NEW all \in Seq(X), NEW limit \in Nat, NEW offset \in 0..(Len(all) - 1)
  PROVE  LET m == IF Len(all) <= offset + limit THEN Len(all) - offset ELSE limit
         IN  ActivityPage(all, limit, offset) = [k \in 1..m |-> ActivityEntry(all, offset + k)]
<1> DEFINE n == Len(all)
           m == IF n <= offset + limit THEN n - offset ELSE limit
           window == ActivityWindow(all, limit, offset)
           page == ActivityPage(all, limit, offset)
           w == Len(window)
           Entry(i) == [scan |-> window[i],
                        delta |-> IF i < w THEN scans[window[i]].total - scans[window[i + 1]].total ELSE 0,
                        events |-> (IF offset + i = n THEN {"FIRST_ANALYSIS"} ELSE {})
                                   \cup (IF i < w THEN ComparisonEvents(window[i], window[i + 1]) ELSE {})]
<1>1. /\ n \in Nat /\ offset \in Nat /\ offset < n
      /\ w = IF n <= offset + limit + 1 THEN n - offset ELSE limit + 1
      /\ \A k \in 1..w : window[k] = all[offset + k]
  BY WindowOfList
<1>2. page = [i \in 1..Min({limit, w}) |-> Entry(i)]
  BY DEF ActivityPage
<1> HIDE DEF window, page, n
<1> HIDE DEF w
<1>3. w \in Nat /\ Min({limit, w}) = m
  <2>1. w \in Nat
    BY <1>1
  <2>2. Min({limit, w}) = IF limit <= w THEN limit ELSE w
    BY <2>1, MinOfTwo
  <2>3. QED
    BY <1>1, <2>1, <2>2
<1>4. ASSUME NEW k \in 1..m PROVE Entry(k) = ActivityEntry(all, offset + k)
  <2>1. /\ k \in 1..w /\ (k < w <=> offset + k < n) /\ (k < w => k + 1 \in 1..w) /\ offset + (k + 1) = (offset + k) + 1
    BY <1>1
  <2>2. window[k] = all[offset + k] /\ (k < w => window[k + 1] = all[(offset + k) + 1])
    BY <1>1, <2>1
  <2> HIDE DEF m
  <2>3. CASE k < w
    BY <2>1, <2>2, <2>3 DEF ActivityEntry, n
  <2>4. CASE ~(k < w)
    BY <2>1, <2>2, <2>4 DEF ActivityEntry, n
  <2>5. QED
    BY <2>3, <2>4
<1> HIDE DEF m, Entry
<1>5. page = [k \in 1..m |-> ActivityEntry(all, offset + k)]
  BY <1>2, <1>3, <1>4
<1>6. QED
  BY <1>5 DEF page, m, n

LEMMA PagesAreParts ==
  ASSUME NEW X, NEW all \in Seq(X), NEW limit \in Nat, NEW offset \in 0..(Len(all) - 1)
  PROVE  ActivityPage(all, limit, offset) = SubSeq(ActivityPage(all, Len(all), 0), offset + 1, Min({Len(all), offset + limit}))
<1> DEFINE n == Len(all)
           m == IF n <= offset + limit THEN n - offset ELSE limit
           whole == ActivityPage(all, n, 0)
           last == Min({n, offset + limit})
           E == {ActivityEntry(all, k) : k \in 1..n}
<1>1. n \in Nat /\ offset \in Nat /\ offset < n /\ 0 \in 0..(n - 1)
  OBVIOUS
<1>2. whole = [k \in 1..n |-> ActivityEntry(all, k)]
  <2>1. whole = [k \in 1..n |-> ActivityEntry(all, 0 + k)]
    BY <1>1, PageOfActivity
  <2>2. \A k \in 1..n : 0 + k = k
    BY <1>1
  <2> HIDE DEF whole, n
  <2>3. QED
    BY <2>1, <2>2
<1>3. ActivityPage(all, limit, offset) = [k \in 1..m |-> ActivityEntry(all, offset + k)]
  BY PageOfActivity
<1>4. last = (IF n <= offset + limit THEN n ELSE offset + limit) /\ m = last - offset
  BY <1>1, MinOfTwo
<1> HIDE DEF n, whole, last, m
<1>5. last \in Nat /\ last <= n /\ m \in Nat
  BY <1>1, <1>4
<1>6. whole \in Seq(E) /\ Len(whole) = n
  <2>1. \A k \in 1..n : ActivityEntry(all, k) \in E
    OBVIOUS
  <2> HIDE DEF E
  <2>2. whole \in [1..n -> E]
    BY <1>2, <2>1
  <2>3. QED
    BY <1>1, <2>2
<1> HIDE DEF E
<1>7. SubSeq(whole, offset + 1, last) = [k \in 1..m |-> whole[offset + k]]
  BY <1>1, <1>4, <1>5, <1>6
<1>8. \A k \in 1..m : whole[offset + k] = ActivityEntry(all, offset + k)
  <2>1. \A k \in 1..m : offset + k \in 1..n
    BY <1>1, <1>4, <1>5
  <2>2. QED
    BY <1>2, <2>1
<1>9. QED
  BY <1>3, <1>7, <1>8 DEF n, whole, last

LEMMA ActivityIsWhole ==
  ASSUME TriageTables
  PROVE  ActivityPagesAgree
<1>1. ASSUME NEW b, NEW scope
      PROVE  LET all == NewestFirst(ScansInScope(scope, b))
                 whole == ActivityPage(all, Len(all), 0)
             IN  \A limit \in 1..2, offset \in 0..(Len(all) - 1) :
                    ActivityPage(all, limit, offset) = SubSeq(whole, offset + 1, Min({Len(all), offset + limit}))
  <2> DEFINE S == ScansInScope(scope, b)
             n == Cardinality(S)
             all == NewestFirst(S)
             Place(k) == CHOOSE x \in S : Cardinality({y \in S : Newer(y, x)}) = k - 1
             X == {all[k] : k \in 1..n}
  <2>1. n \in Nat
    <3>1. Len(scans) \in Nat /\ S \subseteq 1..Len(scans)
      BY IdIntervals DEF TriageTables, ScansInScope
    <3>2. IsFiniteSet(1..Len(scans))
      BY <3>1, CountFinite
    <3>3. QED
      BY <3>1, <3>2, FS_Subset, FS_CardinalityType
  <2>2. all = [k \in 1..n |-> Place(k)]
    BY DEF NewestFirst, Ordered
  <2> HIDE DEF n, S, all, Place
  <2>3. DOMAIN all = 1..n /\ all = [k \in DOMAIN all |-> all[k]]
    BY ONLY <2>2
  <2>4. all \in [1..n -> X]
    BY ONLY <2>3
  <2> HIDE DEF X
  <2>5. all \in Seq(X)
    BY ONLY <2>1, <2>4
  <2>6. \A limit \in 1..2 : limit \in Nat
    OBVIOUS
  <2>7. \A limit \in 1..2, offset \in 0..(Len(all) - 1) :
           ActivityPage(all, limit, offset) = SubSeq(ActivityPage(all, Len(all), 0), offset + 1, Min({Len(all), offset + limit}))
    BY ONLY <2>5, <2>6, PagesAreParts
  <2>8. QED
    BY ONLY <2>7 DEF all, S
<1>2. QED
  BY <1>1 DEF ActivityPagesAgree

\* A snapshot is of the last scan filed under what it is filed under, and every scan has one.
SnapshotsSound ==
    /\ \A s \in ScanIds : [type |-> scans[s].type, name |-> scans[s].name] \in DOMAIN snapshots
    /\ \A k \in DOMAIN snapshots : LET s == snapshots[k]
                                   IN  /\ s \in ScanIds /\ k = [type |-> scans[s].type, name |-> scans[s].name]
                                       /\ \A t \in ScanIds : scans[t].type = scans[s].type /\ scans[t].name = scans[s].name => t <= s

LEMMA SnapshotsOrNot ==
  ASSUME [TriageNext]_triageVars
  PROVE  \/ \E legacy \in BOOLEAN, b \in DefaultBranchesNow : StoreReport(legacy, b)
         \/ UNCHANGED <<scans, snapshots>>
<1>1. \A u, i, x, logged : BeginTransition(u, i, x) \/ CommitTransition(u) \/ TransitionFails(u) \/ RecordChange(u, logged)
         => UNCHANGED <<scans, snapshots>>
  BY DEF BeginTransition, CommitTransition, TransitionFails, RecordChange
<1>2. \A a, b, scope : \/ BeginBackfill(a, b) \/ BackfillScope(a, scope) \/ BackfillScan(a)
                       \/ BackfillWrite(a) \/ BackfillEnds(a) \/ BackfillFails(a)
                       => UNCHANGED <<scans, snapshots>>
  BY DEF BeginBackfill, BackfillScope, BackfillScan, BackfillWrite, BackfillEnds, BackfillFails
<1>3. ASSUME NEW r \in Readers,
             \/ \E s \in ScanIds : OpenList(r, s)
             \/ ReadPage(r)
             \/ \E b \in DefaultBranchesNow : \E scope \in ProjectScopes(b) : OpenOverview(r, scope, b)
             \/ \E fails \in BOOLEAN : OverviewFacets(r, fails)
             \/ \E conds \in Conditions : OverviewIssues(r, conds)
      PROVE  UNCHANGED <<scans, snapshots>>
  BY <1>3, ReadersOnlyRead
<1>4. CASE UNCHANGED triageVars
  BY <1>4 DEF triageVars
<1>5. QED
  BY <1>1, <1>2, <1>3, <1>4 DEF TriageNext

LEMMA SnapshotsStep ==
  ASSUME TriageTables, SnapshotsSound, [TriageNext]_triageVars
  PROVE  SnapshotsSound'
<1>1. CASE UNCHANGED <<scans, snapshots>>
  BY <1>1 DEF SnapshotsSound, ScanIds
<1>2. ASSUME NEW legacy \in BOOLEAN, NEW b, StoreReport(legacy, b)
      PROVE  SnapshotsSound'
  <2> DEFINE r == Head(arriving)
             scope == [type |-> r.type, name |-> r.name]
             id == Len(scans) + 1
  <2>1. /\ ScanIds' = ScanIds \cup {id} /\ id \notin ScanIds
        /\ \A t \in ScanIds : scans'[t] = scans[t]
        /\ scans'[id].type = r.type /\ scans'[id].name = r.name
    BY <1>2, ScanStored DEF TriageTables
  <2>2. \A t \in ScanIds : t \in Nat /\ t < id
    BY IdIntervals DEF TriageTables
  <2>3. id \in Nat
    BY IdIntervals DEF TriageTables
  <2>4. snapshots' = [k \in DOMAIN snapshots \cup {scope} |-> IF k = scope THEN id ELSE snapshots[k]]
    BY <1>2 DEF StoreReport
  <2>5. scope.type = r.type /\ scope.name = r.name /\ \A p, q : [type |-> p, name |-> q] = scope <=> p = r.type /\ q = r.name
    <3>1. \A p, q, x, y : [type |-> p, name |-> q] = [type |-> x, name |-> y] <=> p = x /\ q = y
      OBVIOUS
    <3>2. QED
      BY <3>1
  <2>6. \A k : k = scope => k = [type |-> scans'[id].type, name |-> scans'[id].name]
    BY <2>1
  <2> HIDE DEF r, scope, id
  <2>7. \A s \in ScanIds' : [type |-> scans'[s].type, name |-> scans'[s].name] \in DOMAIN snapshots'
    <3>1. [type |-> scans'[id].type, name |-> scans'[id].name] \in DOMAIN snapshots'
      BY <2>1, <2>4, <2>5
    <3>2. \A s \in ScanIds : [type |-> scans'[s].type, name |-> scans'[s].name] \in DOMAIN snapshots'
      BY <2>1, <2>4 DEF SnapshotsSound
    <3>3. QED
      BY <2>1, <3>1, <3>2
  <2>8. ASSUME NEW k \in DOMAIN snapshots', NEW s, s = snapshots'[k]
        PROVE  /\ s \in ScanIds' /\ k = [type |-> scans'[s].type, name |-> scans'[s].name]
               /\ \A t \in ScanIds' : scans'[t].type = scans'[s].type /\ scans'[t].name = scans'[s].name => t <= s
    <3>1. CASE k = scope
      <4>1. s = id
        BY <2>4, <2>8, <3>1
      <4>2. \A t \in ScanIds' : t <= id
        BY <2>1, <2>2, <2>3
      <4>3. QED
        BY <2>1, <2>6, <3>1, <4>1, <4>2
    <3>2. CASE k # scope
      <4>1. k \in DOMAIN snapshots /\ s = snapshots[k]
        BY <2>4, <2>8, <3>2
      <4>2. /\ s \in ScanIds /\ k = [type |-> scans[s].type, name |-> scans[s].name]
            /\ \A t \in ScanIds : scans[t].type = scans[s].type /\ scans[t].name = scans[s].name => t <= s
        BY <4>1 DEF SnapshotsSound
      <4>3. ~(scans[s].type = r.type /\ scans[s].name = r.name)
        BY <2>5, <3>2, <4>2
      <4>4. QED
        BY <2>1, <4>2, <4>3
    <3>3. QED
      BY <3>1, <3>2
  <2>9. QED
    BY <2>7, <2>8 DEF SnapshotsSound
<1>3. QED
  BY <1>1, <1>2, SnapshotsOrNot

LEMMA CodeIsShown ==
  ASSUME TriageTables, SnapshotsSound
  PROVE  CodeIsOfLatest
<1> SUFFICES ASSUME InOrder, \A s \in ScanIds : scans[s].name # "", NEW scope \in ProjectScopes(mainBranch)
             PROVE  CodeView(scope, mainBranch).file = CodeView(scope, mainBranch).issues
  BY DEF CodeIsOfLatest
<1>1. mainBranch # ""
  BY DEF InOrder
<1>2. PICK s \in ScanIds : scope = [type |-> scans[s].type, name |-> scans[s].name] /\ scans[s].type \in {"branch", "pull_request"}
  BY DEF ProjectScopes
<1>3. scope.type = scans[s].type /\ scope.name = scans[s].name /\ scope.name # ""
  BY <1>2
<1>4. ScopeKey(scope, mainBranch) = scope
  BY <1>3 DEF ScopeKey
<1>5. \A t \in ScanIds : Selects(scope, mainBranch, t) <=> scans[t].type = scope.type /\ scans[t].name = scope.name
  BY <1>2, <1>3 DEF Selects
<1> DEFINE k == snapshots[scope]
           latest == LatestInScope(scope, mainBranch)
<1>6. scope \in DOMAIN snapshots
  BY <1>2 DEF SnapshotsSound
<1>7. k \in ScanIds /\ scope = [type |-> scans[k].type, name |-> scans[k].name]
      /\ \A t \in ScanIds : scans[t].type = scans[k].type /\ scans[t].name = scans[k].name => t <= k
  BY <1>6 DEF SnapshotsSound
<1>8. scope.type = scans[k].type /\ scope.name = scans[k].name
  <2> HIDE DEF k
  <2>1. [type |-> scans[k].type, name |-> scans[k].name].type = scans[k].type
        /\ [type |-> scans[k].type, name |-> scans[k].name].name = scans[k].name
    OBVIOUS
  <2>2. QED
    BY <1>7, <2>1
<1>9. k \in ScansInScope(scope, mainBranch)
  BY <1>5, <1>7, <1>8 DEF ScansInScope
<1>10. latest \in ScansInScope(scope, mainBranch) /\ latest \in ScanIds /\ \A t \in ScansInScope(scope, mainBranch) \ {latest} : Newer(latest, t)
  BY <1>9, LatestIsScan DEF TriageTables
<1> HIDE DEF k, latest
<1>11. latest <= k
  BY <1>5, <1>7, <1>8, <1>10 DEF ScansInScope
<1>12. k = latest \/ k < latest
  BY <1>7, <1>9, <1>10, LaterIsNewer DEF TriageTables
<1>13. k \in Nat /\ latest \in Nat
  <2>1. TriageShape
    BY DEF TriageTables
  <2>2. Len(scans) \in Nat /\ ScanIds = 1..Len(scans)
    BY ONLY <2>1, IdIntervals
  <2>3. QED
    BY ONLY <1>7, <1>10, <2>2
<1>14. k = latest
  BY ONLY <1>11, <1>12, <1>13
<1>15. QED
  BY <1>4, <1>6, <1>14 DEF CodeView, k, latest

\* Views: a list that is read page by page is of one scan and has each of its issues once, the facets count
\* what lists hold, pages of the activity are parts of the whole, and code is shown with the issues of
\* the scan it was stored with, whatever is stored and changed meanwhile, for a reader whose pages are no
\* longer than what a query returns (IssueRepository.Query, FacetsForFilter, buildActivityEntries,
\* buildOverviewMustFixNow, buildOverviewImpactedFiles, CodeFile).
THEOREM ViewsAreOfOneProject == PagesAreServed => (TriageSpec => []ViewsAgree)
<1> SUFFICES ASSUME PagesAreServed PROVE TriageSpec => []ViewsAgree
  OBVIOUS
<1> DEFINE Inv == TriageTables /\ RowsReported /\ ReadersSound /\ SnapshotsSound
<1>1. TriageInit => Inv
  <2>1. TriageInit => RowsReported /\ SnapshotsSound
    BY DEF TriageInit, RowsReported, SnapshotsSound, ScanIds, IssueIds
  <2>2. QED
    BY <2>1, TablesAtFirst, ReadersAtFirst
<1>2. Inv /\ [TriageNext]_triageVars => Inv'
  <2>1. TriageTables /\ [TriageNext]_triageVars => TriageTables'
    BY TriageStep DEF TablesMove
  <2>2. QED
    BY <2>1, ReportedStep, ReadersStep, SnapshotsStep
<1>3. Inv => ViewsAgree
  BY OneScanIsRead, FacetsAreTrue, ActivityIsWhole, CodeIsShown DEF ViewsAgree
<1>4. QED
  BY <1>1, <1>2, <1>3, PTL DEF TriageSpec

\* The issues of a project are what happened to them, and what is shown of them is what they are: together,
\* as long as no report holds more issues than one query returns and no page is longer.
THEOREM IssuesShownAreTrue == SmallReports /\ PagesAreServed => (TriageSpec => []IssuesAreAsShown)
<1> SUFFICES ASSUME SmallReports, PagesAreServed PROVE TriageSpec => []IssuesAreAsShown
  OBVIOUS
<1>1. TriageSpec => []LifecycleIsTrue
  BY LifecyclesAreTrue
<1>2. TriageSpec => []ViewsAgree
  BY ViewsAreOfOneProject
<1>3. LifecycleIsTrue /\ ViewsAgree => IssuesAreAsShown
  BY DEF IssuesAreAsShown
<1>4. QED
  BY <1>1, <1>2, <1>3, PTL

-----------------------------------------------------------------------------
(* Runs of the scanner                                                     *)

ScanSteps == {"parse", "load", "scope", "policy", "analyze", "signals", "serve", "push", "wait", "exited"}
InAnalysis == {i \in DOMAIN worker : worker[i] \in {"running", "sent"}}

\* A goroutine takes its slot, keeps it until it leaves, and nothing is sent outside the analysis.
ExecutorSound ==
    /\ setup \in Setups
    /\ step \in ScanSteps
    /\ worker = [i \in DOMAIN worker |-> worker[i]]
    /\ IsFiniteSet(InAnalysis) /\ Cardinality(InAnalysis) <= Slots
    /\ step # "analyze" => out = <<>>
    /\ scanned.built => step \notin {"parse", "load", "scope", "policy", "analyze"}

\* The server knows of a job only once the report is pushed, and a job has a verdict when it has completed.
JobSound ==
    /\ step \notin {"wait", "exited"} => serverJob = NotPushed
    /\ step = "wait" => serverJob.status # "none" /\ Options.wait
    /\ serverJob.status = "completed" => serverJob.verdict \in {"OK", "WARN", "ERROR"}
    /\ serverJob.status # "completed" => serverJob.verdict = "none"

\* The run has ended when it has a code; 3 is for a verdict, and who waited ends well only after one.
ExitSound ==
    /\ exitCode \in {NotExited, 0, 1, 2, 3}
    /\ (exitCode # NotExited) = (step = "exited")
    /\ exitCode = 3 => serverJob.status = "completed" /\ serverJob.verdict = "ERROR"
    /\ exitCode = 0 /\ serverJob.status # "none" /\ Options.wait
          => serverJob.status = "completed" /\ serverJob.verdict \in {"OK", "WARN"}

\* The scope of the report is the one that was accepted.
ScopeSound ==
    /\ step \in {"policy", "analyze"} => scm = SCMContext /\ ~SCMRefused
    /\ ScopeIsWhole

ScannerInv == ExecutorSound /\ JobSound /\ ExitSound /\ ScopeSound

LEMMA ScannerInvAtFirst == ScannerInit => ScannerInv
<1> SUFFICES ASSUME ScannerInit PROVE ScannerInv
  OBVIOUS
<1>1. InAnalysis = {}
  BY DEF ScannerInit, InAnalysis
<1>2. ExecutorSound
  BY <1>1, FS_EmptySet, ScannerAssumption DEF ScannerInit, ExecutorSound, ScanSteps, NotBuilt
<1>3. JobSound /\ ExitSound
  BY DEF ScannerInit, JobSound, ExitSound, NotPushed, NotExited
<1>4. ScopeSound
  BY DEF ScannerInit, ScopeSound, ScopeIsWhole, NotBuilt
<1>5. QED
  BY <1>2, <1>3, <1>4 DEF ScannerInv

\* The setup of a run, and what is computed from it alone, never changes.
LEMMA SetupStays ==
  ASSUME [ScannerNext]_scannerVars
  PROVE  /\ setup' = setup /\ Options' = Options /\ SCMContext' = SCMContext /\ SCMRefused' = SCMRefused
         /\ Named(PullRequest)' = Named(PullRequest)
<1>1. setup' = setup
  BY DEF ScannerNext, ScannerSteps, scannerVars, outsideVars, analysisVars, ParseOptions, LoadCustomAnalyzers, ResolveScope,
     ResolvePolicy, Acquire, Analyze, Leave, Collect, BuildReport, SaveReport, ServeReport, Push, Poll, Expire, ServerWorks
<1>2. Options' = Options
  BY <1>1 DEF Options
<1>3. PullRequest' = PullRequest
  BY <1>1, <1>2 DEF PullRequest
<1>4. SCMContext' = SCMContext
  BY <1>1, <1>2, <1>3 DEF SCMContext, GitBranch
<1>5. SCMRefused' = SCMRefused
  BY <1>1, <1>3, <1>4 DEF SCMRefused, MissingFields, Named
<1>6. QED
  BY <1>1, <1>2, <1>3, <1>4, <1>5 DEF Named

LEMMA ExecutorStep == ASSUME ExecutorSound, [ScannerNext]_scannerVars PROVE ExecutorSound'
<1>1. setup' \in Setups
  BY SetupStays DEF ExecutorSound
<1>2. ASSUME step' \in ScanSteps, UNCHANGED <<worker, out, scanned>>, step # "analyze", step' # "analyze",
             scanned.built => step' \notin {"parse", "load", "scope", "policy"}
      PROVE  ExecutorSound'
  BY <1>1, <1>2 DEF ExecutorSound, InAnalysis
<1>3. CASE ParseOptions
  BY <1>2, <1>3 DEF ParseOptions, resultVars, Exit, Then, ScanSteps, ExecutorSound
<1>4. CASE LoadCustomAnalyzers
  BY <1>2, <1>4 DEF LoadCustomAnalyzers, Exit, Then, ScanSteps, ExecutorSound
<1>5. CASE ResolveScope
  BY <1>2, <1>5 DEF ResolveScope, Exit, Then, ScanSteps, ExecutorSound
<1>6. CASE ResolvePolicy
  <2>1. step = "policy" /\ UNCHANGED <<out, scanned>>
    BY <1>6 DEF ResolvePolicy
  <2>2. CASE step' = "exited" /\ UNCHANGED worker
    BY <1>2, <2>1, <2>2 DEF ScanSteps, ExecutorSound
  <2>3. CASE step' = "analyze" /\ worker' = [i \in DOMAIN files |-> "waiting"]
    <3>1. InAnalysis' = {} /\ worker' = [i \in DOMAIN worker' |-> worker'[i]]
      BY <2>3 DEF InAnalysis
    <3>2. QED
      BY <1>1, <2>1, <2>3, <3>1, FS_EmptySet, ScannerAssumption DEF ExecutorSound, ScanSteps
  <2>4. QED
    BY <1>6, <2>2, <2>3 DEF ResolvePolicy, Exit, Then
<1>7. ASSUME NEW i \in DOMAIN worker, Acquire(i) PROVE ExecutorSound'
  <2>1. worker' = [worker EXCEPT ![i] = "running"] /\ UNCHANGED <<step, out, scanned>> /\ Cardinality(InAnalysis) < Slots
    BY <1>7 DEF Acquire, analysisVars, InAnalysis
  <2>2. InAnalysis' = InAnalysis \cup {i} /\ worker' = [j \in DOMAIN worker' |-> worker'[j]]
    BY <2>1 DEF InAnalysis, ExecutorSound
  <2>3. IsFiniteSet(InAnalysis') /\ Cardinality(InAnalysis') <= Cardinality(InAnalysis) + 1 /\ Cardinality(InAnalysis) \in Nat
    <3>1. IsFiniteSet(InAnalysis) /\ Cardinality(InAnalysis) \in Nat
      BY FS_CardinalityType DEF ExecutorSound
    <3>2. /\ IsFiniteSet(InAnalysis \cup {i})
          /\ Cardinality(InAnalysis \cup {i}) = IF i \in InAnalysis THEN Cardinality(InAnalysis) ELSE Cardinality(InAnalysis) + 1
      BY <3>1, FS_AddElement
    <3>3. QED
      BY <2>2, <3>1, <3>2
  <2>4. Cardinality(InAnalysis') <= Slots /\ Cardinality(InAnalysis') \in Nat
    BY <2>1, <2>3, FS_CardinalityType, ScannerAssumption
  <2>5. QED
    BY <1>1, <2>1, <2>2, <2>3, <2>4 DEF ExecutorSound
<1>8. ASSUME NEW i \in DOMAIN worker, Analyze(i) \/ Leave(i) PROVE ExecutorSound'
  <2>1. \E state : worker' = [worker EXCEPT ![i] = state]
    BY <1>8 DEF Analyze, Leave
  <2>2. step = "analyze" /\ UNCHANGED <<step, scanned>> /\ i \in InAnalysis
    BY <1>8 DEF Analyze, Leave, analysisVars, InAnalysis
  <2>3. InAnalysis' \subseteq InAnalysis /\ worker' = [j \in DOMAIN worker' |-> worker'[j]]
    BY <2>1, <2>2 DEF InAnalysis, ExecutorSound
  <2>4. IsFiniteSet(InAnalysis') /\ Cardinality(InAnalysis') <= Cardinality(InAnalysis)
    BY <2>3, FS_Subset DEF ExecutorSound
  <2>5. Cardinality(InAnalysis') <= Slots
    BY <2>4, FS_CardinalityType, ScannerAssumption DEF ExecutorSound
  <2>6. QED
    BY <1>1, <2>2, <2>3, <2>4, <2>5 DEF ExecutorSound
<1>9. CASE Collect
  BY <1>1, <1>9 DEF Collect, analysisVars, ExecutorSound, InAnalysis
<1>10. CASE BuildReport
  BY <1>1, <1>10 DEF BuildReport, Then, ExecutorSound, InAnalysis, ScanSteps
<1>11. CASE SaveReport \/ ServeReport
  BY <1>2, <1>11 DEF SaveReport, ServeReport, resultVars, Exit, Then, ScanSteps, ExecutorSound
<1>12. CASE Push \/ Poll
  BY <1>2, <1>12 DEF Push, Poll, resultVars, Exit, Then, ScanSteps, ExecutorSound
<1>13. CASE Expire \/ ServerWorks \/ UNCHANGED scannerVars
  <2>1. UNCHANGED <<step, worker, out, scanned>>
    BY <1>13 DEF Expire, ServerWorks, resultVars, scannerVars
  <2>2. QED
    BY <1>1, <2>1 DEF ExecutorSound, InAnalysis
<1>14. QED
  BY <1>3, <1>4, <1>5, <1>6, <1>7, <1>8, <1>9, <1>10, <1>11, <1>12, <1>13 DEF ScannerNext, ScannerSteps

LEMMA VerdictStep ==
  ASSUME ExecutorSound, JobSound, ExitSound, [ScannerNext]_scannerVars
  PROVE  JobSound' /\ ExitSound'
<1>1. Options' = Options
  BY SetupStays
<1>2. ASSUME step \notin {"wait", "exited"}, UNCHANGED serverJob,
             (step' \in ScanSteps \ {"wait", "exited"} /\ UNCHANGED exitCode) \/ (step' = "exited" /\ exitCode' \in {0, 1, 2})
      PROVE  JobSound' /\ ExitSound'
  BY <1>1, <1>2 DEF JobSound, ExitSound, NotPushed, NotExited
<1>3. CASE ParseOptions \/ LoadCustomAnalyzers \/ ResolveScope \/ ResolvePolicy
  <2>1. UNCHANGED serverJob /\ step \in {"parse", "load", "scope", "policy"}
    BY <1>3 DEF ParseOptions, LoadCustomAnalyzers, ResolveScope, ResolvePolicy, outsideVars
  <2>2. \/ step' \in {"load", "scope", "policy", "analyze"} /\ UNCHANGED exitCode
        \/ step' = "exited" /\ exitCode' \in {0, 1, 2}
    BY <1>3 DEF ParseOptions, LoadCustomAnalyzers, ResolveScope, ResolvePolicy, Exit, Then
  <2>3. QED
    BY <1>2, <2>1, <2>2 DEF ScanSteps
<1>4. CASE (\E i \in DOMAIN worker : Acquire(i) \/ Analyze(i) \/ Leave(i)) \/ Collect \/ BuildReport
  <2>1. UNCHANGED <<serverJob, exitCode>> /\ step = "analyze" /\ step' \in {"analyze", "signals"}
    BY <1>4 DEF Acquire, Analyze, Leave, Collect, BuildReport, outsideVars, analysisVars, Then
  <2>2. QED
    BY <1>2, <2>1 DEF ScanSteps
<1>5. CASE SaveReport \/ ServeReport
  <2>1. UNCHANGED serverJob /\ step \in {"signals", "serve"}
    BY <1>5 DEF SaveReport, ServeReport, outsideVars
  <2>2. \/ (step' = "serve" \/ step' = "push") /\ UNCHANGED exitCode
        \/ step' = "exited" /\ (exitCode' = 0 \/ exitCode' = 1)
    <3>1. CASE SaveReport
      BY <3>1, Zenon DEF SaveReport, Exit, Then
    <3>2. CASE ServeReport
      BY <3>2, Zenon DEF ServeReport, Exit, Then
    <3>3. QED
      BY <1>5, <3>1, <3>2
  <2>3. QED
    BY <1>2, <2>1, <2>2 DEF ScanSteps
<1>6. CASE Push
  <2>1. step = "push" /\ serverJob = NotPushed
    BY <1>6 DEF Push, JobSound
  <2>2. CASE Exit(0) /\ UNCHANGED serverJob
    BY <1>2, <2>1, <2>2 DEF Exit
  <2>3. CASE \E verdict \in {"OK", "WARN", "ERROR"} :
               /\ serverJob' = [status |-> "completed", verdict |-> verdict]
               /\ Exit(IF verdict = "ERROR" THEN 3 ELSE 0)
    BY <2>3 DEF Exit, JobSound, ExitSound, NotExited
  <2>4. CASE /\ serverJob' = [status |-> "accepted", verdict |-> "none"]
             /\ IF Options.wait THEN Then("wait") /\ UNCHANGED exitCode ELSE Exit(0)
    <3>1. CASE Options.wait
      BY <1>1, <2>1, <2>4, <3>1 DEF Then, JobSound, ExitSound, NotExited
    <3>2. CASE ~Options.wait
      BY <1>1, <2>1, <2>4, <3>2 DEF Exit, JobSound, ExitSound, NotExited
    <3>3. QED
      BY <3>1, <3>2
  <2>5. QED
    BY <1>6, <2>2, <2>3, <2>4 DEF Push
<1>7. CASE Poll
  BY <1>1, <1>7 DEF Poll, outsideVars, Exit, Settled, JobSound, ExitSound, NotExited
<1>8. CASE ServerWorks
  <2>1. UNCHANGED <<step, exitCode>> /\ serverJob.status \in {"accepted", "running"}
    BY <1>8 DEF ServerWorks
  <2>2. \/ \E s \in {"running", "failed", "accepted"} : serverJob' = [status |-> s, verdict |-> "none"]
        \/ \E v \in {"OK", "WARN", "ERROR"} : serverJob' = [status |-> "completed", verdict |-> v]
    BY <1>8 DEF ServerWorks
  <2>3. serverJob # NotPushed /\ exitCode # 3 /\ ~(exitCode = 0 /\ Options.wait)
    BY <2>1 DEF JobSound, ExitSound, NotPushed
  <2>4. QED
    BY <1>1, <2>1, <2>2, <2>3 DEF JobSound, ExitSound
<1>9. CASE Expire \/ UNCHANGED scannerVars
  BY <1>1, <1>9 DEF Expire, scannerVars, JobSound, ExitSound
<1>10. QED
  BY <1>3, <1>4, <1>5, <1>6, <1>7, <1>8, <1>9 DEF ScannerNext, ScannerSteps

\* A scope that is not refused has all fields of its pull request, or is not one of a pull request.
LEMMA AcceptedScopeIsWhole ==
  ASSUME ~SCMRefused
  PROVE  /\ Named(PullRequest) # {} =>
              SCMContext.scopeType = "pull_request" /\ "" \notin {SCMContext[x] : x \in {"key", "base", "branch"}}
         /\ SCMContext.branch = "" => ~setup.git.inside
<1>1. DOMAIN PullRequest = {"prKey", "prBranch", "prBase"}
  BY DEF PullRequest, NoPullRequest
<1>2. Named(PullRequest) # {} => PullRequest.prKey # "" /\ PullRequest.prBranch # "" /\ PullRequest.prBase # ""
  <2>1. MissingFields(PullRequest) = {}
    BY DEF SCMRefused
  <2>2. QED
    BY <1>1, <2>1 DEF MissingFields, Named
<1>3. Named(PullRequest) # {} => SCMContext.scopeType = "pull_request" /\ SCMContext.key # "" /\ SCMContext.base # "" /\ SCMContext.branch # ""
  BY <1>2 DEF SCMContext
<1>4. SCMContext.branch = "" => ~setup.git.inside
  BY DEF SCMRefused
<1>5. QED
  BY <1>3, <1>4

LEMMA ScopeStep == ASSUME ExecutorSound, ScopeSound, [ScannerNext]_scannerVars PROVE ScopeSound'
<1>1. /\ setup' = setup /\ SCMContext' = SCMContext /\ SCMRefused' = SCMRefused /\ Named(PullRequest)' = Named(PullRequest)
  BY SetupStays
<1>2. ASSUME UNCHANGED scanned PROVE ScopeIsWhole'
  BY <1>1, <1>2 DEF ScopeSound, ScopeIsWhole
<1>3. CASE BuildReport
  <2>1. step = "analyze" /\ step' = "signals" /\ scanned' = ReportBuilt
    BY <1>3 DEF BuildReport, Then
  <2>2. scanned'.scope = SCMContext /\ ~SCMRefused
    BY <2>1 DEF ScopeSound, ReportBuilt
  <2>3. ScopeIsWhole'
    BY <1>1, <2>2, AcceptedScopeIsWhole DEF ScopeIsWhole
  <2>4. QED
    BY <2>1, <2>3 DEF ScopeSound
<1>4. CASE ResolveScope
  BY <1>1, <1>2, <1>4 DEF ResolveScope, ScopeSound, Exit, Then
<1>5. CASE ResolvePolicy
  BY <1>1, <1>2, <1>5 DEF ResolvePolicy, ScopeSound, Exit, Then
<1>6. CASE (\E i \in DOMAIN worker : Acquire(i) \/ Analyze(i) \/ Leave(i)) \/ Collect \/ Expire \/ ServerWorks \/ UNCHANGED scannerVars
  <2>1. UNCHANGED <<step, scm, scanned>>
    BY <1>6 DEF Acquire, Analyze, Leave, Collect, Expire, ServerWorks, analysisVars, resultVars, scannerVars
  <2>2. QED
    BY <1>1, <1>2, <2>1 DEF ScopeSound
<1>7. CASE ParseOptions \/ LoadCustomAnalyzers \/ SaveReport \/ ServeReport \/ Push \/ Poll
  <2>1. UNCHANGED scanned
    BY <1>7 DEF ParseOptions, LoadCustomAnalyzers, SaveReport, ServeReport, Push, Poll, resultVars
  <2>2. step' \notin {"policy", "analyze"}
    BY <1>7 DEF ParseOptions, LoadCustomAnalyzers, SaveReport, ServeReport, Push, Poll, Exit, Then
  <2>3. QED
    BY <1>2, <2>1, <2>2 DEF ScopeSound
<1>8. QED
  BY <1>3, <1>4, <1>5, <1>6, <1>7 DEF ScannerNext, ScannerSteps

LEMMA ScannerHolds == ScannerSpec => []ScannerInv
<1>1. ScannerInv /\ [ScannerNext]_scannerVars => ScannerInv'
  BY ExecutorStep, VerdictStep, ScopeStep DEF ScannerInv
<1>2. QED
  BY <1>1, ScannerInvAtFirst, PTL DEF ScannerSpec

\* Whatever the server does with the report, and whichever requests to it fail: the code 3 is the
\* verdict of a failed gate, and a run that waited for an accepted report ends well only after the
\* gate has passed (handleServerPush, waitForServerJob).
THEOREM ExitCodesTell == ScannerSpec => []ExitReflectsVerdict
<1>1. ScannerInv => ExitReflectsVerdict
  BY DEF ScannerInv, ExitSound, ExitReflectsVerdict
<1>2. QED
  BY <1>1, ScannerHolds, PTL

\* For any files, permits, flags and environments: no more files are analysed at once than there are
\* permits, no result is left in the channel of a report that is built, and a report of a pull request
\* names its key, branch and base (Executor.Run, runFile, resolveSCMContextWithInputs).
THEOREM RunsStayInBounds == ScannerSpec => [](ScannerTypeOK /\ ScopeIsWhole)
<1>1. ScannerInv => ScannerTypeOK /\ ScopeIsWhole
  BY DEF ScannerInv, ExecutorSound, InAnalysis, ExitSound, ScopeSound, ScannerTypeOK
<1>2. QED
  BY <1>1, ScannerHolds, PTL

-----------------------------------------------------------------------------
(* The results of the goroutines                                           *)

\* What the goroutine of a file sends.
ResultOf(i) == LET result == AnalyzeFile(files[i]) IN IF result.panicked THEN <<>> ELSE result.found

Finished == {i \in DOMAIN worker : worker[i] \in {"sent", "done"}}

\* A list of the elements of S without repetition, of the length n.
Lists(order, n, S) ==
    /\ order \in [1..n -> S]
    /\ \A j, k \in 1..n : order[j] = order[k] => j = k
    /\ \A i \in S : \E k \in 1..n : order[k] = i

\* The results of the first n files of a list, one after the other: the k-th sum has those of k files.
Joins(sums, order, n) ==
    sums[0] = <<>> /\ \A k \in 1..n : sums[k] = sums[k - 1] \o ResultOf(order[k])

\* The files whose goroutines have finished, in some order: the results of the first n are
\* collected, those of the rest are in the channel.
CameIn(order, n, sums) ==
    /\ n \in Nat
    /\ Lists(order, n + Len(out), Finished)
    /\ Joins(sums, order, n) /\ issues = sums[n]
    /\ \A k \in 1..Len(out) : out[k] = ResultOf(order[n + k])

ResultsSound ==
    /\ \E S : out \in Seq(S)
    /\ step \in {"parse", "load", "scope", "policy"} => out = <<>> /\ issues = <<>>
    /\ step = "analyze" => DOMAIN worker = DOMAIN files /\ \E order, sums : \E n \in Nat : CameIn(order, n, sums)

\* The issues of a report are the results of all files, each once and in one piece.
ResultsAreWhole ==
    scanned.built =>
        \E order, sums : \E n \in Nat :
            Lists(order, n, DOMAIN files) /\ Joins(sums, order, n) /\ scanned.issues = sums[n]

LEMMA ResultsStay ==
  ASSUME UNCHANGED <<analyzers, files, policy>>
  PROVE  /\ \A i : ResultOf(i)' = ResultOf(i)
         /\ \A sums, order, n : Joins(sums, order, n)' <=> Joins(sums, order, n)
<1>1. \A i : ResultOf(i)' = ResultOf(i)
  BY DEF ResultOf, AnalyzeFile, Checked, FoundNothing, Check, Applies, Finds, ActiveRule, ApplySeverity, Issue
<1>2. QED
  BY <1>1 DEF Joins

LEMMA ResultsAtFirst == ScannerInit => ResultsSound /\ ResultsAreWhole
<1> SUFFICES ASSUME ScannerInit PROVE ResultsSound /\ ResultsAreWhole
  OBVIOUS
<1>1. out \in Seq({}) /\ out = <<>> /\ issues = <<>> /\ step = "parse" /\ ~scanned.built
  BY DEF ScannerInit, NotBuilt
<1>2. QED
  BY <1>1 DEF ResultsSound, ResultsAreWhole

\* Where nothing is sent, collected or reported, and the analysis does not begin.
LEMMA ResultsOutlast ==
  ASSUME ResultsSound, ResultsAreWhole, UNCHANGED <<out, issues, scanned>>, step' # "analyze",
         scanned.built => UNCHANGED <<analyzers, files, policy>>,
         step' \in {"parse", "load", "scope", "policy"} => step \in {"parse", "load", "scope", "policy"}
  PROVE  ResultsSound' /\ ResultsAreWhole'
<1>1. ResultsSound'
  BY DEF ResultsSound
<1>2. CASE ~scanned.built
  <2>1. ~scanned'.built
    BY <1>2
  <2>2. QED
    BY <1>1, <2>1 DEF ResultsAreWhole
<1>3. CASE scanned.built
  <2>1a. PICK order, sums : \E n \in Nat : Lists(order, n, DOMAIN files) /\ Joins(sums, order, n) /\ scanned.issues = sums[n]
    BY <1>3 DEF ResultsAreWhole
  <2>1. PICK n \in Nat : Lists(order, n, DOMAIN files) /\ Joins(sums, order, n) /\ scanned.issues = sums[n]
    BY <2>1a
  <2>2. Joins(sums, order, n)' /\ files' = files /\ scanned' = scanned
    BY <1>3, <2>1, ResultsStay
  <2>3. Lists(order, n, DOMAIN files)' /\ scanned'.issues = sums[n]
    BY <2>1, <2>2
  <2>4. QED
    BY <1>1, <2>2, <2>3 DEF ResultsAreWhole
<1>4. QED
  BY <1>1, <1>2, <1>3

\* A step of the analysis that leads to the results coming in some order.
LEMMA ResultsCome ==
  ASSUME ExecutorSound, step = "analyze", UNCHANGED <<step, files, scanned>>, DOMAIN worker' = DOMAIN files,
         (\E S : out' \in Seq(S)), NEW order, NEW sums, NEW n \in Nat, CameIn(order, n, sums)'
  PROVE  ResultsSound' /\ ResultsAreWhole'
<1>1. ~scanned'.built
  BY DEF ExecutorSound
<1>2. ResultsAreWhole'
  BY <1>1 DEF ResultsAreWhole
<1>3. ResultsSound'
  BY DEF ResultsSound
<1>4. QED
  BY <1>2, <1>3

LEMMA AnalysisBegins ==
  ASSUME ExecutorSound, ResultsSound, ResolvePolicy, step' = "analyze"
  PROVE  ResultsSound' /\ ResultsAreWhole'
<1> DEFINE nothing == <<>>
           order == [k \in 1..0 |-> 0]
           sums == [k \in 0..0 |-> nothing]
<1>1. /\ worker' = [i \in DOMAIN files |-> "waiting"] /\ UNCHANGED <<files, out, issues, scanned>>
      /\ step = "policy" /\ out = nothing /\ issues = nothing
  BY DEF ResolvePolicy, ResultsSound, Exit
<1>2. Len(nothing) = 0
  OBVIOUS
<1> HIDE DEF nothing
<1>3. Finished' = {} /\ DOMAIN worker' = DOMAIN files
  BY <1>1 DEF Finished
<1>4. /\ Lists(order, 0, {}) /\ sums[0] = nothing
  BY DEF Lists
<1>5. Lists(order, 0 + Len(out), Finished)'
  <2> HIDE DEF order
  <2>1. Len(out') = 0 /\ Finished' = {}
    BY <1>1, <1>2, <1>3
  <2>2. QED
    BY <1>4, <2>1
<1> HIDE DEF order, sums
<1>6. Joins(sums, order, 0)'
  BY <1>4 DEF Joins, nothing
<1>7. issues' = sums[0] /\ \A k \in 1..Len(out') : FALSE
  BY <1>1, <1>2, <1>4
<1>8. CameIn(order, 0, sums)'
  BY <1>5, <1>6, <1>7 DEF CameIn
<1>9. ~scanned'.built
  BY <1>1 DEF ExecutorSound
<1>10. ResultsAreWhole'
  BY <1>9 DEF ResultsAreWhole
<1>11. \E S : out' \in Seq(S)
  BY <1>1 DEF ResultsSound
<1>12. \E o, s : \E n \in Nat : CameIn(o, n, s)'
  BY <1>8
<1>13. ResultsSound'
  BY <1>1, <1>3, <1>11, <1>12 DEF ResultsSound
<1>14. QED
  BY <1>10, <1>13

LEMMA ResultSent ==
  ASSUME ExecutorSound, ResultsSound, NEW i \in DOMAIN worker, Analyze(i)
  PROVE  ResultsSound' /\ ResultsAreWhole'
<1> DEFINE new == ResultOf(i)
<1>1. /\ step = "analyze" /\ worker[i] = "running" /\ worker' = [worker EXCEPT ![i] = "sent"]
      /\ out' = Append(out, new) /\ UNCHANGED <<step, analyzers, files, policy, scanned, issues>>
  BY DEF Analyze, analysisVars, ResultOf
<1>2. DOMAIN worker = DOMAIN files /\ worker = [j \in DOMAIN worker |-> worker[j]]
  BY <1>1 DEF ResultsSound, ExecutorSound
<1>3a. PICK order, sums : \E n \in Nat : CameIn(order, n, sums)
  BY <1>1 DEF ResultsSound
<1>3. PICK n \in Nat : CameIn(order, n, sums)
  BY <1>3a
<1>4. PICK S : out \in Seq(S)
  BY DEF ResultsSound
<1>0. PICK m, longer : m = n + Len(out) /\ longer = [k \in 1..(m + 1) |-> IF k = m + 1 THEN i ELSE order[k]]
  OBVIOUS
<1>5. /\ new = ResultOf(i)' /\ Joins(sums, order, n)' /\ \A j : ResultOf(j)' = ResultOf(j)
  BY <1>1, <1>3, ResultsStay DEF CameIn
<1> HIDE DEF new
<1>6. /\ out' \in Seq(S \cup {new}) /\ Len(out') = Len(out) + 1 /\ out'[Len(out) + 1] = new
      /\ \A k \in 1..Len(out) : out'[k] = out[k]
  BY <1>1, <1>4
<1>7. Finished' = Finished \cup {i} /\ i \notin Finished /\ DOMAIN worker' = DOMAIN worker
  BY <1>1, <1>2 DEF Finished
<1>8. m \in Nat /\ Lists(order, m, Finished)
  BY <1>0, <1>3, <1>4 DEF CameIn
<1>9. Lists(longer, m + 1, Finished \cup {i})
  <2>1. longer \in [1..(m + 1) -> Finished \cup {i}]
    BY <1>0, <1>8 DEF Lists
  <2>2. \A k \in 1..m : longer[k] = order[k] /\ longer[k] \in Finished
    BY <1>0, <1>8 DEF Lists
  <2>3. longer[m + 1] = i
    BY <1>0, <1>8
  <2>4. \A k \in 1..(m + 1) : k = m + 1 \/ k \in 1..m
    BY <1>8
  <2>5. ASSUME NEW j \in 1..(m + 1), NEW k \in 1..(m + 1), longer[j] = longer[k] PROVE j = k
    BY <1>7, <1>8, <2>2, <2>3, <2>4, <2>5 DEF Lists
  <2>6. ASSUME NEW x \in Finished \cup {i} PROVE \E k \in 1..(m + 1) : longer[k] = x
    <3>1. CASE x = i
      BY <1>8, <2>3, <3>1
    <3>2. CASE x \in Finished
      <4>1. PICK k \in 1..m : order[k] = x
        BY <1>8, <3>2 DEF Lists
      <4>2. k \in 1..(m + 1)
        BY <1>8
      <4>3. QED
        BY <2>2, <4>1, <4>2
    <3>3. QED
      BY <3>1, <3>2
  <2>7. QED
    BY <2>1, <2>5, <2>6 DEF Lists
<1>10. \A k \in 1..m : longer[k] = order[k]
  BY <1>0, <1>8
<1>11. longer[m + 1] = i
  BY <1>0, <1>8
<1>12. Joins(sums, longer, n)'
  <2>1. \A k \in 1..n : longer[k] = order[k]
    BY <1>0, <1>4, <1>10
  <2>2. Joins(sums, longer, n)
    <3>1. /\ sums[0] = <<>>
          /\ \A k \in 1..n : sums[k] = sums[k - 1] \o ResultOf(order[k])
      BY <1>3 DEF CameIn, Joins
    <3>2. QED
      BY <2>1, <3>1 DEF Joins
  <2>3. QED
    BY <1>1, <2>2, ResultsStay
<1>13. \A k \in 1..Len(out') : out'[k] = ResultOf(longer[n + k])'
  <2> SUFFICES ASSUME NEW k \in 1..Len(out') PROVE out'[k] = ResultOf(longer[n + k])'
    OBVIOUS
  <2> SUFFICES out'[k] = ResultOf(longer[n + k])
    BY <1>5
  <2>1. CASE k = Len(out) + 1
    <3>1. n + k = m + 1
      BY <1>0, <1>4, <2>1
    <3>2. QED
      BY <1>6, <1>11, <2>1, <3>1 DEF new
  <2>2. CASE k # Len(out) + 1
    <3>1. k \in 1..Len(out) /\ n + k \in 1..m
      BY <1>0, <1>4, <1>6, <2>2
    <3>2. QED
      BY <1>3, <1>6, <1>10, <3>1 DEF CameIn
  <2>3. QED
    BY <2>1, <2>2
<1>14. Lists(longer, n + Len(out), Finished)'
  <2>1. n + Len(out') = m + 1
    BY <1>0, <1>4, <1>6
  <2>2. Lists(longer, n + Len(out'), Finished \cup {i})
    BY <1>9, <2>1
  <2>3. Finished' = Finished \cup {i}
    BY <1>7
  <2>4. QED
    BY <2>2, <2>3
<1>15. issues' = sums[n]
  BY <1>1, <1>3 DEF CameIn
<1>16. CameIn(longer, n, sums)'
  BY <1>12, <1>13, <1>14, <1>15 DEF CameIn
<1>17. QED
  BY <1>1, <1>2, <1>6, <1>7, <1>16, ResultsCome

LEMMA ResultCollected ==
  ASSUME ExecutorSound, ResultsSound, Collect
  PROVE  ResultsSound' /\ ResultsAreWhole'
<1>1. /\ step = "analyze" /\ out # <<>> /\ issues' = issues \o Head(out) /\ out' = Tail(out)
      /\ UNCHANGED <<step, analyzers, files, policy, scanned, worker>>
  BY DEF Collect, analysisVars
<1>2. DOMAIN worker = DOMAIN files
  BY <1>1 DEF ResultsSound
<1>3a. PICK order, sums : \E n \in Nat : CameIn(order, n, sums)
  BY <1>1 DEF ResultsSound
<1>3. PICK n \in Nat : CameIn(order, n, sums)
  BY <1>3a
<1>4. PICK S : out \in Seq(S)
  BY DEF ResultsSound
<1>5. /\ out' \in Seq(S) /\ Len(out) \in Nat /\ Len(out) > 0 /\ Len(out') = Len(out) - 1 /\ Head(out) = out[1]
      /\ \A k \in 1..Len(out') : out'[k] = out[k + 1]
  BY <1>1, <1>4
<1>0. PICK last, more : /\ last = sums[n] \o ResultOf(order[n + 1])
                         /\ more = [k \in 0..(n + 1) |-> IF k = n + 1 THEN last ELSE sums[k]]
  OBVIOUS
<1>6. more[n + 1] = last /\ \A k \in 0..n : more[k] = sums[k]
  <2>1. n + 1 \in 0..(n + 1) /\ \A k \in 0..n : k \in 0..(n + 1) /\ k # n + 1
    OBVIOUS
  <2>2. QED
    BY <1>0, <2>1
<1>7. Joins(more, order, n + 1)
  <2>1. more[0] = <<>>
    BY <1>3, <1>6 DEF CameIn, Joins
  <2>2. ASSUME NEW k \in 1..(n + 1) PROVE more[k] = more[k - 1] \o ResultOf(order[k])
    <3>1. CASE k = n + 1
      <4>1. k - 1 = n /\ n \in 0..n
        BY <3>1
      <4>2. QED
        BY <1>0, <1>6, <3>1, <4>1
    <3>2. CASE k # n + 1
      <4>1. k \in 1..n /\ k \in 0..n /\ k - 1 \in 0..n
        BY <3>2
      <4>2. QED
        BY <1>3, <1>6, <4>1 DEF CameIn, Joins
    <3>3. QED
      BY <3>1, <3>2
  <2>3. QED
    BY <2>1, <2>2 DEF Joins
<1>8. Joins(more, order, n + 1)' /\ \A j : ResultOf(j)' = ResultOf(j)
  BY <1>1, <1>7, ResultsStay
<1>9. issues' = more[n + 1]
  <2>1. out[1] = ResultOf(order[n + 1]) /\ issues = sums[n]
    BY <1>3, <1>5 DEF CameIn
  <2>2. QED
    BY <1>0, <1>1, <1>5, <1>6, <2>1
<1>10. \A k \in 1..Len(out') : out'[k] = ResultOf(order[(n + 1) + k])'
  <2> SUFFICES ASSUME NEW k \in 1..Len(out') PROVE out'[k] = ResultOf(order[(n + 1) + k])
    BY <1>8
  <2>1. k + 1 \in 1..Len(out) /\ n + (k + 1) = (n + 1) + k
    BY <1>5
  <2>2. out[k + 1] = ResultOf(order[n + (k + 1)])
    BY <1>3, <2>1 DEF CameIn
  <2>3. QED
    BY <1>5, <2>1, <2>2
<1>11. Lists(order, (n + 1) + Len(out), Finished)'
  <2>1. (n + 1) + Len(out') = n + Len(out) /\ Finished' = Finished
    BY <1>1, <1>5 DEF Finished
  <2>2. QED
    BY <1>3, <2>1 DEF CameIn
<1>12. n + 1 \in Nat
  OBVIOUS
<1>13. CameIn(order, n + 1, more)'
  BY <1>8, <1>9, <1>10, <1>11, <1>12 DEF CameIn
<1>14. QED
  BY <1>1, <1>2, <1>5, <1>12, <1>13, ResultsCome

\* A goroutine that starts or leaves sends nothing.
LEMMA GoroutineMoves ==
  ASSUME ExecutorSound, ResultsSound, NEW i \in DOMAIN worker, Acquire(i) \/ Leave(i)
  PROVE  ResultsSound' /\ ResultsAreWhole'
<1>1. step = "analyze" /\ UNCHANGED <<step, analyzers, files, policy, scanned, out, issues>>
  BY DEF Acquire, Leave, analysisVars
<1>2. DOMAIN worker' = DOMAIN worker /\ Finished' = Finished
  BY DEF Acquire, Leave, Finished, ExecutorSound
<1>3. DOMAIN worker = DOMAIN files
  BY <1>1 DEF ResultsSound
<1>4a. PICK order, sums : \E n \in Nat : CameIn(order, n, sums)
  BY <1>1 DEF ResultsSound
<1>4. PICK n \in Nat : CameIn(order, n, sums)
  BY <1>4a
<1>5. Joins(sums, order, n)' /\ \A j : ResultOf(j)' = ResultOf(j)
  BY <1>1, <1>4, ResultsStay DEF CameIn
<1>6. CameIn(order, n, sums)'
  BY <1>1, <1>2, <1>4, <1>5 DEF CameIn
<1>7. \E S : out' \in Seq(S)
  BY <1>1 DEF ResultsSound
<1>8. QED
  BY <1>1, <1>2, <1>3, <1>6, <1>7, ResultsCome

\* When everyone in the group is done and the channel is empty, the results of all files are collected.
LEMMA ReportIsOfAll ==
  ASSUME ExecutorSound, ResultsSound, BuildReport
  PROVE  ResultsSound' /\ ResultsAreWhole'
<1>1. /\ step = "analyze" /\ out = <<>> /\ \A i \in DOMAIN worker : InGroup(i) => worker[i] = "done"
      /\ scanned'.issues = issues /\ step' = "signals" /\ UNCHANGED <<analyzers, files, policy, out, issues, worker>>
  BY DEF BuildReport, ReportBuilt, Then
<1>2. DOMAIN worker = DOMAIN files
  BY <1>1 DEF ResultsSound
<1>3. Finished = DOMAIN files
  BY <1>1, <1>2 DEF Finished, InGroup
<1>4a. PICK order, sums : \E n \in Nat : CameIn(order, n, sums)
  BY <1>1 DEF ResultsSound
<1>4. PICK n \in Nat : CameIn(order, n, sums)
  BY <1>4a
<1>5. Lists(order, n, DOMAIN files) /\ issues = sums[n]
  <2>1. n + Len(out) = n
    BY <1>1
  <2>2. QED
    BY <1>3, <1>4, <2>1 DEF CameIn
<1>6. Joins(sums, order, n)'
  BY <1>1, <1>4, ResultsStay DEF CameIn
<1>7. ResultsAreWhole'
  BY <1>1, <1>5, <1>6 DEF ResultsAreWhole
<1>8. ResultsSound'
  BY <1>1 DEF ResultsSound
<1>9. QED
  BY <1>7, <1>8

LEMMA ResultsStep ==
  ASSUME ExecutorSound, ResultsSound, ResultsAreWhole, [ScannerNext]_scannerVars
  PROVE  ResultsSound' /\ ResultsAreWhole'
<1> DEFINE Early == {"parse", "load", "scope", "policy"}
<1>1. scanned.built => step \notin Early \cup {"analyze"}
  BY DEF ExecutorSound
<1>2. CASE ParseOptions \/ LoadCustomAnalyzers \/ ResolveScope
  <2>1. step \in Early /\ step' # "analyze" /\ UNCHANGED <<out, issues, scanned>>
    BY <1>2 DEF ParseOptions, LoadCustomAnalyzers, ResolveScope, resultVars, Exit, Then
  <2>2. QED
    BY <1>1, <2>1, ResultsOutlast
<1>3. CASE ResolvePolicy
  <2>1. CASE step' = "analyze"
    BY <1>3, <2>1, AnalysisBegins
  <2>2. CASE step' # "analyze"
    <3>1. step \in Early /\ UNCHANGED <<out, issues, scanned>>
      BY <1>3 DEF ResolvePolicy
    <3>2. QED
      BY <1>1, <2>2, <3>1, ResultsOutlast
  <2>3. QED
    BY <2>1, <2>2
<1>4. ASSUME NEW i \in DOMAIN worker, Acquire(i) \/ Analyze(i) \/ Leave(i) PROVE ResultsSound' /\ ResultsAreWhole'
  BY <1>4, ResultSent, GoroutineMoves
<1>5. CASE Collect \/ BuildReport
  BY <1>5, ResultCollected, ReportIsOfAll
<1>6. CASE SaveReport \/ ServeReport \/ Push \/ Poll
  <2>1. step' \notin Early \cup {"analyze"} /\ UNCHANGED <<analyzers, files, policy, out, issues, scanned>>
    BY <1>6 DEF SaveReport, ServeReport, Push, Poll, resultVars, Exit, Then
  <2>2. QED
    BY <2>1, ResultsOutlast
<1>7. CASE Expire \/ ServerWorks \/ UNCHANGED scannerVars
  <2>1. UNCHANGED <<step, analyzers, files, policy, worker, out, issues, scanned>>
    BY <1>7 DEF Expire, ServerWorks, resultVars, scannerVars
  <2>2. CASE step # "analyze"
    BY <2>1, <2>2, ResultsOutlast
  <2>3. CASE step = "analyze"
    <3>1a. PICK order, sums : \E n \in Nat : CameIn(order, n, sums)
      BY <2>3 DEF ResultsSound
    <3>1. PICK n \in Nat : CameIn(order, n, sums)
      BY <3>1a
    <3>2. Joins(sums, order, n)' /\ \A j : ResultOf(j)' = ResultOf(j)
      BY <2>1, <3>1, ResultsStay DEF CameIn
    <3>3. Finished' = Finished
      BY <2>1 DEF Finished
    <3>4. CameIn(order, n, sums)'
      BY <2>1, <3>1, <3>2, <3>3 DEF CameIn
    <3>5. DOMAIN worker' = DOMAIN files /\ \E S : out' \in Seq(S)
      BY <2>1, <2>3 DEF ResultsSound
    <3>6. QED
      BY <2>1, <2>3, <3>4, <3>5, ResultsCome
  <2>4. QED
    BY <2>2, <2>3
<1>8. QED
  BY <1>2, <1>3, <1>4, <1>5, <1>6, <1>7 DEF ScannerNext, ScannerSteps

\* For any files and permits and in whichever order goroutines run, panic and are collected, the issues
\* of a report are the results of all files, each once and in one piece (Executor.Run, runFile).
THEOREM ResultsAreCollectedOnce == ScannerSpec => []ResultsAreWhole
<1>1. ScannerInv => ExecutorSound
  BY DEF ScannerInv
<1>2. ExecutorSound /\ ResultsSound /\ ResultsAreWhole /\ [ScannerNext]_scannerVars => (ResultsSound /\ ResultsAreWhole)'
  BY ResultsStep
<1>3. QED
  BY <1>1, <1>2, ScannerHolds, ResultsAtFirst, PTL DEF ScannerSpec

-----------------------------------------------------------------------------
(* Runs of the scanner: the files                                          *)

\* The files of a list have paths of their own.
OwnNames(list) == \A i, j \in DOMAIN list : list[i].name = list[j].name => i = j

\* The files of the tree, and the lists a walk may have found.
TreeFiles == ToSet(setup.tree)
FileLists == {list \in Seq(TreeFiles) : OwnNames(list)}

\* A list without repetition is as long as the set of its elements.
LEMMA LengthOfList ==
  ASSUME NEW S, NEW list \in Seq(S), \A i, j \in DOMAIN list : list[i] = list[j] => i = j
  PROVE  Cardinality(ToSet(list)) = Len(list)
<1> DEFINE T == ToSet(list)
           f == [k \in 1..Len(list) |-> list[k]]
<1>1. Len(list) \in Nat /\ DOMAIN list = 1..Len(list) /\ T = {list[k] : k \in 1..Len(list)}
  BY DEF ToSet
<1>2. IsFiniteSet(1..Len(list)) /\ Cardinality(1..Len(list)) = Len(list)
  BY <1>1, FS_Interval
<1>3. /\ f \in [1..Len(list) -> T] /\ \A t \in T : \E k \in 1..Len(list) : f[k] = t
      /\ \A j, k \in 1..Len(list) : f[j] = f[k] => j = k
  BY <1>1
<1> HIDE DEF T, f
<1>4. Cardinality(T) = Cardinality(1..Len(list))
  BY <1>2, <1>3, SameSize
<1>5. QED
  BY <1>2, <1>4 DEF T

LEMMA SetupIsSound ==
  ASSUME setup \in Setups
  PROVE  /\ setup.tree \in Seq(TreeFiles) /\ Len(setup.tree) \in Nat /\ OwnNames(setup.tree)
         /\ \A f, g \in TreeFiles : f.name = g.name => f = g
         /\ Options.roots \in Seq(ToSet(Options.roots)) /\ Len(Options.roots) \in Nat
<1>1. setup.tree \in Seq(TreeFiles) /\ OwnNames(setup.tree) /\ Options.roots \in Seq(ToSet(Options.roots))
  BY SetupAssumption DEF IsList, TreeFiles, OwnNames, Options
<1>2. \A f, g \in TreeFiles : f.name = g.name => f = g
  BY <1>1 DEF TreeFiles, OwnNames, ToSet
<1>3. QED
  BY <1>1, <1>2

\* What a walk from a root takes, of those not seen before.
LEMMA TakenUnlessSeen ==
  ASSUME NEW root, NEW f, NEW seen
  PROVE  Taken(root, f, seen) <=> Taken(root, f, {}) /\ f.name \notin seen
BY DEF Taken

WalkOne(root, before, f) == IF Taken(root, f, {g.name : g \in ToSet(before)}) THEN Append(before, f) ELSE before

LEMMA WalkOneTakes ==
  ASSUME setup \in Setups, NEW root, NEW before \in FileLists, NEW f \in TreeFiles
  PROVE  /\ WalkOne(root, before, f) \in FileLists
         /\ ToSet(WalkOne(root, before, f)) = ToSet(before) \cup {g \in {f} : Taken(root, g, {})}
<1>1. \A g, h \in TreeFiles : g.name = h.name => g = h
  BY SetupIsSound
<1>2. /\ before \in Seq(TreeFiles) /\ OwnNames(before) /\ DOMAIN before = 1..Len(before) /\ Len(before) \in Nat
      /\ ToSet(before) = {before[k] : k \in 1..Len(before)} /\ ToSet(before) \subseteq TreeFiles
  BY DEF FileLists, ToSet
<1> DEFINE names == {g.name : g \in ToSet(before)}
           longer == Append(before, f)
<1>3. CASE Taken(root, f, names)
  <2>1. WalkOne(root, before, f) = longer /\ f.name \notin names /\ Taken(root, f, {})
    BY <1>3, TakenUnlessSeen DEF WalkOne
  <2>2. /\ longer \in Seq(TreeFiles) /\ Len(longer) = Len(before) + 1 /\ DOMAIN longer = 1..(Len(before) + 1)
        /\ longer[Len(before) + 1] = f /\ \A k \in 1..Len(before) : longer[k] = before[k]
    BY <1>2
  <2>3. \A k \in 1..Len(before) : before[k].name # f.name
    BY <1>2, <2>1
  <2> HIDE DEF longer, names
  <2>4. OwnNames(longer)
    <3> SUFFICES ASSUME NEW i \in 1..(Len(before) + 1), NEW j \in 1..(Len(before) + 1), longer[i].name = longer[j].name
                 PROVE  i = j
      BY <2>2 DEF OwnNames
    <3>1. \A k \in 1..(Len(before) + 1) : k = Len(before) + 1 \/ k \in 1..Len(before)
      BY <1>2
    <3>2. CASE i \in 1..Len(before) /\ j \in 1..Len(before)
      BY <1>2, <2>2, <3>2 DEF OwnNames
    <3>3. CASE i \in 1..Len(before) /\ j = Len(before) + 1
      BY <2>2, <2>3, <3>3
    <3>4. CASE j \in 1..Len(before) /\ i = Len(before) + 1
      BY <2>2, <2>3, <3>4
    <3>5. QED
      BY <3>1, <3>2, <3>3, <3>4
  <2>5. ToSet(longer) = ToSet(before) \cup {f}
    <3>1. ToSet(longer) = {longer[k] : k \in 1..(Len(before) + 1)}
      BY <2>2 DEF ToSet
    <3>2. \A k \in 1..(Len(before) + 1) : longer[k] \in ToSet(before) \cup {f}
      BY <1>2, <2>2
    <3>3. f \in ToSet(longer)
      BY <1>2, <2>2, <3>1
    <3>4. \A k \in 1..Len(before) : before[k] \in ToSet(longer)
      BY <1>2, <2>2, <3>1
    <3>5. QED
      BY <1>2, <3>1, <3>2, <3>3, <3>4
  <2>6. {g \in {f} : Taken(root, g, {})} = {f}
    BY <2>1
  <2>7. QED
    BY <2>1, <2>2, <2>4, <2>5, <2>6 DEF FileLists
<1>4. CASE ~Taken(root, f, names)
  <2>1. WalkOne(root, before, f) = before /\ (f.name \in names \/ ~Taken(root, f, {}))
    BY <1>4, TakenUnlessSeen DEF WalkOne
  <2>2. f.name \in names => f \in ToSet(before)
    BY <1>1, <1>2
  <2>3. {g \in {f} : Taken(root, g, {})} \subseteq ToSet(before)
    BY <2>1, <2>2
  <2>4. QED
    BY <2>1, <2>3
<1>5. QED
  BY <1>3, <1>4

\* The walk from a root takes its files that were not seen, each once.
LEMMA WalkTakes ==
  ASSUME setup \in Setups, NEW root, NEW found \in FileLists
  PROVE  /\ WalkRoot(found, root) \in FileLists
         /\ ToSet(WalkRoot(found, root)) = ToSet(found) \cup {f \in TreeFiles : Taken(root, f, {})}
<1> DEFINE T == setup.tree
           n == Len(T)
           Body(w) == [m \in 0..n |-> IF m = 0 THEN found ELSE WalkOne(root, w[m - 1], T[m])]
           walked == CHOOSE w : w = Body(w)
           table == [m \in 1..n |-> [x \in FileLists |-> WalkOne(root, x, T[m])]]
<1>1. /\ n \in Nat /\ DOMAIN T = 1..n /\ \A m \in 1..n : T[m] \in TreeFiles
      /\ TreeFiles = {T[m] : m \in 1..n}
  <2>1. T \in Seq(TreeFiles) /\ n \in Nat /\ TreeFiles = {T[m] : m \in DOMAIN T}
    BY SetupIsSound DEF TreeFiles, ToSet
  <2>2. QED
    BY <2>1
<1>2. WalkRoot(found, root) = walked[n]
  BY DEF WalkRoot, WalkOne
<1>3. \A m \in 1..n, x \in FileLists : /\ table[m][x] = WalkOne(root, x, T[m]) /\ table[m][x] \in FileLists
                                        /\ ToSet(table[m][x]) = ToSet(x) \cup {g \in {T[m]} : Taken(root, g, {})}
  <2>1. ASSUME NEW m \in 1..n, NEW x \in FileLists PROVE table[m][x] = WalkOne(root, x, T[m]) /\ T[m] \in TreeFiles
    BY <1>1
  <2> HIDE DEF table, T, n
  <2>2. QED
    BY <2>1, WalkOneTakes
<1> HIDE DEF n, table
<1>4. PICK w : Solves(w, n, FileLists, found, table)
  BY <1>1, <1>3, RecursionExists
<1>5. w = Body(w)
  <2>1. \A m \in 1..n : w[m] = table[m][w[m - 1]] /\ w[m - 1] \in FileLists
    BY <1>1, <1>4 DEF Solves
  <2>2. \A m \in 1..n : w[m] = WalkOne(root, w[m - 1], T[m])
    BY <1>3, <2>1
  <2>3. \A m \in 0..n : w[m] = IF m = 0 THEN found ELSE WalkOne(root, w[m - 1], T[m])
    BY <1>1, <1>4, <2>2 DEF Solves
  <2>4. w \in [0..n -> FileLists]
    BY <1>4 DEF Solves
  <2>5. QED
    BY <2>3, <2>4
<1>6. walked = Body(walked)
  <2> HIDE DEF Body
  <2>1. QED
    BY <1>5
<1> HIDE DEF walked
<1>7. walked[0] = found /\ \A m \in 1..n : walked[m] = WalkOne(root, walked[m - 1], T[m])
  <2>1. \A m \in 0..n : walked[m] = IF m = 0 THEN found ELSE WalkOne(root, walked[m - 1], T[m])
    BY <1>6
  <2>2. 0 \in 0..n /\ \A m \in 1..n : m \in 0..n /\ m # 0
    BY <1>1
  <2>3. QED
    BY <2>1, <2>2
<1> HIDE DEF Body, T
<1> DEFINE good == {m \in 0..n : /\ walked[m] \in FileLists
                                 /\ ToSet(walked[m]) = ToSet(found) \cup {f \in {T[k] : k \in 1..m} : Taken(root, f, {})}}
<1>8. 0 \in good
  <2>1. 0 \in 0..n /\ {f \in {T[k] : k \in 1..0} : Taken(root, f, {})} = {}
    BY <1>1
  <2>2. QED
    BY <1>7, <2>1
<1>9. ASSUME NEW m \in 1..n, m - 1 \in good PROVE m \in good
  <2>1a. m \in 0..n /\ walked[m - 1] \in FileLists
    BY <1>1, <1>9
  <2>1b. walked[m] = WalkOne(root, walked[m - 1], T[m])
    BY <1>7
  <2>1c. table[m][walked[m - 1]] = WalkOne(root, walked[m - 1], T[m])
    <3> HIDE DEF good
    <3>1. QED
      BY <1>3, <2>1a
  <2>1. m \in 0..n /\ walked[m - 1] \in FileLists /\ walked[m] = table[m][walked[m - 1]]
    BY <2>1a, <2>1b, <2>1c
  <2>2. /\ walked[m] \in FileLists
        /\ ToSet(walked[m]) = ToSet(walked[m - 1]) \cup {g \in {T[m]} : Taken(root, g, {})}
    BY <1>3, <2>1
  <2>3. {T[k] : k \in 1..m} = {T[k] : k \in 1..(m - 1)} \cup {T[m]}
    <3>1. \A k \in Int : k \in 1..m <=> k \in 1..(m - 1) \/ k = m
      BY <1>1
    <3>2. QED
      BY <3>1
  <2>4. ToSet(walked[m - 1]) = ToSet(found) \cup {f \in {T[k] : k \in 1..(m - 1)} : Taken(root, f, {})}
    BY <1>9
  <2>5. ToSet(walked[m]) = ToSet(found) \cup {f \in {T[k] : k \in 1..m} : Taken(root, f, {})}
    BY <2>2, <2>3, <2>4
  <2>6. QED
    BY <2>1, <2>2, <2>5
<1>10. n \in good
  <2>1. 0..n \subseteq good
    <3> HIDE DEF good
    <3>1. QED
      BY <1>1, <1>8, <1>9, Counting
  <2>2. QED
    BY <1>1, <2>1
<1>11. QED
  BY <1>1, <1>2, <1>10

\* Discover finds every eligible file once.
LEMMA DiscoverFinds ==
  ASSUME setup \in Setups
  PROVE  Discovered \in FileLists /\ ToSet(Discovered) = Eligible
<1> DEFINE R == Options.roots
           n == Len(R)
           nothing == <<>>
           Body(w) == [m \in 0..n |-> IF m = 0 THEN nothing ELSE WalkRoot(w[m - 1], R[m])]
           found == CHOOSE w : w = Body(w)
           table == [m \in 1..n |-> [x \in FileLists |-> WalkRoot(x, R[m])]]
           From(m) == {f \in TreeFiles : \E k \in 1..m : Taken(R[k], f, {})}
<1>1. n \in Nat /\ DOMAIN R = 1..n
  BY SetupIsSound
<1>2. nothing \in FileLists /\ ToSet(nothing) = {}
  BY DEF FileLists, OwnNames, ToSet
<1>3. Discovered = found[n]
  BY DEF Discovered
<1>4. \A m \in 1..n, x \in FileLists :
        /\ table[m][x] = WalkRoot(x, R[m]) /\ table[m][x] \in FileLists
        /\ ToSet(table[m][x]) = ToSet(x) \cup {f \in TreeFiles : Taken(R[m], f, {})}
  <2>1. ASSUME NEW m \in 1..n, NEW x \in FileLists PROVE table[m][x] = WalkRoot(x, R[m])
    BY <1>1
  <2> HIDE DEF table, R, n
  <2>2. QED
    BY <2>1, WalkTakes
<1> HIDE DEF n, table, nothing
<1>5. PICK w : Solves(w, n, FileLists, nothing, table)
  BY <1>1, <1>2, <1>4, RecursionExists
<1>6. w = Body(w)
  <2>1. \A m \in 1..n : w[m] = table[m][w[m - 1]] /\ w[m - 1] \in FileLists
    BY <1>1, <1>5 DEF Solves
  <2>2. \A m \in 1..n : w[m] = WalkRoot(w[m - 1], R[m])
    BY <1>4, <2>1
  <2>3. \A m \in 0..n : w[m] = IF m = 0 THEN nothing ELSE WalkRoot(w[m - 1], R[m])
    BY <1>1, <1>5, <2>2 DEF Solves
  <2>4. w \in [0..n -> FileLists]
    BY <1>5 DEF Solves
  <2>5. QED
    BY <2>3, <2>4
<1>7. found = Body(found)
  <2> HIDE DEF Body
  <2>1. QED
    BY <1>6
<1> HIDE DEF found
<1>8. found[0] = nothing /\ \A m \in 1..n : found[m] = WalkRoot(found[m - 1], R[m])
  <2>1. \A m \in 0..n : found[m] = IF m = 0 THEN nothing ELSE WalkRoot(found[m - 1], R[m])
    BY <1>7
  <2>2. 0 \in 0..n /\ \A m \in 1..n : m \in 0..n /\ m # 0
    BY <1>1
  <2>3. QED
    BY <2>1, <2>2
<1> HIDE DEF Body
<1> DEFINE good == {m \in 0..n : found[m] \in FileLists /\ ToSet(found[m]) = From(m)}
<1>9. 0 \in good
  <2>1. From(0) = {} /\ 0 \in 0..n
    BY <1>1
  <2>2. QED
    BY <1>2, <1>8, <2>1
<1>10. ASSUME NEW m \in 1..n, m - 1 \in good PROVE m \in good
  <2>1. m \in 0..n /\ found[m - 1] \in FileLists /\ found[m] = table[m][found[m - 1]]
    BY <1>1, <1>4, <1>8, <1>10
  <2>2. /\ found[m] \in FileLists
        /\ ToSet(found[m]) = ToSet(found[m - 1]) \cup {f \in TreeFiles : Taken(R[m], f, {})}
    BY <1>4, <2>1
  <2>3. From(m) = From(m - 1) \cup {f \in TreeFiles : Taken(R[m], f, {})}
    <3>1. \A k \in Int : k \in 1..m <=> k \in 1..(m - 1) \/ k = m
      BY <1>1
    <3>2. QED
      BY <3>1
  <2>4. ToSet(found[m - 1]) = From(m - 1)
    BY <1>10
  <2> HIDE DEF From
  <2>5. QED
    BY <2>1, <2>2, <2>3, <2>4
<1>11. n \in good
  <2> HIDE DEF good, From
  <2>1. 0..n \subseteq good
    BY <1>1, <1>9, <1>10, Counting
  <2>2. n \in 0..n
    BY <1>1
  <2>3. QED
    BY <2>1, <2>2
<1>12. From(n) = Eligible
  BY <1>1 DEF Eligible, TreeFiles, ToSet
<1> HIDE DEF From
<1>13. QED
  BY <1>3, <1>11, <1>12

-----------------------------------------------------------------------------
(* Runs of the scanner: the analyzers                                      *)

OwnKeys(list) == \A i, j \in DOMAIN list : list[i].key = list[j].key => i = j

LEMMA SetOfListIsFinite ==
  ASSUME NEW S, NEW list \in Seq(S)
  PROVE  IsFiniteSet(ToSet(list))
<1> DEFINE n == Len(list)
           f == [k \in 1..n |-> list[k]]
<1>1. n \in Nat /\ ToSet(list) = {list[k] : k \in 1..n}
  BY DEF ToSet
<1>2. IsFiniteSet(1..n)
  <2>1. 1 \in Int /\ n \in Int
    BY <1>1
  <2> HIDE DEF n
  <2>2. QED
    BY <2>1, FS_Interval
<1>3. f \in Surjection(1..n, ToSet(list))
  BY <1>1 DEF Surjection
<1>4. QED
  BY <1>2, <1>3, FS_Surjection

LEMMA CustomRulesAreFinite ==
  ASSUME setup \in Setups, NEW S, NEW catalog \in Seq(S)
  PROVE  IsFiniteSet(CustomRules(catalog))
<1> DEFINE packs == [p \in DOMAIN setup.packs |-> setup.packs[p].rules]
           lists == RuleLists(catalog)
           A == {catalog} \cup {p.rules : p \in ToSet(setup.packs)}
<1>1. /\ setup.packs \in Seq(ToSet(setup.packs))
      /\ \A p \in ToSet(setup.packs) : p.rules \in Seq(ToSet(p.rules))
  BY SetupAssumption DEF IsList
<1>2. packs \in Seq(A)
  BY <1>1 DEF ToSet
<1>3. lists \in Seq(A) /\ ToSet(lists) \subseteq A
  <2>1. <<catalog>> \in Seq(A)
    OBVIOUS
  <2>2. lists \in Seq(A)
    BY <1>2, <2>1 DEF RuleLists
  <2> HIDE DEF A, lists
  <2>3. QED
    BY <2>2 DEF ToSet
<1>4. \A list \in A : IsFiniteSet(ToSet(list))
  BY <1>1, SetOfListIsFinite
<1> DEFINE sets == {ToSet(list) : list \in ToSet(lists)}
           f == [list \in ToSet(lists) |-> ToSet(list)]
<1>5. IsFiniteSet(ToSet(lists))
  <2> HIDE DEF A, lists
  <2>1. QED
    BY <1>3, SetOfListIsFinite
<1> HIDE DEF A, lists
<1>6. f \in Surjection(ToSet(lists), sets)
  BY DEF Surjection
<1>7. IsFiniteSet(sets)
  BY <1>5, <1>6, FS_Surjection
<1>8. \A s \in sets : IsFiniteSet(s)
  BY <1>3, <1>4
<1>9. CustomRules(catalog) = UNION sets
  BY DEF CustomRules, lists
<1> HIDE DEF sets
<1>10. QED
  BY <1>7, <1>8, <1>9, FS_UNION

\* Custom rules that are not refused have keys of their own.
LEMMA CustomKeysAreOwn ==
  ASSUME NEW catalog, ~KeySeenTwice(catalog)
  PROVE  \A r, s \in CustomRules(catalog) : r.key = s.key => r = s
<1> SUFFICES ASSUME NEW r \in CustomRules(catalog), NEW s \in CustomRules(catalog), r.key = s.key PROVE r = s
  OBVIOUS
<1> DEFINE lists == RuleLists(catalog)
<1>1. PICK i \in DOMAIN lists : r \in ToSet(lists[i])
  BY DEF CustomRules, ToSet
<1>2. PICK j \in DOMAIN lists : s \in ToSet(lists[j])
  BY DEF CustomRules, ToSet
<1>3. PICK m \in DOMAIN lists[i] : lists[i][m] = r
  BY <1>1 DEF ToSet
<1>4. PICK n \in DOMAIN lists[j] : lists[j][n] = s
  BY <1>2 DEF ToSet
<1>5. <<i, m>> = <<j, n>>
  BY <1>3, <1>4 DEF KeySeenTwice
<1>6. QED
  BY <1>3, <1>4, <1>5

\* The analyzers are a list, with keys of their own.
LEMMA AnalyzersHaveKeys ==
  ASSUME setup \in Setups, LoadCustomAnalyzers, step' = "scope"
  PROVE  OwnKeys(analyzers') /\ \E S : analyzers' \in Seq(S)
<1>1. PICK catalog \in {setup.catalog, <<>>} :
        /\ ~RulesRefused(catalog)
        /\ \E custom \in SetToSeqs(CustomRules(catalog)) : analyzers' = setup.bundled \o custom
  BY DEF LoadCustomAnalyzers, Exit, Then
<1>2. PICK custom \in SetToSeqs(CustomRules(catalog)) : analyzers' = setup.bundled \o custom
  BY <1>1
<1> DEFINE C == CustomRules(catalog)
           B == ToSet(setup.bundled)
           c == Cardinality(C)
           b == Len(setup.bundled)
<1>3. setup.bundled \in Seq(B) /\ b \in Nat /\ DOMAIN setup.bundled = 1..b /\ OwnKeys(setup.bundled)
  BY SetupAssumption DEF IsList, OwnKeys
<1>4. IsFiniteSet(C) /\ c \in Nat
  <2>1. setup.catalog \in Seq(ToSet(setup.catalog)) /\ <<>> \in Seq(ToSet(setup.catalog))
    BY SetupAssumption DEF IsList
  <2>2. catalog \in Seq(ToSet(setup.catalog))
    BY <2>1
  <2>3. QED
    BY <2>2, CustomRulesAreFinite, FS_CardinalityType
<1>5. custom \in [1..c -> C] /\ \A i, j \in 1..c : i # j => custom[i] # custom[j]
  BY <1>2 DEF SetToSeqs
<1>6. /\ \A r, s \in C : r.key = s.key => r = s
      /\ \A r \in C, s \in B : r.key # s.key
  <2>1. ~KeySeenTwice(catalog) /\ {r.key : r \in C} \cap {r.key : r \in B} = {}
    BY <1>1 DEF RulesRefused, Keys
  <2>2. \A r, s \in C : r.key = s.key => r = s
    BY <2>1, CustomKeysAreOwn
  <2> HIDE DEF C, B
  <2>3. QED
    BY <2>1, <2>2
<1> DEFINE all == setup.bundled \o custom
<1>7. setup.bundled \in Seq(B \cup C) /\ custom \in Seq(B \cup C) /\ Len(custom) = c
  <2> HIDE DEF B, C, c
  <2>1. QED
    BY <1>3, <1>4, <1>5
<1>8. /\ all \in Seq(B \cup C) /\ DOMAIN all = 1..(b + c)
      /\ \A k \in 1..b : all[k] = setup.bundled[k] /\ all[k] \in B
      /\ \A k \in (b + 1)..(b + c) : all[k] = custom[k - b] /\ k - b \in 1..c /\ all[k] \in C
  <2>1. \A k \in 1..b : setup.bundled[k] \in B
    BY <1>3 DEF ToSet
  <2> HIDE DEF B, C, c
  <2>2. QED
    BY <1>3, <1>4, <1>5, <1>7, <2>1
<1> HIDE DEF B, C, c, b, all
<1>9. OwnKeys(all)
  <2> SUFFICES ASSUME NEW i \in 1..(b + c), NEW j \in 1..(b + c), all[i].key = all[j].key PROVE i = j
    BY <1>8 DEF OwnKeys
  <2>1. \A k \in 1..(b + c) : k \in 1..b \/ k \in (b + 1)..(b + c)
    BY <1>3, <1>4
  <2>2. CASE i \in 1..b /\ j \in 1..b
    BY <1>3, <1>8, <2>2 DEF OwnKeys
  <2>3. CASE i \in (b + 1)..(b + c) /\ j \in (b + 1)..(b + c)
    <3>1. custom[i - b] = custom[j - b] /\ i - b \in 1..c /\ j - b \in 1..c
      BY <1>6, <1>8, <2>3
    <3>2. i - b = j - b
      BY <1>5, <3>1
    <3>3. QED
      BY <1>3, <3>2
  <2>4. CASE i \in 1..b /\ j \in (b + 1)..(b + c)
    BY <1>6, <1>8, <2>4
  <2>5. CASE j \in 1..b /\ i \in (b + 1)..(b + c)
    BY <1>6, <1>8, <2>5
  <2>6. QED
    BY <2>1, <2>2, <2>3, <2>4, <2>5
<1>10. analyzers' = all
  BY <1>2 DEF all
<1>11. \E S : all \in Seq(S)
  BY <1>8
<1>12. QED
  BY <1>9, <1>10, <1>11 DEF OwnKeys

-----------------------------------------------------------------------------
(* Runs of the scanner: the issues of a file                               *)

\* The issues of two lists are those of both.
LEMMA IssuesOfBoth ==
  ASSUME NEW S, NEW s \in Seq(S), NEW t \in Seq(S), NEW name, NEW key
  PROVE  /\ Cardinality(Of(s, name, key)) \in Nat /\ Cardinality(Of(t, name, key)) \in Nat
         /\ Cardinality(Of(s \o t, name, key)) = Cardinality(Of(s, name, key)) + Cardinality(Of(t, name, key))
<1> DEFINE both == s \o t
           A == Of(s, name, key)
           B == Of(t, name, key)
           moved == {k \in (Len(s) + 1)..(Len(s) + Len(t)) : k - Len(s) \in B}
           f == [k \in B |-> Len(s) + k]
<1>1. /\ Len(s) \in Nat /\ DOMAIN s = 1..Len(s) /\ Len(t) \in Nat /\ DOMAIN t = 1..Len(t)
      /\ DOMAIN both = 1..(Len(s) + Len(t))
      /\ \A k \in 1..Len(s) : both[k] = s[k]
      /\ \A k \in (Len(s) + 1)..(Len(s) + Len(t)) : both[k] = t[k - Len(s)] /\ k - Len(s) \in 1..Len(t)
  OBVIOUS
<1>2. A \subseteq 1..Len(s) /\ B \subseteq 1..Len(t)
  BY <1>1 DEF Of
<1>3. IsFiniteSet(A) /\ IsFiniteSet(B) /\ Cardinality(A) \in Nat /\ Cardinality(B) \in Nat
  <2>1. IsFiniteSet(1..Len(s)) /\ IsFiniteSet(1..Len(t))
    BY <1>1, FS_Interval
  <2> HIDE DEF A, B
  <2>2. QED
    BY <1>2, <2>1, FS_Subset, FS_CardinalityType
<1>4. Of(both, name, key) = A \cup moved
  <2>1. ASSUME NEW k \in 1..(Len(s) + Len(t)) PROVE k \in Of(both, name, key) <=> k \in A \cup moved
    <3>1. k \in 1..Len(s) \/ k \in (Len(s) + 1)..(Len(s) + Len(t))
      BY <1>1
    <3>2. CASE k \in 1..Len(s)
      <4>1. k \in Of(both, name, key) <=> k \in A
        BY <1>1, <3>2 DEF Of
      <4>2. k \notin moved
        BY <1>1, <3>2
      <4>3. QED
        BY <4>1, <4>2
    <3>3. CASE k \in (Len(s) + 1)..(Len(s) + Len(t))
      <4>1. k \in Of(both, name, key) <=> k - Len(s) \in B
        BY <1>1, <3>3 DEF Of
      <4>2. k \notin A
        BY <1>1, <1>2, <3>3
      <4>3. QED
        BY <3>3, <4>1, <4>2
    <3>4. QED
      BY <3>1, <3>2, <3>3
  <2>2. Of(both, name, key) \subseteq 1..(Len(s) + Len(t))
    BY <1>1 DEF Of
  <2>3. A \cup moved \subseteq 1..(Len(s) + Len(t))
    BY <1>1, <1>2
  <2>4. QED
    BY <2>1, <2>2, <2>3
<1>5. Cardinality(moved) = Cardinality(B) /\ IsFiniteSet(moved)
  <2>1. f \in [B -> moved]
    BY <1>1, <1>2
  <2>2. \A x, y \in B : f[x] = f[y] => x = y
    BY <1>1, <1>2
  <2>3. ASSUME NEW m \in moved PROVE \E x \in B : f[x] = m
    <3>1. m - Len(s) \in B /\ f[m - Len(s)] = m
      BY <1>1
    <3>2. QED
      BY <3>1
  <2>4. moved \subseteq 1..(Len(s) + Len(t))
    BY <1>1
  <2>5. IsFiniteSet(1..(Len(s) + Len(t)))
    BY <1>1, FS_Interval
  <2> HIDE DEF A, B, moved, f
  <2>6. Cardinality(moved) = Cardinality(B)
    BY <1>3, <2>1, <2>2, <2>3, SameSize
  <2>7. IsFiniteSet(moved)
    BY <2>4, <2>5, FS_Subset
  <2>8. QED
    BY <2>6, <2>7
<1>6. A \cap moved = {}
  BY <1>1, <1>2
<1> HIDE DEF A, B, moved, f, both
<1>7. Cardinality(A \cup moved) = Cardinality(A) + Cardinality(B)
  <2>1. Cardinality(A \cap moved) = 0
    BY <1>6, FS_EmptySet
  <2>2. Cardinality(A \cup moved) = Cardinality(A) + Cardinality(moved) - Cardinality(A \cap moved)
    BY <1>3, <1>5, FS_Union
  <2>3. QED
    BY <1>3, <1>5, <2>1, <2>2
<1>8. QED
  BY <1>3, <1>4, <1>7 DEF A, B, both

\* The issues an analyzer may find in a file, with the severity of its rule, and lists of them.
Rated(f) == {Issue(f, a.key, policy[f.language][a.key]) : a \in ToSet(analyzers)}
Outcomes(f) == [panicked : BOOLEAN, found : Seq(Rated(f))]

\* What an analyzer that applies adds.
Added(a, f) == [i \in 1..Finds(a, f) |-> Issue(f, a.key, policy[f.language][a.key])]

\* A file that can be analysed.
Numbered(f) == \A a \in ToSet(analyzers) : Finds(a, f) \in Nat

LEMMA CheckAdds ==
  ASSUME NEW f, Numbered(f), NEW a \in ToSet(analyzers), NEW result \in Outcomes(f)
  PROVE  /\ Check(f, result, a) \in Outcomes(f)
         /\ ~Applies(a, f) \/ result.panicked => Check(f, result, a) = result
         /\ Applies(a, f) /\ ~result.panicked =>
               /\ Check(f, result, a).panicked = (a.key \in f.panics)
               /\ Check(f, result, a).found = result.found \o Added(a, f)
         /\ Added(a, f) \in Seq(Rated(f))
<1> DEFINE raw == [i \in 1..Finds(a, f) |-> Issue(f, a.key, "default")]
           severity == policy[f.language][a.key]
           rated == [i \in DOMAIN raw |-> [raw[i] EXCEPT !.severity = severity]]
<1>1. Finds(a, f) \in Nat /\ result.panicked \in BOOLEAN /\ result.found \in Seq(Rated(f))
  BY DEF Numbered, Outcomes
<1>2. rated = Added(a, f)
  BY DEF Added, Issue
<1>3. Added(a, f) \in Seq(Rated(f))
  <2>1. Issue(f, a.key, policy[f.language][a.key]) \in Rated(f)
    BY DEF Rated
  <2> DEFINE issue == Issue(f, a.key, policy[f.language][a.key])
             m == Finds(a, f)
  <2>2. Added(a, f) = [i \in 1..m |-> issue]
    BY DEF Added
  <2> HIDE DEF issue, m
  <2>3. m \in Nat /\ issue \in Rated(f)
    BY <1>1, <2>1 DEF issue, m
  <2>4. QED
    BY <2>2, <2>3
<1>4. ApplySeverity(result.found, raw, severity) = result.found \o Added(a, f)
  BY <1>2 DEF ApplySeverity
<1> HIDE DEF raw, severity, rated
<1>5. CASE ~Applies(a, f) \/ result.panicked
  <2>1. Check(f, result, a) = result
    BY <1>5 DEF Check
  <2>2. QED
    BY <1>3, <1>5, <2>1
<1>6. CASE ~(~Applies(a, f) \/ result.panicked)
  <2> DEFINE longer == result.found \o Added(a, f)
  <2>1. Check(f, result, a) = [panicked |-> a.key \in f.panics, found |-> longer]
    BY <1>4, <1>6 DEF Check, raw, severity
  <2>2. longer \in Seq(Rated(f))
    BY <1>1, <1>3
  <2> HIDE DEF longer
  <2>3. Check(f, result, a) \in Outcomes(f)
    BY <2>1, <2>2 DEF Outcomes
  <2>4. QED
    BY <1>3, <1>6, <2>1, <2>3 DEF longer
<1>7. QED
  BY <1>5, <1>6

\* An analyzer adds issues of its own rule.
LEMMA AddedAreOwn ==
  ASSUME NEW f, NEW a, Finds(a, f) \in Nat, NEW key
  PROVE  Cardinality(Of(Added(a, f), f.name, key)) = IF key = a.key THEN Finds(a, f) ELSE 0
<1> DEFINE m == Finds(a, f)
           list == Added(a, f)
<1>1. DOMAIN list = 1..m /\ \A k \in 1..m : list[k].file = f.name /\ list[k].rule = a.key
  BY DEF Added, Issue
<1>2. Of(list, f.name, key) = IF key = a.key THEN 1..m ELSE {}
  <2> HIDE DEF list, m
  <2>1. QED
    BY <1>1 DEF Of
<1>3. Cardinality(1..m) = m /\ Cardinality({}) = 0
  <2>1. m \in Nat
    OBVIOUS
  <2> HIDE DEF m
  <2>2. QED
    BY <2>1, FS_Interval, FS_EmptySet
<1>4. QED
  BY <1>2, <1>3

\* After the first n analyzers: whether one of them panicked and, if not, how many issues each has found.
AfterFirst(f, n, result) ==
    /\ result \in Outcomes(f)
    /\ result.panicked <=> \E j \in 1..n : Applies(analyzers[j], f) /\ analyzers[j].key \in f.panics
    /\ ~result.panicked => \A j \in DOMAIN analyzers :
          Cardinality(Of(result.found, f.name, analyzers[j].key)) =
              IF j <= n /\ Applies(analyzers[j], f) THEN Finds(analyzers[j], f) ELSE 0

LEMMA OneMoreChecked ==
  ASSUME NEW f, Numbered(f), OwnKeys(analyzers), analyzers \in Seq(ToSet(analyzers)),
         NEW n \in DOMAIN analyzers, NEW result, AfterFirst(f, n - 1, result)
  PROVE  AfterFirst(f, n, Check(f, result, analyzers[n]))
<1> DEFINE a == analyzers[n]
           after == Check(f, result, a)
<1>1. /\ a \in ToSet(analyzers) /\ DOMAIN analyzers = 1..Len(analyzers) /\ Len(analyzers) \in Nat
      /\ n \in Int /\ n >= 1 /\ \A j \in DOMAIN analyzers : j \in Int /\ analyzers[j] \in ToSet(analyzers)
  BY DEF ToSet
<1>2. result \in Outcomes(f) /\ result.panicked \in BOOLEAN /\ result.found \in Seq(Rated(f))
  BY DEF AfterFirst, Outcomes
<1>3. /\ after \in Outcomes(f)
      /\ ~Applies(a, f) \/ result.panicked => after = result
      /\ Applies(a, f) /\ ~result.panicked =>
            after.panicked = (a.key \in f.panics) /\ after.found = result.found \o Added(a, f)
      /\ Added(a, f) \in Seq(Rated(f))
  <2> HIDE DEF a
  <2>1. QED
    BY <1>1, <1>2, CheckAdds
<1> HIDE DEF after
<1>4. \A j \in Int : j \in 1..n <=> j \in 1..(n - 1) \/ j = n
  BY <1>1
<1>5. CASE ~Applies(a, f) \/ result.panicked
  <2>1. after = result
    BY <1>3, <1>5
  <2>2. result.panicked <=> \E j \in 1..n : Applies(analyzers[j], f) /\ analyzers[j].key \in f.panics
    BY <1>1, <1>4, <1>5 DEF AfterFirst
  <2>3. \A j \in DOMAIN analyzers : j <= n /\ Applies(analyzers[j], f) /\ ~result.panicked => j <= n - 1
    BY <1>1, <1>5
  <2>4. ASSUME ~result.panicked, NEW j \in DOMAIN analyzers
        PROVE  Cardinality(Of(result.found, f.name, analyzers[j].key)) =
                  IF j <= n /\ Applies(analyzers[j], f) THEN Finds(analyzers[j], f) ELSE 0
    <3>1. j <= n - 1 => j <= n
      BY <1>1
    <3>2. QED
      BY <2>3, <2>4, <3>1 DEF AfterFirst
  <2>5. QED
    BY <1>2, <2>1, <2>2, <2>4 DEF AfterFirst, after
<1>6. CASE Applies(a, f) /\ ~result.panicked
  <2>1. after.panicked = (a.key \in f.panics) /\ after.found = result.found \o Added(a, f)
    BY <1>3, <1>6
  <2>2. after.panicked <=> \E j \in 1..n : Applies(analyzers[j], f) /\ analyzers[j].key \in f.panics
    <3>1. ~\E j \in 1..(n - 1) : Applies(analyzers[j], f) /\ analyzers[j].key \in f.panics
      BY <1>6 DEF AfterFirst
    <3>2. n \in 1..n /\ \A j \in 1..n : j # n => j \in 1..(n - 1)
      BY <1>1, <1>4
    <3>3. (\E j \in 1..n : Applies(analyzers[j], f) /\ analyzers[j].key \in f.panics) <=> a.key \in f.panics
      BY <1>6, <3>1, <3>2
    <3>4. after.panicked <=> a.key \in f.panics
      BY <2>1
    <3>5. QED
      BY <3>3, <3>4
  <2>3. ASSUME NEW j \in DOMAIN analyzers
        PROVE  Cardinality(Of(after.found, f.name, analyzers[j].key)) =
                  IF j <= n /\ Applies(analyzers[j], f) THEN Finds(analyzers[j], f) ELSE 0
    <3> DEFINE key == analyzers[j].key
    <3>1. /\ Cardinality(Of(result.found, f.name, key)) \in Nat
          /\ Cardinality(Of(after.found, f.name, key)) =
                Cardinality(Of(result.found, f.name, key)) + Cardinality(Of(Added(a, f), f.name, key))
      <4> HIDE DEF a, key
      <4>1. QED
        BY <1>2, <1>3, <2>1, IssuesOfBoth
    <3>2. Finds(a, f) \in Nat
      BY <1>1 DEF Numbered
    <3>3. Cardinality(Of(Added(a, f), f.name, key)) = IF key = a.key THEN Finds(a, f) ELSE 0
      <4> HIDE DEF a, key
      <4>1. QED
        BY <3>2, AddedAreOwn
    <3>4. Cardinality(Of(result.found, f.name, key)) =
             IF j <= n - 1 /\ Applies(analyzers[j], f) THEN Finds(analyzers[j], f) ELSE 0
      BY <1>6 DEF AfterFirst
    <3>5. CASE j = n
      <4>1. ~(j <= n - 1) /\ j <= n /\ key = a.key /\ Applies(analyzers[j], f)
        BY <1>1, <1>6, <3>5
      <4>2. Cardinality(Of(result.found, f.name, key)) = 0 /\ Cardinality(Of(Added(a, f), f.name, key)) = Finds(a, f)
        BY <3>3, <3>4, <4>1
      <4>3. Cardinality(Of(after.found, f.name, key)) = Finds(a, f)
        <5> HIDE DEF a, key
        <5>1. QED
          BY <3>1, <3>2, <4>2
      <4>4. QED
        BY <3>5, <4>1, <4>3
    <3>6. CASE j # n
      <4>1. key # a.key /\ (j <= n - 1 <=> j <= n)
        BY <1>1, <3>6 DEF OwnKeys
      <4>2. Cardinality(Of(Added(a, f), f.name, key)) = 0
        BY <3>3, <4>1
      <4>3. Cardinality(Of(after.found, f.name, key)) = Cardinality(Of(result.found, f.name, key))
        <5> HIDE DEF a, key
        <5>1. QED
          BY <3>1, <4>2
      <4>4. QED
        BY <3>4, <4>1, <4>3
    <3>7. QED
      BY <3>5, <3>6
  <2>4. QED
    BY <1>3, <2>2, <2>3 DEF AfterFirst, after
<1>7. QED
  BY <1>5, <1>6, <1>2

\* All of them.
LEMMA AllChecked ==
  ASSUME NEW f, Numbered(f), OwnKeys(analyzers), analyzers \in Seq(ToSet(analyzers))
  PROVE  AfterFirst(f, Len(analyzers), Checked(f))
<1> DEFINE n == Len(analyzers)
           Body(w) == [m \in 0..n |-> IF m = 0 THEN FoundNothing ELSE Check(f, w[m - 1], analyzers[m])]
           after == CHOOSE w : w = Body(w)
           table == [m \in 1..n |-> [x \in Outcomes(f) |-> Check(f, x, analyzers[m])]]
<1>1. n \in Nat /\ DOMAIN analyzers = 1..n /\ \A m \in 1..n : analyzers[m] \in ToSet(analyzers)
  BY DEF ToSet
<1>2. FoundNothing \in Outcomes(f) /\ FoundNothing.panicked = FALSE /\ FoundNothing.found = <<>>
  BY DEF FoundNothing, Outcomes
<1>3. Checked(f) = after[n]
  BY DEF Checked
<1>4. \A m \in 1..n, x \in Outcomes(f) : table[m][x] = Check(f, x, analyzers[m]) /\ table[m][x] \in Outcomes(f)
  <2>1. ASSUME NEW m \in 1..n, NEW x \in Outcomes(f)
        PROVE  table[m][x] = Check(f, x, analyzers[m]) /\ analyzers[m] \in ToSet(analyzers)
    BY <1>1
  <2> HIDE DEF table, n
  <2>2. QED
    BY <2>1, CheckAdds
<1> HIDE DEF n, table
<1>5. PICK w : Solves(w, n, Outcomes(f), FoundNothing, table)
  BY <1>1, <1>2, <1>4, RecursionExists
<1>6. w = Body(w)
  <2>1. \A m \in 1..n : w[m] = table[m][w[m - 1]] /\ w[m - 1] \in Outcomes(f)
    BY <1>1, <1>5 DEF Solves
  <2>2. \A m \in 1..n : w[m] = Check(f, w[m - 1], analyzers[m])
    BY <1>4, <2>1
  <2>3. \A m \in 0..n : w[m] = IF m = 0 THEN FoundNothing ELSE Check(f, w[m - 1], analyzers[m])
    BY <1>1, <1>5, <2>2 DEF Solves
  <2>4. w \in [0..n -> Outcomes(f)]
    BY <1>5 DEF Solves
  <2>5. QED
    BY <2>3, <2>4
<1>7. after = Body(after)
  <2> HIDE DEF Body
  <2>1. QED
    BY <1>6
<1> HIDE DEF after
<1>8. after[0] = FoundNothing /\ \A m \in 1..n : after[m] = Check(f, after[m - 1], analyzers[m])
  <2>1. \A m \in 0..n : after[m] = IF m = 0 THEN FoundNothing ELSE Check(f, after[m - 1], analyzers[m])
    BY <1>7
  <2>2. 0 \in 0..n /\ \A m \in 1..n : m \in 0..n /\ m # 0
    BY <1>1
  <2>3. QED
    BY <2>1, <2>2
<1> HIDE DEF Body
<1> DEFINE good == {m \in 0..n : AfterFirst(f, m, after[m])}
<1>9. 0 \in good
  <2> DEFINE none == <<>>
  <2>1. \A key : Of(none, f.name, key) = {}
    BY DEF Of
  <2>2. \A j \in DOMAIN analyzers : ~(j <= 0)
    BY <1>1
  <2>3. Cardinality({}) = 0
    BY FS_EmptySet
  <2>4. FoundNothing.found = none
    BY <1>2
  <2> HIDE DEF none
  <2>5. \A key : Cardinality(Of(FoundNothing.found, f.name, key)) = 0
    BY <2>1, <2>3, <2>4
  <2>6. ~\E j \in 1..0 : Applies(analyzers[j], f) /\ analyzers[j].key \in f.panics
    OBVIOUS
  <2>7. AfterFirst(f, 0, FoundNothing)
    BY <1>2, <2>2, <2>5, <2>6 DEF AfterFirst
  <2>8. QED
    BY <1>1, <1>8, <2>7
<1>10. ASSUME NEW m \in 1..n, m - 1 \in good PROVE m \in good
  <2>1. m \in 0..n /\ m \in DOMAIN analyzers /\ AfterFirst(f, m - 1, after[m - 1])
    BY <1>1, <1>10
  <2>2. AfterFirst(f, m, Check(f, after[m - 1], analyzers[m]))
    <3> HIDE DEF good
    <3>1. QED
      BY <2>1, OneMoreChecked
  <2>3. QED
    BY <1>8, <2>1, <2>2
<1>11. n \in good
  <2> HIDE DEF good
  <2>1. 0..n \subseteq good
    BY <1>1, <1>9, <1>10, Counting
  <2>2. n \in 0..n
    BY <1>1
  <2>3. QED
    BY <2>1, <2>2
<1>12. QED
  BY <1>3, <1>11 DEF n

\* How many issues of a rule a file gives: none if it cannot be read, if the rule is not active in
\* it, or if one that is panics.
ActiveIn(f) == {b.key : b \in {c \in ToSet(analyzers) : Applies(c, f)}}
Due(f, a) == IF ~f.readable \/ a.key \notin ActiveIn(f) \/ f.panics \cap ActiveIn(f) # {} THEN 0 ELSE Finds(a, f)

LEMMA ResultIsDue ==
  ASSUME NEW i, Numbered(files[i]), OwnKeys(analyzers), analyzers \in Seq(ToSet(analyzers))
  PROVE  /\ ResultOf(i) \in Seq(Rated(files[i]))
         /\ \A a \in ToSet(analyzers) : Cardinality(Of(ResultOf(i), files[i].name, a.key)) = Due(files[i], a)
<1> DEFINE f == files[i]
           n == Len(analyzers)
           none == <<>>
<1>1. n \in Nat /\ DOMAIN analyzers = 1..n /\ ToSet(analyzers) = {analyzers[j] : j \in 1..n}
  BY DEF ToSet
<1>2. Cardinality({}) = 0 /\ \A key : Of(none, f.name, key) = {}
  BY FS_EmptySet DEF Of
<1>3. none \in Seq(Rated(f))
  OBVIOUS
<1>4. AfterFirst(f, n, Checked(f))
  <2> HIDE DEF f
  <2>1. Numbered(f)
    BY DEF f
  <2>2. QED
    BY <2>1, AllChecked
<1>5. Checked(f).panicked <=> f.panics \cap ActiveIn(f) # {}
  <2>1. Checked(f).panicked <=> \E j \in 1..n : Applies(analyzers[j], f) /\ analyzers[j].key \in f.panics
    BY <1>4 DEF AfterFirst
  <2>2. ActiveIn(f) = {analyzers[j].key : j \in {m \in 1..n : Applies(analyzers[m], f)}}
    BY <1>1 DEF ActiveIn
  <2>3. QED
    BY <2>1, <2>2
<1>6. ResultOf(i) = IF ~f.readable \/ Checked(f).panicked THEN none ELSE Checked(f).found
  BY DEF ResultOf, AnalyzeFile, FoundNothing
<1> HIDE DEF f, none
<1>7. CASE ~f.readable \/ Checked(f).panicked
  <2>1. ResultOf(i) = none /\ \A a : Due(f, a) = 0
    BY <1>5, <1>6, <1>7 DEF Due
  <2>2. QED
    BY <1>2, <1>3, <2>1 DEF f
<1>8. CASE ~(~f.readable \/ Checked(f).panicked)
  <2>1. ResultOf(i) = Checked(f).found /\ Checked(f) \in Outcomes(f)
    BY <1>4, <1>6, <1>8 DEF AfterFirst
  <2>2. ResultOf(i) \in Seq(Rated(f))
    BY <2>1 DEF Outcomes
  <2>3. ASSUME NEW a \in ToSet(analyzers) PROVE Cardinality(Of(ResultOf(i), f.name, a.key)) = Due(f, a)
    <3>1. PICK j \in 1..n : analyzers[j] = a
      BY <1>1
    <3>2. j <= n /\ j \in DOMAIN analyzers
      BY <1>1
    <3>3. Cardinality(Of(Checked(f).found, f.name, a.key)) = IF Applies(a, f) THEN Finds(a, f) ELSE 0
      BY <1>4, <1>8, <3>1, <3>2 DEF AfterFirst
    <3>4. Applies(a, f) <=> a.key \in ActiveIn(f)
      <4>1. ASSUME NEW b \in ToSet(analyzers), b.key = a.key PROVE b = a
        BY <1>1, <4>1 DEF OwnKeys
      <4>2. QED
        BY <4>1 DEF ActiveIn
    <3>5. QED
      BY <1>5, <1>8, <2>1, <3>3, <3>4 DEF Due
  <2>4. QED
    BY <2>2, <2>3 DEF f
<1>9. QED
  BY <1>7, <1>8

-----------------------------------------------------------------------------
(* Runs of the scanner: the report                                         *)

AllRated == UNION {Rated(files[j]) : j \in DOMAIN files}

\* Everything the sums over a list of files hold is an issue that some file gave.
LEMMA SumsAreRated ==
  ASSUME NEW order, NEW sums, NEW n \in Nat, Lists(order, n, DOMAIN files), Joins(sums, order, n),
         \A j \in DOMAIN files : ResultOf(j) \in Seq(AllRated)
  PROVE  \A m \in 0..n : sums[m] \in Seq(AllRated)
<1> DEFINE good == {m \in 0..n : sums[m] \in Seq(AllRated)}
<1>1. 0 \in good
  <2> DEFINE none == <<>>
  <2>1. none \in Seq(AllRated)
    OBVIOUS
  <2>2. sums[0] = none /\ 0 \in 0..n
    BY DEF Joins
  <2> HIDE DEF none
  <2>3. QED
    BY <2>1, <2>2
<1>2. ASSUME NEW m \in 1..n, m - 1 \in good PROVE m \in good
  <2>1. sums[m] = sums[m - 1] \o ResultOf(order[m]) /\ order[m] \in DOMAIN files /\ m \in 0..n
    BY DEF Joins, Lists
  <2>2. sums[m - 1] \in Seq(AllRated) /\ ResultOf(order[m]) \in Seq(AllRated)
    BY <1>2, <2>1
  <2>3. sums[m] \in Seq(AllRated)
    BY <2>1, <2>2
  <2>4. QED
    BY <2>1, <2>3
<1>3. 0..n \subseteq good
  <2> HIDE DEF good
  <2>1. QED
    BY <1>1, <1>2, Counting
<1>4. QED
  BY <1>3

\* The sums over a list of files hold the issues of a file once it is among them, if they are its own.
LEMMA SumsCountOnce ==
  ASSUME NEW order, NEW sums, NEW n \in Nat, Lists(order, n, DOMAIN files), Joins(sums, order, n),
         \A j \in DOMAIN files : ResultOf(j) \in Seq(AllRated),
         NEW i \in DOMAIN files, NEW name, NEW key,
         \A j \in DOMAIN files : j # i => Cardinality(Of(ResultOf(j), name, key)) = 0
  PROVE  Cardinality(Of(sums[n], name, key)) = Cardinality(Of(ResultOf(i), name, key))
<1> DEFINE Count(list) == Cardinality(Of(list, name, key))
           Reached(m) == \E k \in 1..m : order[k] = i
           good == {m \in 0..n : Count(sums[m]) = IF Reached(m) THEN Count(ResultOf(i)) ELSE 0}
<1>1. 0 \in good
  <2> DEFINE none == <<>>
  <2>1. Of(none, name, key) = {} /\ Cardinality({}) = 0
    BY FS_EmptySet DEF Of
  <2>2. sums[0] = none /\ ~Reached(0) /\ 0 \in 0..n
    BY DEF Joins
  <2> HIDE DEF none, Reached
  <2>3. QED
    BY <2>1, <2>2
<1>2. ASSUME NEW m \in 1..n, m - 1 \in good PROVE m \in good
  <2>0. m \in 0..n /\ m - 1 \in 0..n
    OBVIOUS
  <2>1a. sums[m] = sums[m - 1] \o ResultOf(order[m])
    BY DEF Joins
  <2>1b. order[m] \in DOMAIN files
    BY DEF Lists
  <2>1. sums[m] = sums[m - 1] \o ResultOf(order[m]) /\ order[m] \in DOMAIN files /\ m \in 0..n /\ m - 1 \in 0..n
    BY <2>0, <2>1a, <2>1b
  <2>2. sums[m - 1] \in Seq(AllRated) /\ ResultOf(order[m]) \in Seq(AllRated)
    BY <2>1, SumsAreRated
  <2>3. /\ Count(sums[m]) = Count(sums[m - 1]) + Count(ResultOf(order[m]))
        /\ Count(sums[m - 1]) \in Nat /\ Count(ResultOf(order[m])) \in Nat
    BY <2>1, <2>2, IssuesOfBoth
  <2>4. Count(sums[m - 1]) = IF Reached(m - 1) THEN Count(ResultOf(i)) ELSE 0
    BY <1>2
  <2>5. Reached(m) <=> Reached(m - 1) \/ order[m] = i
    <3>1. \A k \in Int : k \in 1..m <=> k \in 1..(m - 1) \/ k = m
      OBVIOUS
    <3>2. QED
      BY <3>1
  <2>6. order[m] = i => ~Reached(m - 1)
    <3>1. \A k \in 1..(m - 1) : k \in 1..n /\ k # m
      OBVIOUS
    <3>2. QED
      BY <3>1 DEF Lists
  <2> HIDE DEF Count, Reached
  <2>7. CASE order[m] = i
    <3>1. Count(sums[m - 1]) = 0 /\ Reached(m)
      BY <2>4, <2>5, <2>6, <2>7
    <3>2. Count(sums[m]) = Count(ResultOf(i))
      BY <2>3, <2>7, <3>1
    <3>3. QED
      BY <2>1, <3>1, <3>2
  <2>8. CASE order[m] # i
    <3>1. Count(ResultOf(order[m])) = 0
      BY <2>1, <2>8 DEF Count
    <3>2. Count(sums[m]) = Count(sums[m - 1])
      BY <2>3, <3>1
    <3>3. QED
      BY <2>1, <2>4, <2>5, <2>8, <3>2
  <2>9. QED
    BY <2>7, <2>8
<1>3. n \in good
  <2> HIDE DEF good
  <2>1. 0..n \subseteq good
    BY <1>1, <1>2, Counting
  <2>2. QED
    BY <2>1
<1>4. Reached(n)
  BY DEF Lists
<1>5. QED
  BY <1>3, <1>4

\* What a run has found out before its results are collected.
AnalysisSound ==
    /\ setup \in Setups
    /\ step \in {"scope", "policy", "analyze"} \/ scanned.built => OwnKeys(analyzers) /\ \E S : analyzers \in Seq(S)
    /\ step \in {"policy", "analyze"} \/ scanned.built => files \in FileLists /\ ToSet(files) = Eligible

LEMMA ReportFollows ==
  ASSUME AnalysisSound, ResultsAreWhole
  PROVE  ReportHoldsEveryFile
<1> SUFFICES ASSUME scanned.built PROVE ReportHoldsEveryFile
  BY DEF ReportHoldsEveryFile
<1>1. /\ setup \in Setups /\ OwnKeys(analyzers) /\ (\E S : analyzers \in Seq(S))
      /\ files \in FileLists /\ ToSet(files) = Eligible
  BY DEF AnalysisSound
<1>2. analyzers \in Seq(ToSet(analyzers))
  <2>1. PICK S : analyzers \in Seq(S)
    BY <1>1
  <2>2. QED
    BY <2>1 DEF ToSet
<1>3. /\ files \in Seq(TreeFiles) /\ \A j \in DOMAIN files : files[j] \in TreeFiles
      /\ \A i, j \in DOMAIN files : files[i].name = files[j].name => i = j
  BY <1>1 DEF FileLists, OwnNames
<1>4. Len(files) = Cardinality(Eligible)
  <2>1. \A i, j \in DOMAIN files : files[i] = files[j] => i = j
    BY <1>3
  <2>2. QED
    BY <1>1, <1>3, <2>1, LengthOfList
<1>5. \A f \in TreeFiles : Numbered(f)
  <2>1. \A f \in TreeFiles : \A key \in DOMAIN f.finds : f.finds[key] \in Nat
    BY <1>1, SetupAssumption DEF TreeFiles
  <2>2. QED
    BY <2>1 DEF Numbered, Finds
<1>6. \A j \in DOMAIN files :
        /\ ResultOf(j) \in Seq(Rated(files[j]))
        /\ \A a \in ToSet(analyzers) : Cardinality(Of(ResultOf(j), files[j].name, a.key)) = Due(files[j], a)
  BY <1>1, <1>2, <1>3, <1>5, ResultIsDue
<1>7. \A j \in DOMAIN files : ResultOf(j) \in Seq(AllRated)
  <2>1. ASSUME NEW j \in DOMAIN files PROVE ResultOf(j) \in Seq(AllRated)
    <3>1. Rated(files[j]) \subseteq AllRated
      BY DEF AllRated
    <3>2. QED
      BY <1>6, <3>1
  <2>2. QED
    BY <2>1
<1>8a. PICK order, sums : \E n \in Nat : Lists(order, n, DOMAIN files) /\ Joins(sums, order, n) /\ scanned.issues = sums[n]
  BY DEF ResultsAreWhole
<1>8. PICK n \in Nat : Lists(order, n, DOMAIN files) /\ Joins(sums, order, n) /\ scanned.issues = sums[n]
  BY <1>8a
<1> DEFINE found == scanned.issues
<1>9. found \in Seq(AllRated) /\ DOMAIN found = 1..Len(found) /\ Len(found) \in Nat
  <2>1. found \in Seq(AllRated)
    <3>1. n \in 0..n
      OBVIOUS
    <3>2. QED
      BY <1>7, <1>8, <3>1, SumsAreRated
  <2>2. QED
    BY <2>1
<1>10. \A k \in DOMAIN found : \E j \in DOMAIN files : \E a \in ToSet(analyzers) :
         found[k] = Issue(files[j], a.key, policy[files[j].language][a.key])
  BY <1>9 DEF AllRated, Rated
<1>11. \A k \in DOMAIN found : \E f \in Eligible : \E a \in ToSet(analyzers) : k \in Of(found, f.name, a.key)
  <2>1. ASSUME NEW k \in DOMAIN found
        PROVE  \E f \in Eligible : \E a \in ToSet(analyzers) : k \in Of(found, f.name, a.key)
    <3>1. PICK j \in DOMAIN files : \E a \in ToSet(analyzers) :
             found[k] = Issue(files[j], a.key, policy[files[j].language][a.key])
      BY <1>10
    <3>2. PICK a \in ToSet(analyzers) : found[k] = Issue(files[j], a.key, policy[files[j].language][a.key])
      BY <3>1
    <3>3. k \in Of(found, files[j].name, a.key)
      BY <3>2 DEF Of, Issue
    <3>4. files[j] \in Eligible
      BY <1>1 DEF ToSet
    <3>5. QED
      BY <3>3, <3>4
  <2>2. QED
    BY <2>1
<1>12. ASSUME NEW i \in DOMAIN files, NEW a \in ToSet(analyzers)
       PROVE  /\ Cardinality(Of(found, files[i].name, a.key)) = Due(files[i], a)
              /\ \A k \in Of(found, files[i].name, a.key) : found[k].severity = policy[files[i].language][a.key]
  <2>1. ASSUME NEW j \in DOMAIN files, j # i PROVE Cardinality(Of(ResultOf(j), files[i].name, a.key)) = 0
    <3>1. \A k \in DOMAIN ResultOf(j) : ResultOf(j)[k].file = files[j].name
      <4>1. \A k \in DOMAIN ResultOf(j) : ResultOf(j)[k] \in Rated(files[j])
        BY <1>6
      <4>2. QED
        BY <4>1 DEF Rated, Issue
    <3>2. Of(ResultOf(j), files[i].name, a.key) = {}
      BY <1>3, <2>1, <3>1 DEF Of
    <3>3. QED
      BY <3>2, FS_EmptySet
  <2>2. Cardinality(Of(found, files[i].name, a.key)) = Cardinality(Of(ResultOf(i), files[i].name, a.key))
    BY <1>7, <1>8, <2>1, SumsCountOnce
  <2>3. ASSUME NEW k \in Of(found, files[i].name, a.key)
        PROVE  found[k].severity = policy[files[i].language][a.key]
    <3>1. k \in DOMAIN found /\ found[k].file = files[i].name /\ found[k].rule = a.key
      BY DEF Of
    <3>2. PICK j \in DOMAIN files : \E b \in ToSet(analyzers) :
             found[k] = Issue(files[j], b.key, policy[files[j].language][b.key])
      BY <1>10, <3>1
    <3>3. PICK b \in ToSet(analyzers) : found[k] = Issue(files[j], b.key, policy[files[j].language][b.key])
      BY <3>2
    <3>4. files[j].name = files[i].name /\ b.key = a.key /\ found[k].severity = policy[files[j].language][b.key]
      BY <3>1, <3>3 DEF Issue
    <3>5. QED
      BY <1>3, <3>4
  <2>4. QED
    BY <1>6, <2>2, <2>3
<1>13. ASSUME NEW f \in Eligible, NEW a \in ToSet(analyzers)
       PROVE  LET those == Of(scanned.issues, f.name, a.key)
                  active == {b.key : b \in {c \in ToSet(analyzers) : Applies(c, f)}}
              IN  IF ~f.readable \/ a.key \notin active \/ f.panics \cap active # {}
                  THEN those = {}
                  ELSE /\ Cardinality(those) = Finds(a, f)
                       /\ \A k \in those : scanned.issues[k].severity = policy[f.language][a.key]
  <2>1. PICK i \in DOMAIN files : files[i] = f
    BY <1>1 DEF ToSet
  <2> DEFINE those == Of(found, f.name, a.key)
  <2>2. /\ Cardinality(those) = Due(f, a)
        /\ \A k \in those : found[k].severity = policy[f.language][a.key]
    BY <1>12, <2>1
  <2>3. Cardinality(those) = 0 => those = {}
    <3>1. IsFiniteSet(1..Len(found)) /\ those \subseteq 1..Len(found)
      BY <1>9, FS_Interval DEF Of
    <3> HIDE DEF those
    <3>2. IsFiniteSet(those)
      BY <3>1, FS_Subset
    <3>3. QED
      BY <3>2, FS_EmptySet
  <2> HIDE DEF those
  <2>4. IF ~f.readable \/ a.key \notin ActiveIn(f) \/ f.panics \cap ActiveIn(f) # {}
        THEN those = {}
        ELSE Cardinality(those) = Finds(a, f) /\ \A k \in those : found[k].severity = policy[f.language][a.key]
    BY <2>2, <2>3 DEF Due
  <2>5. QED
    BY <2>4 DEF those, ActiveIn
<1>14. QED
  BY <1>1, <1>4, <1>11, <1>13 DEF ReportHoldsEveryFile

LEMMA EligibleStays ==
  ASSUME UNCHANGED setup
  PROVE  Eligible' = Eligible /\ TreeFiles' = TreeFiles /\ FileLists' = FileLists
<1>1. Eligible' = Eligible /\ TreeFiles' = TreeFiles
  BY DEF Eligible, TreeFiles, Taken, Options
<1>2. QED
  BY <1>1 DEF FileLists

LEMMA AnalysisStep ==
  ASSUME ExecutorSound, AnalysisSound, [ScannerNext]_scannerVars
  PROVE  AnalysisSound'
<1> DEFINE Early == {"parse", "load", "scope", "policy"}
<1>1. scanned.built => step \notin Early \cup {"analyze"}
  BY DEF ExecutorSound
<1>2. setup \in Setups
  BY DEF AnalysisSound
<1>3. ASSUME UNCHANGED <<setup, analyzers, files>>,
             step' \in {"scope", "policy", "analyze"} \/ scanned'.built => step \in {"scope", "policy", "analyze"} \/ scanned.built,
             step' \in {"policy", "analyze"} \/ scanned'.built => step \in {"policy", "analyze"} \/ scanned.built
      PROVE  AnalysisSound'
  <2>1. Eligible' = Eligible /\ FileLists' = FileLists
    BY <1>3, EligibleStays
  <2>2. QED
    BY <1>3, <2>1 DEF AnalysisSound, OwnKeys
<1>4. CASE LoadCustomAnalyzers
  <2>1. step = "load" /\ setup' = setup /\ scanned' = scanned /\ step' \in {"scope", "exited"}
    BY <1>4 DEF LoadCustomAnalyzers, outsideVars, Exit, Then
  <2>2. step' = "scope" => OwnKeys(analyzers') /\ \E S : analyzers' \in Seq(S)
    BY <1>2, <1>4, AnalyzersHaveKeys
  <2>3. QED
    BY <1>1, <1>2, <2>1, <2>2 DEF AnalysisSound, OwnKeys
<1>5. CASE ResolveScope
  <2>1. /\ step = "scope" /\ setup' = setup /\ scanned' = scanned /\ analyzers' = analyzers
        /\ step' \in {"policy", "exited"} /\ (step' = "policy" => files' = Discovered)
    BY <1>5 DEF ResolveScope, outsideVars, Exit, Then
  <2>2. Discovered \in FileLists /\ ToSet(Discovered) = Eligible
    BY <1>2, DiscoverFinds
  <2>3. Eligible' = Eligible /\ FileLists' = FileLists
    BY <2>1, EligibleStays
  <2>4. QED
    BY <1>1, <2>1, <2>2, <2>3 DEF AnalysisSound, OwnKeys
<1>6. CASE ParseOptions
  <2>1. step = "parse" /\ step' \in {"load", "exited"} /\ UNCHANGED <<setup, analyzers, files, scanned>>
    BY <1>6 DEF ParseOptions, outsideVars, resultVars, Exit, Then
  <2>2. QED
    BY <1>3, <2>1
<1>7. CASE ResolvePolicy
  <2>1. step = "policy" /\ UNCHANGED <<setup, analyzers, files, scanned>>
    BY <1>7 DEF ResolvePolicy, outsideVars
  <2>2. QED
    BY <1>3, <2>1
<1>8. ASSUME NEW i \in DOMAIN worker, Acquire(i) \/ Analyze(i) \/ Leave(i) PROVE AnalysisSound'
  <2>1. UNCHANGED <<setup, analyzers, files, scanned, step>>
    BY <1>8 DEF Acquire, Analyze, Leave, analysisVars, outsideVars
  <2>2. QED
    BY <1>3, <2>1
<1>9. CASE Collect \/ Expire \/ ServerWorks \/ UNCHANGED scannerVars
  <2>1. UNCHANGED <<setup, analyzers, files, scanned, step>>
    BY <1>9 DEF Collect, Expire, ServerWorks, scannerVars, analysisVars, outsideVars, resultVars
  <2>2. QED
    BY <1>3, <2>1
<1>10. CASE BuildReport
  <2>1. step = "analyze" /\ UNCHANGED <<setup, analyzers, files>>
    BY <1>10 DEF BuildReport, outsideVars
  <2>2. QED
    BY <1>3, <2>1
<1>11. CASE SaveReport \/ ServeReport \/ Push \/ Poll
  <2>1. step' \notin Early \cup {"analyze"} /\ UNCHANGED <<setup, analyzers, files, scanned>>
    BY <1>11 DEF SaveReport, ServeReport, Push, Poll, resultVars, outsideVars, Exit, Then
  <2>2. QED
    BY <1>3, <2>1
<1>12. QED
  BY <1>4, <1>5, <1>6, <1>7, <1>8, <1>9, <1>10, <1>11 DEF ScannerNext, ScannerSteps

\* For any files, source roots, rules, policies and permits, and in whichever order goroutines run,
\* panic and are collected, a report has every eligible file once, with exactly the issues that the
\* analyzers active in it found, at the severity the policy gives their rule, and the whole scope it
\* belongs to (Discover, analyzeFile, Executor.Run, resolveSCMContextWithInputs).
THEOREM ReportsAreWhole == ScannerSpec => []ReportIsWhole
<1>1. ScannerInit => AnalysisSound
  BY DEF ScannerInit, AnalysisSound, NotBuilt
<1>2. ScannerInv => ExecutorSound
  BY DEF ScannerInv
<1>3. AnalysisSound /\ ExecutorSound /\ [ScannerNext]_scannerVars => AnalysisSound'
  BY AnalysisStep
<1>4. ScannerSpec => []AnalysisSound
  BY <1>1, <1>2, <1>3, ScannerHolds, PTL DEF ScannerSpec
<1>5. AnalysisSound /\ ResultsAreWhole => ReportHoldsEveryFile
  BY ReportFollows
<1>6. ScannerTypeOK /\ ScopeIsWhole /\ ReportHoldsEveryFile => ReportIsWhole
  BY DEF ReportIsWhole
<1>7. QED
  BY <1>4, <1>5, <1>6, ResultsAreCollectedOnce, RunsStayInBounds, PTL
================================================================================
