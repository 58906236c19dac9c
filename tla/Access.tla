------------------------------- MODULE Access -------------------------------
(* Who may call the server: accounts, refresh sessions and the access tokens  *)
(* they yield, API tokens, groups, and grants of permissions. A call is       *)
(* authenticated, then authorised, then carried out, and other calls may do   *)
(* the same between any two of these.                                         *)
EXTENDS Integers, SequencesExt

CONSTANTS
    Users, SeededAdmin, \* the accounts there may be, and the one migration 010 inserts
    Callers,            \* concurrent calls
    Passwords,
    GroupNames,
    Permissions,        \* the global permissions calls are checked for
    JWTExpiry, RefreshExpiry, \* lifetimes, in ticks of a clock slower than any call
    MaxTime, MaxSessions, MaxTokens, MaxGroups, MaxWithdrawn, MaxOps \* bounds

\* A lifetime is not negative: an administrator sets it, and the configuration does not check it.
ASSUME AccessAssumption ==
    /\ SeededAdmin \in Users /\ Passwords # {}
    /\ {JWTExpiry, RefreshExpiry, MaxTime, MaxSessions, MaxTokens, MaxGroups, MaxWithdrawn, MaxOps} \subseteq Nat

VARIABLES
    accounts,  \* table users
    sessions,  \* table sessions: the refresh tokens that are alive
    bearers,   \* access tokens, which only their holders have
    apiTokens, \* table tokens
    groups,    \* tables groups and group_members
    grants,    \* table global_permissions, and for whom each grant was meant
    now,
    call,      \* per caller, the call in progress
    withdrawn, \* how often an account or a permission has been taken away
    endedAt,   \* when each refresh session that is gone ended
    ops        \* how many calls have changed something

accessVars == <<accounts, sessions, bearers, apiTokens, groups, grants, now, call, withdrawn, endedAt, ops>>

\* The rows of the tables, and what a bearer of an access token has.
AccountRows == [active : BOOLEAN, password : Passwords]
SessionRows == [id : Nat, user : Users, expires : Nat]
Bearers == [user : Users, session : Nat, issued : Nat, expires : Nat]
TokenRows == [id : Nat, user : Users, expires : Nat]
GroupRows == [name : GroupNames \cup {"ollanta-admins", "ollanta-users"}, builtin : BOOLEAN, members : SUBSET Users, born : Nat]
GrantRows == ({"user"} \X Users \X Permissions \X Nat) \cup ({"group"} \X Nat \X Permissions \X Nat)

Outside == [stage |-> "outside", user |-> "", password |-> "", session |-> 0, permission |-> "", withdrawn |-> 0]
Admins == 1
Everybody == 2

AccessInit ==
    /\ \E others \in SUBSET Users :
          accounts = [u \in {SeededAdmin} \cup others |-> [active |-> TRUE, password |-> CHOOSE p \in Passwords : TRUE]]
    /\ sessions = {} /\ bearers = {} /\ apiTokens = {} /\ now = 0 /\ withdrawn = 0 /\ endedAt = <<>> /\ ops = 0
    /\ groups = [g \in {Admins, Everybody} |-> [name |-> IF g = Admins THEN "ollanta-admins" ELSE "ollanta-users",
                                                 builtin |-> TRUE, members |-> {SeededAdmin}, born |-> 0]]
    /\ grants = {<<"group", Admins, p, 0>> : p \in Permissions} \cup {<<"user", SeededAdmin, p, 0>> : p \in Permissions}
    /\ call = [c \in Callers |-> Outside]

\* Time passes between calls.
Tick ==
    /\ now < MaxTime /\ now' = now + 1
    /\ \A c \in Callers : call[c] = Outside
    /\ UNCHANGED <<accounts, sessions, bearers, apiTokens, groups, grants, call, withdrawn, endedAt, ops>>

\* A table with one row more, or another one for a key.
Put(table, key, row) == [k \in DOMAIN table \cup {key} |-> IF k = key THEN row ELSE table[k]]

-----------------------------------------------------------------------------
(* Sessions                                                                 *)

ActiveAccount(u) == u \in DOMAIN accounts /\ accounts[u].active
SessionIds == DOMAIN endedAt \cup {s.id : s \in sessions}
Bearer(u, s) == [user |-> u, session |-> s, issued |-> now, expires |-> now + JWTExpiry]

\* Login reads the account and checks its state and password...
LoginRead(c, u, password) ==
    /\ call[c] = Outside /\ ActiveAccount(u) /\ accounts[u].password = password
    /\ call' = [call EXCEPT ![c] = [Outside EXCEPT !.stage = "login", !.user = u]]
    /\ UNCHANGED <<accounts, sessions, bearers, apiTokens, groups, grants, now, withdrawn, endedAt, ops>>

\* ... and issueTokenPair stores a session and answers with both tokens.
LoginIssue(c) ==
    LET id == Cardinality(SessionIds) + 1
    IN  /\ call[c].stage = "login" /\ id <= MaxSessions
        /\ sessions' = sessions \cup {[id |-> id, user |-> call[c].user, expires |-> now + RefreshExpiry]}
        /\ bearers' = bearers \cup {Bearer(call[c].user, id)}
        /\ call' = [call EXCEPT ![c] = Outside]
        /\ UNCHANGED <<accounts, apiTokens, groups, grants, now, withdrawn, endedAt, ops>>

End(s) == Put(endedAt, s.id, now)

\* Mutant of Expired: the two sides of the comparison swapped.
ExpiredBefore(s) == s.expires > now

\* A session is over only after the moment it expires.
Expired(s) == now > s.expires

\* Refresh finds the session by the hash of its token; one that is over is deleted.
RefreshExpired(c, s) ==
    /\ call[c] = Outside /\ Expired(s)
    /\ sessions' = sessions \ {s} /\ endedAt' = End(s)
    /\ UNCHANGED <<accounts, bearers, apiTokens, groups, grants, now, call, withdrawn, ops>>
RefreshRead(c, s) ==
    /\ call[c] = Outside /\ ~Expired(s)
    /\ call' = [call EXCEPT ![c] = [Outside EXCEPT !.stage = "refresh", !.user = s.user, !.session = s.id]]
    /\ UNCHANGED <<accounts, sessions, bearers, apiTokens, groups, grants, now, withdrawn, endedAt, ops>>

\* The account is read again: one that is not active gets no access token. The session stays as it is.
RefreshIssue(c) ==
    /\ call[c].stage = "refresh"
    /\ bearers' = IF ActiveAccount(call[c].user) THEN bearers \cup {Bearer(call[c].user, call[c].session)} ELSE bearers
    /\ call' = [call EXCEPT ![c] = Outside]
    /\ UNCHANGED <<accounts, sessions, apiTokens, groups, grants, now, withdrawn, endedAt, ops>>

-----------------------------------------------------------------------------
(* Authentication and authorisation                                         *)

\* Mutant of KnownUser: who holds a token needs no account that is active.
KnownUserByToken(u) == u \in DOMAIN accounts

\* Authenticate looks the user of a token up, and refuses an account that is not active.
KnownUser(u) == ActiveAccount(u)

Enter(c, u) ==
    call' = [call EXCEPT ![c] = [Outside EXCEPT !.stage = "known", !.user = u, !.password = accounts[u].password,
                                                !.withdrawn = withdrawn]]

\* userFromJWT and userFromAPIToken
AuthenticateBearer(c, b) ==
    /\ call[c] = Outside /\ now < b.expires /\ KnownUser(b.user)
    /\ Enter(c, b.user)
    /\ UNCHANGED <<accounts, sessions, bearers, apiTokens, groups, grants, now, withdrawn, endedAt, ops>>
AuthenticateToken(c, t) ==
    /\ call[c] = Outside /\ now <= t.expires /\ KnownUser(t.user)
    /\ Enter(c, t.user)
    /\ UNCHANGED <<accounts, sessions, bearers, apiTokens, groups, grants, now, withdrawn, endedAt, ops>>

\* HasGlobal: directly, or through a group the user is a member of.
HasGlobal(u, permission) ==
    \E x \in grants : /\ x[3] = permission
                      /\ \/ x[1] = "user" /\ x[2] = u
                         \/ x[1] = "group" /\ x[2] \in DOMAIN groups /\ u \in groups[x[2]].members

\* RequirePermission; without the permission the call ends.
Authorize(c, permission) ==
    /\ call[c].stage = "known"
    /\ call' = [call EXCEPT ![c] = IF HasGlobal(call[c].user, permission)
                                   THEN [call[c] EXCEPT !.stage = "authorised", !.permission = permission] ELSE Outside]
    /\ UNCHANGED <<accounts, sessions, bearers, apiTokens, groups, grants, now, withdrawn, endedAt, ops>>

-----------------------------------------------------------------------------
(* What a user does for himself                                             *)

\* The call changes something and ends.
Finish(c) == call' = [call EXCEPT ![c] = Outside] /\ ops < MaxOps /\ ops' = ops + 1

\* Logout deletes the session of the refresh token it is sent.
Logout(c, s) ==
    /\ call[c].stage = "known"
    /\ sessions' = sessions \ {s} /\ endedAt' = End(s)
    /\ Finish(c) /\ UNCHANGED <<accounts, bearers, apiTokens, groups, grants, now, withdrawn>>

\* ChangePassword checks the password that was read when the call was authenticated.
ChangePassword(c, old, new) ==
    /\ call[c].stage = "known" /\ call[c].password = old
    /\ accounts' = [accounts EXCEPT ![call[c].user].password = new]
    /\ Finish(c) /\ UNCHANGED <<sessions, bearers, apiTokens, groups, grants, now, withdrawn, endedAt>>

Never == MaxTime + 1 \* expires_in 0
CreateToken(c, expires) ==
    /\ call[c].stage = "known" /\ Cardinality(apiTokens) < MaxTokens
    /\ apiTokens' = apiTokens \cup {[id |-> Cardinality(apiTokens) + 1, user |-> call[c].user, expires |-> expires]}
    /\ Finish(c) /\ UNCHANGED <<accounts, sessions, bearers, groups, grants, now, withdrawn, endedAt>>

-----------------------------------------------------------------------------
(* Administration                                                           *)

Allowed(c, permission) == call[c].stage = "authorised" /\ call[c].permission = permission
Withdraw == withdrawn < MaxWithdrawn /\ withdrawn' = withdrawn + 1

CreateUser(c, u, password) ==
    /\ Allowed(c, "manage_users") /\ u \notin DOMAIN accounts
    /\ accounts' = Put(accounts, u, [active |-> TRUE, password |-> password])
    /\ Finish(c) /\ UNCHANGED <<sessions, bearers, apiTokens, groups, grants, now, withdrawn, endedAt>>

\* Deactivate leaves sessions, tokens, memberships and grants alone, for Reactivate to find them.
Deactivate(c, u) ==
    /\ Allowed(c, "manage_users") /\ Withdraw
    /\ accounts' = [accounts EXCEPT ![u].active = FALSE]
    /\ Finish(c) /\ UNCHANGED <<sessions, bearers, apiTokens, groups, grants, now, endedAt>>
Reactivate(c, u) ==
    /\ Allowed(c, "manage_users")
    /\ accounts' = [accounts EXCEPT ![u].active = TRUE]
    /\ Finish(c) /\ UNCHANGED <<sessions, bearers, apiTokens, groups, grants, now, withdrawn, endedAt>>

\* Delete of a token, by its owner or by an administrator.
DeleteToken(c, t) ==
    /\ Allowed(c, "manage_users") \/ (call[c].stage = "known" /\ call[c].user = t.user)
    /\ apiTokens' = apiTokens \ {t}
    /\ Finish(c) /\ UNCHANGED <<accounts, sessions, bearers, groups, grants, now, withdrawn, endedAt>>

\* BIGSERIAL: an id is never given twice; the grants of a deleted group stay in their table.
NextGroup == Max(DOMAIN groups \cup {g[2] : g \in {x \in grants : x[1] = "group"}}) + 1

CreateGroup(c, name) ==
    /\ Allowed(c, "manage_groups") /\ NextGroup <= MaxGroups /\ \A g \in DOMAIN groups : groups[g].name # name
    /\ groups' = Put(groups, NextGroup, [name |-> name, builtin |-> FALSE, members |-> {}, born |-> withdrawn])
    /\ Finish(c) /\ UNCHANGED <<accounts, sessions, bearers, apiTokens, grants, now, withdrawn, endedAt>>
DeleteGroup(c, g) ==
    /\ Allowed(c, "manage_groups") /\ ~groups[g].builtin /\ Withdraw
    /\ groups' = Restrict(groups, DOMAIN groups \ {g})
    /\ Finish(c) /\ UNCHANGED <<accounts, sessions, bearers, apiTokens, grants, now, endedAt>>
AddMember(c, g, u) ==
    /\ Allowed(c, "manage_groups")
    /\ groups' = [groups EXCEPT ![g].members = @ \cup {u}]
    /\ Finish(c) /\ UNCHANGED <<accounts, sessions, bearers, apiTokens, grants, now, withdrawn, endedAt>>
RemoveMember(c, g, u) ==
    /\ Allowed(c, "manage_groups") /\ Withdraw
    /\ groups' = [groups EXCEPT ![g].members = @ \ {u}]
    /\ Finish(c) /\ UNCHANGED <<accounts, sessions, bearers, apiTokens, grants, now, endedAt>>

Targets == {<<"user", u, 0>> : u \in DOMAIN accounts} \cup {<<"group", g, groups[g].born>> : g \in DOMAIN groups}
GrantGlobal(c, target, permission) ==
    /\ Allowed(c, "admin")
    /\ grants' = grants \cup {<<target[1], target[2], permission, target[3]>>}
    /\ Finish(c) /\ UNCHANGED <<accounts, sessions, bearers, apiTokens, groups, now, withdrawn, endedAt>>
RevokeGlobal(c, x) ==
    /\ Allowed(c, "admin") /\ Withdraw
    /\ grants' = grants \ {x}
    /\ Finish(c) /\ UNCHANGED <<accounts, sessions, bearers, apiTokens, groups, now, endedAt>>

-----------------------------------------------------------------------------

\* The calls that sign in, and the first two steps of every other call.
SigningIn(c) ==
    \/ \E u \in Users, p \in Passwords : LoginRead(c, u, p)
    \/ LoginIssue(c)
    \/ \E s \in sessions : RefreshExpired(c, s) \/ RefreshRead(c, s)
    \/ RefreshIssue(c)
Entering(c) ==
    \/ \E b \in bearers : AuthenticateBearer(c, b)
    \/ \E t \in apiTokens : AuthenticateToken(c, t)
    \/ \E p \in Permissions : Authorize(c, p)
OwnAffairs(c) ==
    \/ \E s \in sessions : Logout(c, s)
    \/ \E old, new \in Passwords : ChangePassword(c, old, new)
    \/ \E e \in {now, Never} : CreateToken(c, e)
ManagingUsers(c) ==
    \/ \E u \in Users, p \in Passwords : CreateUser(c, u, p)
    \/ \E u \in DOMAIN accounts : Deactivate(c, u) \/ Reactivate(c, u)
    \/ \E t \in apiTokens : DeleteToken(c, t)
ManagingGroups(c) ==
    \/ \E n \in GroupNames : CreateGroup(c, n)
    \/ \E g \in DOMAIN groups : DeleteGroup(c, g) \/ \E u \in DOMAIN accounts : AddMember(c, g, u) \/ RemoveMember(c, g, u)
    \/ \E x \in Targets, p \in Permissions : GrantGlobal(c, x, p)
    \/ \E x \in grants : RevokeGlobal(c, x)

AccessNext ==
    \/ Tick
    \/ \E c \in Callers : SigningIn(c) \/ Entering(c) \/ OwnAffairs(c) \/ ManagingUsers(c) \/ ManagingGroups(c)

AccessSpec == AccessInit /\ [][AccessNext]_accessVars

-----------------------------------------------------------------------------
(* Properties                                                               *)

\* Rows refer to rows, except grants, which have no foreign key; a session is alive or has ended.
AccessTypeOK ==
    /\ DOMAIN accounts \subseteq Users /\ SeededAdmin \in DOMAIN accounts
    /\ \A u \in DOMAIN accounts : accounts[u] \in AccountRows
    /\ \A s \in sessions : s \in SessionRows /\ s.user \in DOMAIN accounts /\ s.id \notin DOMAIN endedAt
    /\ \A b \in bearers : b \in Bearers /\ b.user \in DOMAIN accounts
    /\ \A t \in apiTokens : t \in TokenRows /\ t.user \in DOMAIN accounts
    /\ \A g \in DOMAIN groups : groups[g] \in GroupRows /\ groups[g].members \subseteq DOMAIN accounts
    /\ grants \subseteq GrantRows
    /\ \A c \in Callers : call[c].stage \in {"outside", "login", "refresh", "known", "authorised"}

\* The permissions somebody has because an administrator gave them to him or to a group he is
\* a member of: to that group, not to one before it.
GivenTo(u, permission) ==
    \E x \in grants : /\ x[3] = permission
                      /\ \/ x[1] = "user" /\ x[2] = u
                         \/ \E g \in DOMAIN groups : x[1] = "group" /\ x[2] = g /\ x[4] = groups[g].born /\ u \in groups[g].members

\* Whoever is in a call has an active account, and the permission the call was authorised for was given
\* to him, unless something was taken away after the call began: no token, session or membership
\* of a deleted group stands for more than that (AuthMiddleware, PermissionRepository.HasGlobal).
CallsAreEntitled ==
    /\ AccessTypeOK
    /\ \A c \in Callers :
        call[c].stage \in {"known", "authorised"} /\ call[c].withdrawn = withdrawn
            => /\ ActiveAccount(call[c].user)
               /\ call[c].stage = "authorised" => GivenTo(call[c].user, call[c].permission)

\* An access token is never issued to a session that is over: what a session was good for ends
\* one token lifetime after it, however refreshes, logouts and expiries overlap (docs/architecture.md,
\* "Authentication").
AccessEndsWithSession ==
    \A b \in bearers :
        /\ b.session \in DOMAIN endedAt => b.expires <= endedAt[b.session] + JWTExpiry
        /\ \A s \in sessions : b.session = s.id => b.issued <= s.expires
=============================================================================
