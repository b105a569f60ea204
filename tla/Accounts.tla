------------------------------ MODULE Accounts -------------------------------
(***************************************************************************)
(* Accounts, sessions and API keys of the panel (panel-api:                *)
(* services/users.ts, sessions.ts, mcp-admin.ts, plugins/session.ts,       *)
(* routes/auth.ts, users.ts; packages/shared: db/repos/apiKeys.ts).        *)
(*                                                                         *)
(* People sign in through the identity provider (IdP), whose answer says   *)
(* their role, of any groups somebody gave them meanwhile; the panel caches*)
(* the role in the session and in the account.                             *)
(* The hook onRequest admits a request with the role of its session; the   *)
(* handler runs later, when the body has been read, whatever became of the *)
(* session.  A session whose access token expired asks the IdP for a new   *)
(* one, and its requests wait.  Each database write is one transaction.    *)
(***************************************************************************)
EXTENDS Integers, Sequences, FiniteSets

CONSTANTS
    People,        \* who may sign in: the subs of the IdP
    Service,       \* stands in place of a person: a service account
    Anonymized,    \* ... and: an account made anonymous
    Sids,          \* sessions that may exist together
    NoSession,
    MaxActiveKeys, \* MAX_ACTIVE_KEYS_PER_USER
    MaxAccounts, MaxTokens, MaxRequests    \* bounds

ASSUME AccountsAssumption ==
    /\ {Service, Anonymized} \cap People = {} /\ Service # Anonymized
    /\ {MaxActiveKeys, MaxAccounts, MaxTokens, MaxRequests} \subseteq Nat

VARIABLES
    users,      \* rows of users in the order of creation; keys: active API keys
    session,    \* rows of sessions; token: the newest refresh token
    grants,     \* refresh grants under way, per session: the tokens sent
    admitted,   \* requests between the hook and their handler
    issued      \* refresh tokens the IdP issued

accountVars == <<users, session, grants, admitted, issued>>

Roles == {"admin", "operator"}

AccountsInit ==
    /\ users = <<>>
    /\ session = [s \in Sids |-> NoSession]
    /\ grants = [s \in Sids |-> <<>>]
    /\ admitted = {}
    /\ issued = 0

Live(s) == session[s] # NoSession
IsActive(u) == users[u].status = "active"
ActiveAdmins == {u \in DOMAIN users :
                    users[u].who # Service /\ users[u].role = "admin" /\ IsActive(u)}
SessionsWithout(u) ==
    [s \in Sids |-> IF Live(s) /\ session[s].user = u THEN NoSession ELSE session[s]]

-----------------------------------------------------------------------------
(***************************************************************************)
(* Sessions.                                                               *)
(***************************************************************************)

\* upsertOidcUser
Upserted(p, role) ==
    LET known == {u \in DOMAIN users : users[u].who = p}
    IN  IF known = {}
        THEN Append(users, [who |-> p, status |-> "active", role |-> role,
                             keys |-> 0, revoked |-> FALSE])
        ELSE [u \in DOMAIN users |->
                 IF u \in known THEN [users[u] EXCEPT !.role = role] ELSE users[u]]

\* The callback of /auth, of a person with a group: upsert, look at the
\* status, create the session.
Login(p, role, s) ==
    /\ ~Live(s) /\ grants[s] = <<>>             \* a sid is never used again
    /\ issued < MaxTokens /\ Len(Upserted(p, role)) <= MaxAccounts
    /\ users' = Upserted(p, role)
    /\ LET u == CHOOSE v \in DOMAIN users' : users'[v].who = p
       IN  IF users'[u].status = "active"
           THEN /\ session' = [session EXCEPT ![s] = [user |-> u, role |-> role,
                                                      token |-> issued + 1, expired |-> FALSE]]
                /\ issued' = issued + 1
           ELSE UNCHANGED <<session, issued>>
    /\ UNCHANGED <<grants, admitted>>

AccessTokenExpires(s) ==
    /\ Live(s) /\ ~session[s].expired
    /\ session' = [session EXCEPT ![s].expired = TRUE]
    /\ UNCHANGED <<users, grants, admitted, issued>>

Admission(s, role) == [user |-> session[s].user, role |-> role, sid |-> s]
Admits(req) ==
    /\ Cardinality(admitted \cup {req}) <= MaxRequests
    /\ admitted' = admitted \cup {req}

\* A fault: every request that finds the token expired sends a grant.
GrantAnyway(s) == Len(grants[s]) < 2

\* refreshSession: one grant per session; the other requests wait for it.
NoGrantYet(s) == grants[s] = <<>>

\* The hook onRequest.
Request(s) ==
    /\ Live(s) /\ IsActive(session[s].user)
    /\ IF session[s].expired
       THEN /\ NoGrantYet(s)
            /\ grants' = [grants EXCEPT ![s] = Append(@, session[s].token)]
            /\ UNCHANGED admitted
       ELSE Admits(Admission(s, session[s].role)) /\ UNCHANGED grants
    /\ UNCHANGED <<users, session, issued>>

EndSession(s) == session' = [session EXCEPT ![s] = NoSession]

\* doRefresh, after the grant: the row is read again, the groups are mapped,
\* the tokens are stored; the account's role follows where the session's
\* changed.  The requests that waited are admitted.
GrantSucceeds(s, role) ==
    /\ grants[s] # <<>> /\ Live(s)
    /\ Head(grants[s]) = session[s].token       \* the IdP takes a token once
    /\ issued < MaxTokens
    /\ LET u == session[s].user
       IN  /\ session' = [session EXCEPT ![s] = [user |-> u, role |-> role,
                                                 token |-> issued + 1, expired |-> FALSE]]
           /\ users' = IF role # session[s].role
                       THEN [users EXCEPT ![u].role = role] ELSE users
           /\ Admits(Admission(s, role))
    /\ grants' = [grants EXCEPT ![s] = Tail(@)]
    /\ issued' = issued + 1

\* The IdP refuses or does not answer, the person has no group left, or the
\* session is gone meanwhile: it is deleted.
GrantFails(s) ==
    /\ grants[s] # <<>>
    /\ EndSession(s)
    /\ grants' = [grants EXCEPT ![s] = Tail(@)]
    /\ UNCHANGED <<users, admitted, issued>>

\* The idle or the absolute term passes: the hook or sweepExpired deletes it.
SessionEnds(s) ==
    /\ Live(s) /\ EndSession(s)
    /\ UNCHANGED <<users, grants, admitted, issued>>

PanelRestarted ==
    /\ admitted # {} \/ \E s \in Sids : grants[s] # <<>>
    /\ admitted' = {} /\ grants' = [s \in Sids |-> <<>>]
    /\ UNCHANGED <<users, session, issued>>

-----------------------------------------------------------------------------
(***************************************************************************)
(* Handlers of admitted requests.  One that refuses, or only reads, leaves *)
(* everything as it is.                                                    *)
(***************************************************************************)

Handles(req) ==
    /\ req \in admitted /\ admitted' = admitted \ {req}
    /\ UNCHANGED <<grants, issued>>

Refuses(req) == Handles(req) /\ UNCHANGED <<users, session>>

Logout(req) == Handles(req) /\ EndSession(req.sid) /\ UNCHANGED users

CreateServiceUser(req) ==
    /\ Handles(req) /\ req.role = "admin"
    /\ Len(users) < MaxAccounts
    /\ users' = Append(users, [who |-> Service, status |-> "active", role |-> "operator",
                               keys |-> 0, revoked |-> FALSE])
    /\ UNCHANGED session

\* A fault: only the actor's own account is spared.
SparesTheActor(req, u) == IsActive(u) => u # req.user

\* setUserStatus: neither one's own account nor the last active admin.
MayDisable(req, u) ==
    IsActive(u) => u # req.user /\ (u \in ActiveAdmins => Cardinality(ActiveAdmins) > 1)

KeysRevoked(row) == [row EXCEPT !.keys = 0, !.revoked = @ \/ row.keys > 0]

Disable(req, u) ==
    /\ Handles(req) /\ req.role = "admin"
    /\ MayDisable(req, u)
    /\ users' = [users EXCEPT ![u] = KeysRevoked([@ EXCEPT !.status = "disabled"])]
    /\ session' = SessionsWithout(u)

Enable(req, u) ==
    /\ Handles(req) /\ req.role = "admin"
    /\ users' = [users EXCEPT ![u].status = "active"]
    /\ UNCHANGED session

\* anonymizeUser: whoever had the account signs in to a new one.
Anonymize(req, u) ==
    /\ Handles(req) /\ req.role = "admin"
    /\ ~IsActive(u) /\ users[u].who # Anonymized
    /\ users' = [users EXCEPT ![u] =
                    KeysRevoked([users[u] EXCEPT !.who = IF @ = Service THEN @ ELSE Anonymized])]
    /\ session' = SessionsWithout(u)

OwnOrAdmin(req, u) == req.role = "admin" \/ u = req.user

\* createKeyForUser
CreateKey(req, u) ==
    /\ Handles(req) /\ OwnOrAdmin(req, u)
    /\ IsActive(u) /\ users[u].keys < MaxActiveKeys
    /\ users' = [users EXCEPT ![u].keys = @ + 1]
    /\ UNCHANGED session

\* A fault: a key is rotated whatever its status.
AnyKey(u) == users[u].keys > 0 \/ users[u].revoked

ActiveKey(u) == users[u].keys > 0

\* rotateKey: the owner's status is not asked, the key's is.
RotateKey(req, u) ==
    /\ Handles(req) /\ OwnOrAdmin(req, u)
    /\ ActiveKey(u)
    /\ users' = [users EXCEPT ![u].keys = IF @ = 0 THEN 1 ELSE @, ![u].revoked = TRUE]
    /\ UNCHANGED session

Revoked(u) == [users EXCEPT ![u].keys = @ - 1, ![u].revoked = TRUE]

RevokeKey(req, u) ==
    /\ Handles(req) /\ OwnOrAdmin(req, u)
    /\ users[u].keys > 0 /\ users' = Revoked(u)
    /\ UNCHANGED session

\* expireSweep
KeyExpires(u) ==
    /\ users[u].keys > 0 /\ users' = Revoked(u)
    /\ UNCHANGED <<session, grants, admitted, issued>>

AccountsNext ==
    \/ \E s \in Sids, role \in Roles :
          GrantSucceeds(s, role) \/ \E p \in People : Login(p, role, s)
    \/ \E s \in Sids : AccessTokenExpires(s) \/ Request(s) \/ GrantFails(s) \/ SessionEnds(s)
    \/ PanelRestarted
    \/ \E req \in admitted :
          \/ Refuses(req) \/ Logout(req) \/ CreateServiceUser(req)
          \/ \E u \in DOMAIN users :
                \/ Disable(req, u) \/ Enable(req, u) \/ Anonymize(req, u)
                \/ CreateKey(req, u) \/ RotateKey(req, u) \/ RevokeKey(req, u)
    \/ \E u \in DOMAIN users : KeyExpires(u)

AccountsSpec == AccountsInit /\ [][AccountsNext]_accountVars

-----------------------------------------------------------------------------
(***************************************************************************)
(* Properties.                                                             *)
(***************************************************************************)

\* Every variable keeps its type.
AccountsTypeOK ==
    /\ \A u \in DOMAIN users :
          users[u] \in [who : People \cup {Service, Anonymized}, status : {"active", "disabled"},
                        role : Roles, keys : 0..MaxActiveKeys, revoked : BOOLEAN]
    /\ \A s \in Sids : Live(s) =>
          session[s] \in [user : DOMAIN users, role : Roles, token : 1..issued, expired : BOOLEAN]
    /\ admitted \subseteq [user : DOMAIN users, role : Roles, sid : Sids]

(***************************************************************************)
(* A disabled account is out ("natychmiastowa utrata dostępu", users.ts):  *)
(* it has no session and no active key, whatever logins, refreshes, waiting*)
(* requests and handlers of its own were under way when it was disabled.   *)
(***************************************************************************)
DisabledMeansOut ==
    \A u \in DOMAIN users : ~IsActive(u) =>
        /\ users[u].keys = 0
        /\ \A s \in Sids : Live(s) => session[s].user # u

(***************************************************************************)
(* A session has one refresh under way, with its newest token ("mutex per  *)
(* sesja", session.ts): concurrent requests do not send a token twice,     *)
(* which the IdP refuses and which ends the session.                       *)
(***************************************************************************)
OneRefreshAtATime ==
    \A s \in Sids :
        /\ Len(grants[s]) <= 1
        /\ grants[s] # <<>> /\ Live(s) => Head(grants[s]) = session[s].token

(***************************************************************************)
(* Whoever disables whom at the same moment, also with a request admitted  *)
(* before its sender was disabled, an active admin account stays, unless   *)
(* the IdP takes the role away (users.ts, setUserStatus).                  *)
(***************************************************************************)
AnAdminStays ==
    [][ActiveAdmins # {} =>
          \/ ActiveAdmins' # {}
          \/ \E u \in DOMAIN users : users'[u].role # users[u].role]_accountVars

=============================================================================
