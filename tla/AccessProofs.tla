---------------------------- MODULE AccessProofs ----------------------------
(***************************************************************************)
(* Who gets in at the MCP server and at the panel, for any terms, limits,  *)
(* people, sessions and buckets: the caches forget in time, a session has  *)
(* one refresh under way, a disabled account is out and an admin stays,    *)
(* and no window lets more through than the limit.                         *)
(***************************************************************************)
EXTENDS McpAccess, Accounts, RateLimiter, DataLemmas

(***************************************************************************)
(* The caches.  A cached entry that is wrong was made when it was right:   *)
(* what it has left and the time it has been wrong fit into its term.      *)
(***************************************************************************)
CacheInv ==
    /\ McpTypeOK
    /\ authLeft > 0 /\ ~Good => authLeft + badFor <= Ttl
    /\ profLeft > 0 /\ profSees /\ ~Visible => profLeft + hiddenFor <= Ttl
    /\ negLeft > 0 /\ Good => negLeft + goodFor <= NegTtl

\* The caches start empty.
LEMMA CacheInitially == McpInit => CacheInv
BY McpAssumption DEF McpInit, CacheInv, McpTypeOK, Good, Visible

\* A tick takes from what an entry has left what it adds to its error.
LEMMA TickKeeps == CacheInv /\ Tick => CacheInv'
<1> SUFFICES ASSUME CacheInv, Tick PROVE CacheInv'
  OBVIOUS
<1>1. Good' = Good /\ Visible' = Visible
  BY DEF Tick, stored, Good, Visible
<1> QED
  BY <1>1, McpAssumption, SMTT(30) DEF CacheInv, McpTypeOK, Tick, stored, Less, Older

\* A call caches only what is right now, and renews nothing.
LEMMA CallKeeps == CacheInv /\ Call => CacheInv'
<1> SUFFICES ASSUME CacheInv, Call PROVE CacheInv'
  OBVIOUS
<1>1. Good' = Good /\ Visible' = Visible /\ UNCHANGED ages
  BY DEF Call, stored, Good, Visible
<1>2. \/ authLeft' = authLeft /\ negLeft' = negLeft
      \/ Good /\ authLeft' = Ttl /\ negLeft' = negLeft
      \/ ~Good /\ negLeft' = NegTtl /\ authLeft' = authLeft
  BY DEF Call, Verify, HitKeeps
<1>3. \/ profLeft' = profLeft /\ profSees' = profSees
      \/ profLeft' = Ttl /\ profSees' = Visible
  BY DEF Call, GetProfile
<1>4. key' = key /\ profile' = profile
  BY DEF Call, stored
<1>5. McpTypeOK'
  BY <1>1, <1>2, <1>3, <1>4, McpAssumption DEF CacheInv, McpTypeOK, ages
<1> QED
  BY <1>1, <1>2, <1>3, <1>5, McpAssumption, SMTT(30) DEF CacheInv, McpTypeOK, ages

\* A change in the panel starts the time of what it makes wrong.
LEMMA ChangeKeeps ==
    ASSUME CacheInv, NEW k \in {"active", "revoked", "expired"},
           NEW p \in [enabled : BOOLEAN, lists : BOOLEAN], NEW b, Changes(k, p, b)
    PROVE  CacheInv'
<1>1. McpTypeOK'
  BY McpAssumption DEF Changes, CacheInv, McpTypeOK, cached
<1> QED
  BY <1>1, McpAssumption, SMTT(30) DEF Changes, CacheInv, McpTypeOK, cached

\* Every call, invalidation and passing minute keeps what the caches say
\* within their terms.
LEMMA McpStep == CacheInv /\ [McpNext]_mcpVars => CacheInv'
<1> SUFFICES ASSUME CacheInv, [McpNext]_mcpVars PROVE CacheInv'
  OBVIOUS
<1>1. CASE Tick
  BY <1>1, TickKeeps
<1>2. CASE Call
  BY <1>2, CallKeeps
<1>3. CASE McpRestarts \/ InvalidateArrives
  BY <1>3, McpAssumption
  DEF McpRestarts, InvalidateArrives, Forget, stored, ages, CacheInv, McpTypeOK, Good, Visible
<1>4. CASE InvalidateIsLost \/ UNCHANGED mcpVars
  BY <1>4 DEF InvalidateIsLost, mcpVars, stored, cached, ages, CacheInv, McpTypeOK, Good, Visible
<1>5. CASE RevokeTheKey \/ KeyTermPasses \/ BaseStatus
  <2>1. profile \in [enabled : BOOLEAN, lists : BOOLEAN] /\ key \in {"active", "revoked", "expired"}
    BY DEF CacheInv, McpTypeOK
  <2> QED
    BY <1>5, <2>1, ChangeKeeps DEF RevokeTheKey, KeyTermPasses, BaseStatus
<1>6. CASE \E p \in [enabled : BOOLEAN, lists : BOOLEAN] : PatchProfile(p)
  <2>1. PICK p \in [enabled : BOOLEAN, lists : BOOLEAN] : PatchProfile(p)
    BY <1>6
  <2>2. key \in {"active", "revoked", "expired"}
    BY DEF CacheInv, McpTypeOK
  <2> QED
    BY <2>1, <2>2, ChangeKeeps DEF PatchProfile
<1> QED
  BY <1>1, <1>2, <1>3, <1>4, <1>5, <1>6 DEF McpNext

(***************************************************************************)
(* Whatever the terms of the caches: a key that is revoked, disabled or    *)
(* expired is refused after Ttl, a hidden base is unseen after Ttl, and a  *)
(* key that became good is admitted after NegTtl, also when every          *)
(* invalidation is lost.                                                   *)
(***************************************************************************)
THEOREM CachesForget == McpSpec => []CachesForgetInTime
<1>1. CacheInv => CachesForgetInTime
  BY McpAssumption
  DEF CacheInv, McpTypeOK, CachesForgetInTime, Admitted, SeesBase, Verified, Good, Visible
<1> QED
  BY <1>1, CacheInitially, McpStep, PTL DEF McpSpec

-----------------------------------------------------------------------------
(***************************************************************************)
(* The accounts.  An account in use is active; a session's grant carries   *)
(* the token the session has; an account that is not active has no key.    *)
(***************************************************************************)
Row == [who : People \cup {Service, Anonymized}, status : {"active", "disabled"},
        role : Roles, keys : Nat, revoked : BOOLEAN]

\* A session.
SessionRow == [user : Nat, role : Roles, token : Nat, expired : BOOLEAN]

\* The types.
RowsPart ==
    /\ users \in Seq(Row)
    /\ session \in [Sids -> {NoSession} \cup SessionRow]
    /\ grants \in [Sids -> {<<>>} \cup {<<n>> : n \in Nat}]
    /\ issued \in Nat
    /\ admitted \subseteq [user : Nat, role : Roles, sid : Sids]

\* An account that is not active has neither keys nor sessions.
OutPart ==
    /\ \A u \in DOMAIN users : IsActive(u) \/ users[u].keys = 0
    /\ \A s \in Sids : Live(s) => session[s].user \in DOMAIN users /\ IsActive(session[s].user)

\* What a live session was granted, it was granted for its present token.
GrantPart == \A s \in Sids : Live(s) /\ grants[s] # <<>> => grants[s] = <<session[s].token>>

\* All three.
AccountInv == RowsPart /\ OutPart /\ GrantPart

\* There is no session at the start.
LEMMA AccountsInitially == AccountsInit => AccountInv
<1> SUFFICES ASSUME AccountsInit PROVE AccountInv
  OBVIOUS
<1>1. users = <<>> /\ users \in Seq(Row) /\ DOMAIN users = {}
  BY DEF AccountsInit
<1> QED
  BY <1>1 DEF AccountsInit, AccountInv, RowsPart, OutPart, GrantPart, Live

\* One row is written.
LEMMA RowWritten ==
    ASSUME NEW us \in Seq(Row), NEW u \in DOMAIN us, NEW r \in Row
    PROVE  LET new == [us EXCEPT ![u] = r]
           IN  /\ new \in Seq(Row) /\ DOMAIN new = DOMAIN us
               /\ \A v \in DOMAIN us : new[v] = IF v = u THEN r ELSE us[v]
BY ExceptSeq, LenProperties

\* A row is added.
LEMMA RowAdded ==
    ASSUME NEW us \in Seq(Row), NEW r \in Row
    PROVE  LET new == Append(us, r)
           IN  /\ new \in Seq(Row) /\ DOMAIN new = 1..(Len(us) + 1) /\ DOMAIN us = 1..Len(us)
               /\ Len(us) \in Nat /\ new[Len(us) + 1] = r
               /\ \A v \in DOMAIN us : new[v] = us[v]
BY AppendProperties, LenProperties

\* A sign-in leaves the status and the keys of every account alone.
LEMMA UpsertKeeps ==
    ASSUME RowsPart, NEW p \in People, NEW role \in Roles
    PROVE  LET new == Upserted(p, role)
           IN  /\ new \in Seq(Row)
               /\ DOMAIN users \subseteq DOMAIN new
               /\ \A u \in DOMAIN users :
                     new[u].status = users[u].status /\ new[u].keys = users[u].keys
               /\ \A u \in DOMAIN new \ DOMAIN users : new[u].status = "active" /\ new[u].keys = 0
               /\ \E u \in DOMAIN new : new[u].who = p
<1> DEFINE known == {u \in DOMAIN users : users[u].who = p}
<1> DEFINE r == [who |-> p, status |-> "active", role |-> role, keys |-> 0, revoked |-> FALSE]
<1>1. CASE known = {}
  <2>1. Upserted(p, role) = Append(users, r)
    BY <1>1 DEF Upserted
  <2>2. r \in Row
    BY DEF Row
  <2> QED
    BY <2>1, <2>2, RowAdded DEF RowsPart
<1>2. CASE known # {}
  <2> DEFINE new == [u \in DOMAIN users |->
                       IF u \in known THEN [users[u] EXCEPT !.role = role] ELSE users[u]]
  <2>1. Upserted(p, role) = new
    BY <1>2 DEF Upserted
  <2>2. Len(users) \in Nat /\ DOMAIN users = 1..Len(users) /\ \A u \in DOMAIN users : users[u] \in Row
    BY LenProperties, ElementOfSeq DEF RowsPart
  <2>3. \A u \in DOMAIN users : /\ new[u] \in Row /\ new[u].status = users[u].status
                                /\ new[u].keys = users[u].keys /\ new[u].who = users[u].who
    BY <2>2 DEF Row
  <2>4. new \in Seq(Row)
    BY <2>2, <2>3
  <2> QED
    BY <1>2, <2>1, <2>3, <2>4
<1> QED
  BY <1>1, <1>2

-----------------------------------------------------------------------------
\* What each kind of step keeps.

\* A login.
LEMMA LoginKeeps ==
    ASSUME AccountInv, NEW p \in People, NEW role \in Roles, NEW s \in Sids, Login(p, role, s)
    PROVE  AccountInv'
<1> DEFINE u == CHOOSE v \in DOMAIN users' : users'[v].who = p
<1>1. RowsPart
  BY DEF AccountInv
<1>2. /\ users' \in Seq(Row) /\ DOMAIN users \subseteq DOMAIN users'
      /\ \A v \in DOMAIN users :
            users'[v].status = users[v].status /\ users'[v].keys = users[v].keys
      /\ \A v \in DOMAIN users' \ DOMAIN users : users'[v].status = "active" /\ users'[v].keys = 0
      /\ \E v \in DOMAIN users' : users'[v].who = p
  BY <1>1, UpsertKeeps DEF Login
<1>3. u \in DOMAIN users' /\ u \in Nat
  BY <1>2, LenProperties
<1>4. /\ grants' = grants /\ admitted' = admitted
      /\ \/ /\ session' = session /\ issued' = issued
         \/ /\ users'[u].status = "active" /\ issued' = issued + 1
            /\ session' = [session EXCEPT ![s] = [user |-> u, role |-> role,
                                                  token |-> issued + 1, expired |-> FALSE]]
      /\ grants[s] = <<>>
  BY DEF Login
<1> HIDE DEF u
<1>5. RowsPart'
  <2>1. [user |-> u, role |-> role, token |-> issued + 1, expired |-> FALSE] \in SessionRow
        /\ issued + 1 \in Nat
    BY <1>1, <1>3 DEF RowsPart, SessionRow
  <2> QED
    BY <1>1, <1>2, <1>4, <2>1 DEF RowsPart
<1>6. OutPart'
  <2>1. \A v \in DOMAIN users' : IsActive(v)' \/ users'[v].keys = 0
    BY <1>2 DEF AccountInv, OutPart, IsActive
  <2>3. \A v \in DOMAIN users : v \in DOMAIN users' /\ (IsActive(v) => users'[v].status = "active")
    BY <1>2 DEF IsActive
  <2>2. \A q \in Sids : Live(q)' => session'[q].user \in DOMAIN users' /\ users'[session'[q].user].status = "active"
    <3> SUFFICES ASSUME NEW q \in Sids, Live(q)'
                 PROVE  session'[q].user \in DOMAIN users' /\ users'[session'[q].user].status = "active"
      OBVIOUS
    <3>1. CASE session'[q] = session[q]
      BY <2>3, <3>1 DEF AccountInv, OutPart, Live
    <3>2. CASE q = s /\ session' # session
      BY <1>1, <1>3, <1>4, <3>2 DEF RowsPart
    <3> QED
      BY <1>1, <1>4, <3>1, <3>2 DEF RowsPart
  <2> QED
    BY <2>1, <2>2 DEF OutPart, IsActive
<1>7. GrantPart'
  BY <1>1, <1>4 DEF AccountInv, GrantPart, RowsPart, Live
<1> QED
  BY <1>5, <1>6, <1>7 DEF AccountInv

\* An access token expires.
LEMMA ExpiryKeeps ==
    ASSUME AccountInv, NEW s \in Sids, AccessTokenExpires(s)
    PROVE  AccountInv'
<1>1. session[s] \in SessionRow /\ RowsPart
  BY DEF AccountInv, RowsPart, AccessTokenExpires, Live
<1>2. \A q \in Sids : /\ Live(q)' => Live(q)
                      /\ Live(q) => /\ session'[q] \in SessionRow
                                    /\ session'[q].user = session[q].user
                                    /\ session'[q].token = session[q].token
  BY <1>1 DEF AccountInv, RowsPart, AccessTokenExpires, Live, SessionRow
<1>3. UNCHANGED <<users, grants, admitted, issued>>
  BY DEF AccessTokenExpires
<1>4. RowsPart'
  BY <1>1, <1>3 DEF RowsPart, AccessTokenExpires, SessionRow
<1>5. OutPart'
  BY <1>2, <1>3 DEF AccountInv, OutPart, IsActive
<1>6. GrantPart'
  BY <1>2, <1>3 DEF AccountInv, GrantPart
<1> QED
  BY <1>4, <1>5, <1>6 DEF AccountInv

\* A request is admitted.
LEMMA RequestKeeps ==
    ASSUME AccountInv, NEW s \in Sids, Request(s)
    PROVE  AccountInv'
<1>1. session[s] \in SessionRow /\ RowsPart
  BY DEF AccountInv, RowsPart, Request, Live
<1>2. UNCHANGED <<users, session, issued>>
  BY DEF Request
<1>3. \/ grants' = grants
      \/ grants' = [grants EXCEPT ![s] = <<session[s].token>>]
  <2>1. CASE session[s].expired
    <3>1. Append(<<>>, session[s].token) = <<session[s].token>>
      OBVIOUS
    <3> QED
      BY <2>1, <3>1 DEF Request, NoGrantYet
  <2>2. CASE ~session[s].expired
    BY <2>2 DEF Request
  <2> QED
    BY <2>1, <2>2
<1>4. admitted' \subseteq admitted \cup {Admission(s, session[s].role)}
  BY DEF Request, Admits
<1>5. RowsPart'
  BY <1>1, <1>2, <1>3, <1>4 DEF RowsPart, SessionRow, Admission
<1>6. OutPart'
  BY <1>2 DEF AccountInv, OutPart, IsActive, Live
<1>7. GrantPart'
  BY <1>1, <1>2, <1>3 DEF AccountInv, GrantPart, RowsPart, Live
<1> QED
  BY <1>5, <1>6, <1>7 DEF AccountInv

\* A refresh succeeds.
LEMMA GrantKeeps ==
    ASSUME AccountInv, NEW s \in Sids, NEW role \in Roles, GrantSucceeds(s, role)
    PROVE  AccountInv'
<1>1. session[s] \in SessionRow /\ RowsPart
  BY DEF AccountInv, RowsPart, GrantSucceeds, Live
<1> DEFINE u == session[s].user
<1>2. u \in DOMAIN users /\ IsActive(u) /\ u \in Nat
  BY <1>1 DEF AccountInv, OutPart, SessionRow, GrantSucceeds
<1>3. /\ users' = users \/ users' = [users EXCEPT ![u] = [users[u] EXCEPT !.role = role]]
      /\ session' = [session EXCEPT ![s] = [user |-> u, role |-> role,
                                            token |-> issued + 1, expired |-> FALSE]]
      /\ admitted' = admitted \cup {Admission(s, role)}
      /\ grants' = [grants EXCEPT ![s] = Tail(grants[s])]
      /\ issued' = issued + 1
  BY DEF GrantSucceeds, Admits
<1>4. grants'[s] = <<>> /\ grants' \in [Sids -> {<<>>} \cup {<<n>> : n \in Nat}]
  <2>1. \A n \in Nat : Tail(<<n>>) = <<>>
    OBVIOUS
  <2>2. Tail(grants[s]) = <<>>
    BY <1>1, <2>1 DEF GrantSucceeds, RowsPart
  <2> QED
    BY <1>1, <1>3, <2>2 DEF RowsPart
<1>5. /\ users' \in Seq(Row) /\ DOMAIN users' = DOMAIN users
      /\ \A v \in DOMAIN users :
            users'[v].status = users[v].status /\ users'[v].keys = users[v].keys
  <2>1. CASE users' = users
    BY <1>1, <2>1 DEF RowsPart
  <2>2. CASE users' = [users EXCEPT ![u] = [users[u] EXCEPT !.role = role]]
    <3>1. users[u] \in Row
      BY <1>1, <1>2, LenProperties, ElementOfSeq DEF RowsPart
    <3>2. LET r == [users[u] EXCEPT !.role = role]
          IN  r \in Row /\ r.status = users[u].status /\ r.keys = users[u].keys
      BY <3>1 DEF Row
    <3> QED
      BY <1>1, <1>2, <2>2, <3>2, RowWritten DEF RowsPart
  <2> QED
    BY <1>3, <2>1, <2>2
<1>6. RowsPart'
  BY <1>1, <1>2, <1>3, <1>4, <1>5 DEF RowsPart, SessionRow, Admission
<1>7. OutPart'
  BY <1>1, <1>2, <1>3, <1>5 DEF AccountInv, OutPart, IsActive, Live, RowsPart
<1>8. GrantPart'
  BY <1>1, <1>3, <1>4 DEF AccountInv, GrantPart, Live, RowsPart
<1> QED
  BY <1>6, <1>7, <1>8 DEF AccountInv

\* A session ends, or several; a grant may end with it.
LEMMA EndKeeps ==
    ASSUME AccountInv, UNCHANGED <<users, issued>>, admitted' \subseteq admitted,
           session' \in [Sids -> {NoSession} \cup SessionRow],
           \A q \in Sids : Live(q)' => session'[q] = session[q],
           grants' \in [Sids -> {<<>>} \cup {<<n>> : n \in Nat}],
           \A q \in Sids : grants'[q] = <<>> \/ grants'[q] = grants[q]
    PROVE  AccountInv'
<1>1. RowsPart'
  BY DEF AccountInv, RowsPart
<1>2. OutPart'
  BY DEF AccountInv, OutPart, IsActive, Live
<1>3. GrantPart'
  BY DEF AccountInv, GrantPart, Live
<1> QED
  BY <1>1, <1>2, <1>3 DEF AccountInv

\* A handler writes the row of one account, and no other session than those
\* of an account that is no longer active stays or goes.
LEMMA RowKeeps ==
    ASSUME AccountInv, NEW u \in DOMAIN users, NEW r \in Row,
           users' = [users EXCEPT ![u] = r],
           UNCHANGED <<grants, issued>>, admitted' \subseteq admitted,
           r.status = "active" \/ r.keys = 0,
           \/ session' = session /\ (IsActive(u) => r.status = "active")
           \/ session' = SessionsWithout(u)
    PROVE  AccountInv'
<1>1. RowsPart
  BY DEF AccountInv
<1>2. /\ users' \in Seq(Row) /\ DOMAIN users' = DOMAIN users
      /\ \A v \in DOMAIN users : users'[v] = IF v = u THEN r ELSE users[v]
  BY <1>1, RowWritten DEF RowsPart
<1>3. \A q \in Sids : Live(q)' => session'[q] = session[q] /\ Live(q)
  BY DEF SessionsWithout, Live
<1>4. \A q \in Sids : Live(q)' => session[q].user # u \/ (IsActive(u) => r.status = "active")
  BY DEF SessionsWithout, Live
<1>5. session' \in [Sids -> {NoSession} \cup SessionRow]
  BY <1>1 DEF RowsPart, SessionsWithout
<1>6. RowsPart'
  BY <1>1, <1>2, <1>5 DEF RowsPart
<1>7. OutPart'
  <2>1. \A v \in DOMAIN users' : IsActive(v)' \/ users'[v].keys = 0
    BY <1>2 DEF AccountInv, OutPart, IsActive
  <2>2. \A q \in Sids : Live(q)' => /\ session'[q].user \in DOMAIN users'
                                    /\ users'[session'[q].user].status = "active"
    BY <1>2, <1>3, <1>4 DEF AccountInv, OutPart, IsActive
  <2> QED
    BY <2>1, <2>2 DEF OutPart, IsActive
<1>8. GrantPart'
  BY <1>3 DEF AccountInv, GrantPart
<1> QED
  BY <1>6, <1>7, <1>8 DEF AccountInv

\* A row of the users.
LEMMA RowOf ==
    ASSUME AccountInv, NEW u \in DOMAIN users
    PROVE  users[u] \in Row /\ (users[u].status = "active" \/ users[u].keys = 0)
BY LenProperties, ElementOfSeq DEF AccountInv, RowsPart, OutPart, IsActive

\* An account is disabled or anonymized: its sessions and keys go.
LEMMA DisableKeeps ==
    ASSUME AccountInv, NEW req \in admitted, NEW u \in DOMAIN users,
           Disable(req, u) \/ Anonymize(req, u)
    PROVE  AccountInv'
<1>1. users[u] \in Row
  BY RowOf
<1>2. CASE Disable(req, u)
  <2> DEFINE r == [users[u] EXCEPT !.status = "disabled", !.keys = 0,
                                   !.revoked = @ \/ users[u].keys > 0]
  <2>1. r \in Row /\ r.keys = 0
    BY <1>1 DEF Row
  <2>2. users' = [users EXCEPT ![u] = r]
    BY <1>1, <1>2 DEF Disable, KeysRevoked, Row
  <2>3. UNCHANGED <<grants, issued>> /\ admitted' \subseteq admitted /\ session' = SessionsWithout(u)
    BY <1>2 DEF Disable, Handles
  <2> HIDE DEF r
  <2> QED
    BY <2>1, <2>2, <2>3, RowKeeps
<1>3. CASE Anonymize(req, u)
  <2> DEFINE r == [users[u] EXCEPT !.who = IF @ = Service THEN Service ELSE Anonymized,
                                   !.keys = 0, !.revoked = @ \/ users[u].keys > 0]
  <2>1. r \in Row /\ r.keys = 0
    BY <1>1 DEF Row
  <2>2. users' = [users EXCEPT ![u] = r]
    <3> DEFINE who == IF users[u].who = Service THEN Service ELSE Anonymized
    <3>1. users' = [users EXCEPT ![u] = KeysRevoked([users[u] EXCEPT !.who = who])]
      BY <1>3 DEF Anonymize
    <3>2. KeysRevoked([users[u] EXCEPT !.who = who]) = r
      BY <1>1 DEF KeysRevoked, Row
    <3> QED
      BY <3>1, <3>2
  <2>3. UNCHANGED <<grants, issued>> /\ admitted' \subseteq admitted /\ session' = SessionsWithout(u)
    BY <1>3 DEF Anonymize, Handles
  <2> HIDE DEF r
  <2> QED
    BY <2>1, <2>2, <2>3, RowKeeps
<1> QED
  BY <1>2, <1>3

\* An account is enabled.
LEMMA EnableKeeps ==
    ASSUME AccountInv, NEW req \in admitted, NEW u \in DOMAIN users, Enable(req, u)
    PROVE  AccountInv'
<1> DEFINE r == [users[u] EXCEPT !.status = "active"]
<1>1. r \in Row /\ r.status = "active"
  BY RowOf DEF Row
<1>2. users' = [users EXCEPT ![u] = r]
  BY DEF Enable
<1>3. UNCHANGED <<grants, issued, session>> /\ admitted' \subseteq admitted
  BY DEF Enable, Handles
<1> HIDE DEF r
<1> QED
  BY <1>1, <1>2, <1>3, RowKeeps

\* A key is made, rotated, revoked or expires: only of an active account,
\* for any other has none.
LEMMA KeyKeeps ==
    ASSUME AccountInv, NEW u \in DOMAIN users, NEW k \in Nat, NEW b \in BOOLEAN,
           users' = [users EXCEPT ![u] = [users[u] EXCEPT !.keys = k, !.revoked = b]],
           users[u].keys > 0 \/ IsActive(u),
           UNCHANGED <<grants, issued, session>>, admitted' \subseteq admitted
    PROVE  AccountInv'
<1> DEFINE r == [users[u] EXCEPT !.keys = k, !.revoked = b]
<1>1. users[u] \in Row /\ users[u].status = "active"
  BY RowOf DEF IsActive, Row
<1>2. r \in Row /\ r.status = "active"
  BY <1>1 DEF Row
<1> HIDE DEF r
<1>3. users' = [users EXCEPT ![u] = r]
  BY DEF r
<1> QED
  BY <1>2, <1>3, RowKeeps

\* Keys are made, rotated and revoked, and expire.
LEMMA KeyStepKeeps ==
    ASSUME AccountInv, NEW u \in DOMAIN users,
           \/ KeyExpires(u)
           \/ \E req \in admitted : CreateKey(req, u) \/ RotateKey(req, u) \/ RevokeKey(req, u)
    PROVE  AccountInv'
<1>1. users[u] \in Row
  BY RowOf
<1>2. UNCHANGED <<grants, issued, session>> /\ admitted' \subseteq admitted
  BY DEF KeyExpires, CreateKey, RotateKey, RevokeKey, Handles
<1>3. CASE KeyExpires(u) \/ \E req \in admitted : RevokeKey(req, u)
  <2>1. users[u].keys > 0 /\ users[u].keys - 1 \in Nat
    BY <1>1, <1>3 DEF KeyExpires, RevokeKey, Row
  <2>2. users' = [users EXCEPT ![u] = [users[u] EXCEPT !.keys = users[u].keys - 1, !.revoked = TRUE]]
    BY <1>1, <1>3 DEF KeyExpires, RevokeKey, Revoked, Row
  <2> QED
    BY <1>2, <2>1, <2>2, KeyKeeps
<1>4. CASE \E req \in admitted : CreateKey(req, u)
  <2>1. IsActive(u) /\ users[u].keys + 1 \in Nat /\ users[u].revoked \in BOOLEAN
    BY <1>1, <1>4 DEF CreateKey, Row
  <2>2. users' = [users EXCEPT ![u] = [users[u] EXCEPT !.keys = users[u].keys + 1,
                                                       !.revoked = users[u].revoked]]
    BY <1>1, <1>4 DEF CreateKey, Row
  <2> QED
    BY <1>2, <2>1, <2>2, KeyKeeps
<1>5. CASE \E req \in admitted : RotateKey(req, u)
  <2>1. users[u].keys > 0 /\ users[u].keys \in Nat
    BY <1>1, <1>5 DEF RotateKey, ActiveKey, Row
  <2>2. users' = [users EXCEPT ![u] = [users[u] EXCEPT !.keys = users[u].keys, !.revoked = TRUE]]
    <3> DEFINE n == IF users[u].keys = 0 THEN 1 ELSE users[u].keys
    <3>1. users' = [[users EXCEPT ![u].keys = n] EXCEPT ![u].revoked = TRUE]
      BY <1>5 DEF RotateKey
    <3>2. n = users[u].keys
      BY <2>1
    <3> HIDE DEF n
    <3>3. users' = [users EXCEPT ![u] = [[users[u] EXCEPT !.keys = n] EXCEPT !.revoked = TRUE]]
      BY <3>1
    <3>4. [[users[u] EXCEPT !.keys = n] EXCEPT !.revoked = TRUE]
            = [users[u] EXCEPT !.keys = users[u].keys, !.revoked = TRUE]
      BY <3>2
    <3> QED
      BY <3>3, <3>4
  <2> QED
    BY <1>2, <2>1, <2>2, KeyKeeps
<1> QED
  BY <1>3, <1>4, <1>5

\* A service account is created.
LEMMA CreateUserKeeps ==
    ASSUME AccountInv, NEW req \in admitted, CreateServiceUser(req)
    PROVE  AccountInv'
<1> DEFINE r == [who |-> Service, status |-> "active", role |-> "operator",
                 keys |-> 0, revoked |-> FALSE]
<1>1. r \in Row /\ r.status = "active"
  BY DEF Row, Roles
<1>2. users' = Append(users, r) /\ UNCHANGED <<grants, issued, session>> /\ admitted' \subseteq admitted
  BY DEF CreateServiceUser, Handles
<1> HIDE DEF r
<1>3. /\ users' \in Seq(Row) /\ DOMAIN users \subseteq DOMAIN users'
      /\ \A v \in DOMAIN users : users'[v] = users[v]
      /\ \A v \in DOMAIN users' \ DOMAIN users : users'[v].status = "active"
  BY <1>1, <1>2, RowAdded DEF AccountInv, RowsPart
<1>4. RowsPart'
  BY <1>2, <1>3 DEF AccountInv, RowsPart
<1>5. OutPart'
  BY <1>2, <1>3 DEF AccountInv, OutPart, IsActive, Live
<1>6. GrantPart'
  BY <1>2 DEF AccountInv, GrantPart, Live
<1> QED
  BY <1>4, <1>5, <1>6 DEF AccountInv

\* The sessions that end, and the restart: what goes is never used again.
LEMMA SessionStepKeeps ==
    ASSUME AccountInv,
           \/ PanelRestarted
           \/ \E s \in Sids : GrantFails(s) \/ SessionEnds(s)
           \/ \E req \in admitted : Refuses(req) \/ Logout(req)
    PROVE  AccountInv'
<1>1. RowsPart
  BY DEF AccountInv
<1>2. \A s \in Sids : Tail(grants[s]) = <<>> \/ grants[s] = <<>>
  <2>1. \A n \in Nat : Tail(<<n>>) = <<>>
    OBVIOUS
  <2> QED
    BY <1>1, <2>1 DEF RowsPart
<1>3. CASE PanelRestarted
  BY <1>1, <1>3, EndKeeps DEF PanelRestarted, RowsPart, Live
<1>4. CASE \E s \in Sids : GrantFails(s)
  <2> PICK s \in Sids : GrantFails(s)
    BY <1>4
  <2>1. /\ session' = [session EXCEPT ![s] = NoSession]
        /\ grants' = [grants EXCEPT ![s] = <<>>]
        /\ UNCHANGED <<users, admitted, issued>>
    BY <1>2 DEF GrantFails, EndSession
  <2> QED
    BY <1>1, <2>1, EndKeeps DEF RowsPart, Live
<1>5. CASE \E s \in Sids : SessionEnds(s)
  BY <1>1, <1>5, EndKeeps DEF SessionEnds, EndSession, RowsPart, Live
<1>6. CASE \E req \in admitted : Refuses(req)
  BY <1>1, <1>6, EndKeeps DEF Refuses, Handles, RowsPart, Live
<1>7. CASE \E req \in admitted : Logout(req)
  BY <1>1, <1>7, EndKeeps DEF Logout, Handles, EndSession, RowsPart, Live
<1> QED
  BY <1>3, <1>4, <1>5, <1>6, <1>7

\* Every step of the accounts.
LEMMA AccountStep ==
    ASSUME AccountInv, [AccountsNext]_accountVars
    PROVE  AccountInv'
<1>1. CASE \E s \in Sids, role \in Roles :
              GrantSucceeds(s, role) \/ \E p \in People : Login(p, role, s)
  BY <1>1, GrantKeeps, LoginKeeps
<1>2. CASE \E s \in Sids : AccessTokenExpires(s) \/ Request(s)
  BY <1>2, ExpiryKeeps, RequestKeeps
<1>3. CASE \/ PanelRestarted
           \/ \E s \in Sids : GrantFails(s) \/ SessionEnds(s)
           \/ \E req \in admitted : Refuses(req) \/ Logout(req)
  BY <1>3, SessionStepKeeps
<1>4. CASE \E req \in admitted : CreateServiceUser(req)
  BY <1>4, CreateUserKeeps
<1>5. CASE \E req \in admitted, u \in DOMAIN users : Disable(req, u) \/ Anonymize(req, u)
  BY <1>5, DisableKeeps
<1>6. CASE \E req \in admitted, u \in DOMAIN users : Enable(req, u)
  BY <1>6, EnableKeeps
<1>7. CASE \/ \E u \in DOMAIN users : KeyExpires(u)
           \/ \E req \in admitted, u \in DOMAIN users :
                 CreateKey(req, u) \/ RotateKey(req, u) \/ RevokeKey(req, u)
  BY <1>7, KeyStepKeeps
<1>8. CASE UNCHANGED accountVars
  BY <1>8 DEF accountVars, AccountInv, RowsPart, OutPart, GrantPart, Live, IsActive
<1> QED
  BY <1>1, <1>2, <1>3, <1>4, <1>5, <1>6, <1>7, <1>8 DEF AccountsNext

\* A disabled account has no session and no key, whatever the order in which
\* logins, refreshes and handlers end (setUserStatus, plugins/session.ts).
THEOREM DisabledIsOut == AccountsSpec => []DisabledMeansOut
<1>1. AccountInv => DisabledMeansOut
  BY DEF AccountInv, OutPart, DisabledMeansOut
<1> QED
  BY <1>1, AccountsInitially, AccountStep, PTL DEF AccountsSpec

\* The requests of a session never send two grants, nor an old token
\* (refreshSession).
THEOREM OneRefresh == AccountsSpec => []OneRefreshAtATime
<1>1. AccountInv => OneRefreshAtATime
  <2> SUFFICES ASSUME AccountInv, NEW s \in Sids
               PROVE  /\ Len(grants[s]) <= 1
                      /\ grants[s] # <<>> /\ Live(s) => Head(grants[s]) = session[s].token
    BY DEF OneRefreshAtATime
  <2>1. CASE grants[s] = <<>>
    BY <2>1
  <2>2. CASE grants[s] # <<>>
    <3>1. PICK n \in Nat : grants[s] = <<n>>
      BY <2>2 DEF AccountInv, RowsPart
    <3>2. Len(<<n>>) = 1 /\ Head(<<n>>) = n
      OBVIOUS
    <3>3. Live(s) => grants[s] = <<session[s].token>>
      BY <2>2 DEF AccountInv, GrantPart
    <3>4. Live(s) => Head(<<session[s].token>>) = session[s].token
      OBVIOUS
    <3> QED
      BY <3>1, <3>2, <3>3, <3>4
  <2> QED
    BY <2>1, <2>2
<1> QED
  BY <1>1, AccountsInitially, AccountStep, PTL DEF AccountsSpec


-----------------------------------------------------------------------------
\* The last admin.

\* The IdP takes a role away.
RoleTaken == \E u \in DOMAIN users : users'[u].role # users[u].role

\* There is an active admin left, or the IdP took the role.
Kept == ActiveAdmins # {} => ActiveAdmins' # {} \/ RoleTaken

\* An active admin whose row the step leaves as it was.
LEMMA AdminLeftAlone ==
    ASSUME NEW v \in ActiveAdmins, v \in DOMAIN users', users'[v].who # Service,
           users'[v].status = "active"
    PROVE  ActiveAdmins' # {} \/ RoleTaken
BY DEF ActiveAdmins, IsActive, RoleTaken

\* A step that writes the row of one account, and leaves it active if it was.
LEMMA RowKeepsAdmins ==
    ASSUME AccountInv, NEW u \in DOMAIN users, NEW r \in Row, users' = [users EXCEPT ![u] = r],
           IsActive(u) => r.status = "active" /\ (r.who = Service => users[u].who = Service)
    PROVE  Kept
<1> SUFFICES ASSUME NEW v \in ActiveAdmins PROVE ActiveAdmins' # {} \/ RoleTaken
  BY DEF Kept
<1>1. v \in DOMAIN users /\ users[v].status = "active" /\ users[v].who # Service
  BY DEF ActiveAdmins, IsActive
<1>2. DOMAIN users' = DOMAIN users /\ \A w \in DOMAIN users : users'[w] = IF w = u THEN r ELSE users[w]
  BY RowWritten DEF AccountInv, RowsPart
<1> QED
  BY <1>1, <1>2, AdminLeftAlone DEF IsActive

\* The rows that were there keep who they are, and active.
LEMMA AddingKeepsAdmins ==
    ASSUME DOMAIN users \subseteq DOMAIN users',
           \A v \in DOMAIN users : users'[v].who = users[v].who /\ users'[v].status = users[v].status
    PROVE  Kept
<1> SUFFICES ASSUME NEW v \in ActiveAdmins PROVE ActiveAdmins' # {} \/ RoleTaken
  BY DEF Kept
<1>1. v \in DOMAIN users /\ users[v].status = "active" /\ users[v].who # Service
  BY DEF ActiveAdmins, IsActive
<1> QED
  BY <1>1, AdminLeftAlone

\* A login does not rename anybody else.
LEMMA UpsertKeepsWho ==
    ASSUME RowsPart, NEW p \in People, NEW role \in Roles
    PROVE  \A u \in DOMAIN users : Upserted(p, role)[u].who = users[u].who
<1> DEFINE known == {u \in DOMAIN users : users[u].who = p}
<1> DEFINE r == [who |-> p, status |-> "active", role |-> role, keys |-> 0, revoked |-> FALSE]
<1>1. CASE known = {}
  <2>1. Upserted(p, role) = Append(users, r) /\ r \in Row
    BY <1>1 DEF Upserted, Row
  <2> QED
    BY <2>1, RowAdded DEF RowsPart
<1>2. CASE known # {}
  <2>1. \A u \in DOMAIN users : users[u] \in Row
    BY LenProperties, ElementOfSeq DEF RowsPart
  <2>2. \A u \in DOMAIN users : [users[u] EXCEPT !.role = role].who = users[u].who
    BY <2>1 DEF Row
  <2> QED
    BY <1>2, <2>2 DEF Upserted
<1> QED
  BY <1>1, <1>2

\* Two actors cannot disable one another: the second is no longer counted
\* among the active admins when the last of them is to be disabled.
LEMMA DisableKeepsAdmins ==
    ASSUME AccountInv, NEW req \in admitted, NEW u \in DOMAIN users, Disable(req, u)
    PROVE  Kept
<1> SUFFICES ASSUME NEW v \in ActiveAdmins PROVE ActiveAdmins' # {} \/ RoleTaken
  BY DEF Kept
<1>1. users[u] \in Row
  BY RowOf
<1> DEFINE r == KeysRevoked([users[u] EXCEPT !.status = "disabled"])
<1>2. r \in Row
  BY <1>1 DEF KeysRevoked, Row
<1>3. users' = [users EXCEPT ![u] = r]
  BY DEF Disable
<1> HIDE DEF r
<1>4. DOMAIN users' = DOMAIN users /\ \A w \in DOMAIN users : w # u => users'[w] = users[w]
  BY <1>2, <1>3, RowWritten DEF AccountInv, RowsPart
<1>5. PICK w \in ActiveAdmins : w # u
  <2>1. CASE u \notin ActiveAdmins
    BY <2>1
  <2>2. CASE u \in ActiveAdmins
    <3>1. ActiveAdmins # {u}
      <4>1. Cardinality(ActiveAdmins) > 1
        BY <2>2 DEF Disable, MayDisable, ActiveAdmins
      <4>2. Cardinality({u}) = 1
        BY FS_Singleton
      <4> QED
        BY <4>1, <4>2
    <3> QED
      BY <2>2, <3>1
  <2> QED
    BY <2>1, <2>2
<1> QED
  BY <1>4, <1>5, AdminLeftAlone DEF ActiveAdmins, IsActive

\* Somebody can always administer the accounts: the panel never disables the
\* last active admin (setUserStatus), for any people and order of requests.
THEOREM AdminStays == AccountsSpec => AnAdminStays
<1>1. ASSUME AccountInv, AccountsNext PROVE Kept
  <2>1. CASE users' = users
    BY <2>1, AddingKeepsAdmins
  <2>2. ASSUME NEW s \in Sids, NEW role \in Roles, NEW p \in People, Login(p, role, s) PROVE Kept
    <3>1. RowsPart /\ users' = Upserted(p, role)
      BY <1>1, <2>2 DEF AccountInv, Login
    <3> QED
      BY <3>1, UpsertKeeps, UpsertKeepsWho, AddingKeepsAdmins
  <2>3. ASSUME NEW s \in Sids, NEW role \in Roles, GrantSucceeds(s, role) PROVE Kept
    <3> DEFINE u == session[s].user
    <3> DEFINE r == [users[u] EXCEPT !.role = role]
    <3>1. u \in DOMAIN users
      BY <1>1, <2>3 DEF AccountInv, OutPart, GrantSucceeds
    <3>2. users[u] \in Row
      BY <1>1, <3>1, RowOf
    <3>3. r \in Row /\ r.status = users[u].status /\ r.who = users[u].who
      BY <3>2 DEF Row
    <3>4. users' = users \/ users' = [users EXCEPT ![u] = r]
      BY <2>3 DEF GrantSucceeds
    <3> HIDE DEF u, r
    <3> QED
      BY <1>1, <2>1, <3>1, <3>3, <3>4, RowKeepsAdmins DEF IsActive
  <2>4. ASSUME NEW req \in admitted, CreateServiceUser(req) PROVE Kept
    <3> DEFINE r == [who |-> Service, status |-> "active", role |-> "operator",
                     keys |-> 0, revoked |-> FALSE]
    <3>1. users' = Append(users, r) /\ r \in Row /\ users \in Seq(Row)
      BY <1>1, <2>4 DEF CreateServiceUser, Row, Roles, AccountInv, RowsPart
    <3> HIDE DEF r
    <3>2. DOMAIN users \subseteq DOMAIN users' /\ \A v \in DOMAIN users : users'[v] = users[v]
      BY <3>1, RowAdded
    <3> QED
      BY <3>2, AddingKeepsAdmins
  <2>5. ASSUME NEW req \in admitted, NEW u \in DOMAIN users, Disable(req, u) PROVE Kept
    BY <1>1, <2>5, DisableKeepsAdmins
  <2>6. ASSUME NEW req \in admitted, NEW u \in DOMAIN users, Enable(req, u) PROVE Kept
    <3> DEFINE r == [users[u] EXCEPT !.status = "active"]
    <3>1. r \in Row /\ r.status = "active" /\ r.who = users[u].who
      BY <1>1, RowOf DEF Row
    <3>2. users' = [users EXCEPT ![u] = r]
      BY <2>6 DEF Enable
    <3> HIDE DEF r
    <3> QED
      BY <1>1, <3>1, <3>2, RowKeepsAdmins
  <2>7. ASSUME NEW req \in admitted, NEW u \in DOMAIN users, Anonymize(req, u) PROVE Kept
    <3> DEFINE who == IF users[u].who = Service THEN Service ELSE Anonymized
    <3> DEFINE r == KeysRevoked([users[u] EXCEPT !.who = who])
    <3>1. users[u] \in Row
      BY <1>1, RowOf
    <3>2. r \in Row
      BY <3>1 DEF KeysRevoked, Row
    <3>3. users' = [users EXCEPT ![u] = r] /\ ~IsActive(u)
      BY <2>7 DEF Anonymize
    <3> HIDE DEF r
    <3> QED
      BY <1>1, <3>2, <3>3, RowKeepsAdmins
  <2>8. ASSUME NEW u \in DOMAIN users,
               \/ KeyExpires(u)
               \/ \E req \in admitted : CreateKey(req, u) \/ RotateKey(req, u) \/ RevokeKey(req, u)
        PROVE  Kept
    <3>1. DOMAIN users' = DOMAIN users /\ \A v \in DOMAIN users :
             users'[v].who = users[v].who /\ users'[v].status = users[v].status
      <4>1. \A v \in DOMAIN users : users[v] \in Row
        BY <1>1, RowOf
      <4> QED
        BY <2>8, <4>1 DEF KeyExpires, CreateKey, RotateKey, RevokeKey, Revoked, Row
    <3> QED
      BY <3>1, AddingKeepsAdmins
  <2>9. CASE \/ PanelRestarted
             \/ \E s \in Sids : AccessTokenExpires(s) \/ Request(s) \/ GrantFails(s) \/ SessionEnds(s)
             \/ \E req \in admitted : Refuses(req) \/ Logout(req)
    BY <2>1, <2>9 DEF PanelRestarted, AccessTokenExpires, Request, GrantFails, SessionEnds,
                      Refuses, Logout
  <2> QED
    BY <1>1, <2>2, <2>3, <2>4, <2>5, <2>6, <2>7, <2>8, <2>9 DEF AccountsNext
<1>2. ASSUME AccountInv, [AccountsNext]_accountVars PROVE Kept \/ UNCHANGED accountVars
  BY <1>1, <1>2
<1> QED
  BY <1>2, AccountsInitially, AccountStep, PTL DEF AccountsSpec, AnAdminStays, Kept, RoleTaken

-----------------------------------------------------------------------------
(***************************************************************************)
(* The rest of the types of the accounts: no account has more keys than it *)
(* may, a session's token was issued, and a request names an account.      *)
(***************************************************************************)
AccountBounds ==
    /\ \A u \in DOMAIN users : users[u].keys <= MaxActiveKeys
    /\ \A s \in Sids : Live(s) => session[s].token \in 1..issued
    /\ \A r \in admitted : r.user \in DOMAIN users

\* Nothing is issued at the start.
LEMMA BoundsInitially == AccountsInit => AccountBounds
BY DEF AccountsInit, AccountBounds, Live

\* A key is added below the maximum only, and a rotation adds none.
LEMMA KeysBounded ==
    ASSUME AccountInv, AccountBounds, [AccountsNext]_accountVars
    PROVE  /\ DOMAIN users \subseteq DOMAIN users'
           /\ \A u \in DOMAIN users' : users'[u].keys <= MaxActiveKeys
<1>1. MaxActiveKeys \in Nat
  BY AccountsAssumption
<1>2. \A u \in DOMAIN users : users[u] \in Row /\ users[u].keys <= MaxActiveKeys
  BY RowOf DEF AccountBounds
<1>3. CASE users' = users
  BY <1>2, <1>3
<1>4. ASSUME NEW u \in DOMAIN users, NEW r \in Row, users' = [users EXCEPT ![u] = r],
             r.keys <= MaxActiveKeys
      PROVE  /\ DOMAIN users \subseteq DOMAIN users'
             /\ \A v \in DOMAIN users' : users'[v].keys <= MaxActiveKeys
  <2>1. /\ DOMAIN users' = DOMAIN users
        /\ \A v \in DOMAIN users : users'[v] = IF v = u THEN r ELSE users[v]
    BY <1>4, RowWritten DEF AccountInv, RowsPart
  <2> QED
    BY <1>2, <1>4, <2>1
<1>5. ASSUME NEW s \in Sids, NEW role \in Roles, NEW p \in People, Login(p, role, s)
      PROVE  /\ DOMAIN users \subseteq DOMAIN users'
             /\ \A u \in DOMAIN users' : users'[u].keys <= MaxActiveKeys
  <2>1. /\ DOMAIN users \subseteq DOMAIN users'
        /\ \A u \in DOMAIN users : users'[u].keys = users[u].keys
        /\ \A u \in DOMAIN users' \ DOMAIN users : users'[u].keys = 0
    BY <1>5, UpsertKeeps DEF AccountInv, Login
  <2> QED
    BY <1>1, <1>2, <2>1
<1>6. ASSUME NEW s \in Sids, NEW role \in Roles, GrantSucceeds(s, role)
      PROVE  /\ DOMAIN users \subseteq DOMAIN users'
             /\ \A u \in DOMAIN users' : users'[u].keys <= MaxActiveKeys
  <2> DEFINE u == session[s].user
  <2> DEFINE r == [users[u] EXCEPT !.role = role]
  <2>1. u \in DOMAIN users
    BY <1>6 DEF AccountInv, OutPart, GrantSucceeds
  <2>2. r \in Row /\ r.keys = users[u].keys
    BY <1>2, <2>1 DEF Row
  <2>3. users' = users \/ users' = [users EXCEPT ![u] = r]
    BY <1>6 DEF GrantSucceeds
  <2> HIDE DEF u, r
  <2> QED
    BY <1>2, <1>3, <1>4, <2>1, <2>2, <2>3
<1>7. ASSUME NEW req \in admitted, CreateServiceUser(req)
      PROVE  /\ DOMAIN users \subseteq DOMAIN users'
             /\ \A u \in DOMAIN users' : users'[u].keys <= MaxActiveKeys
  <2> DEFINE r == [who |-> Service, status |-> "active", role |-> "operator",
                   keys |-> 0, revoked |-> FALSE]
  <2>1. users' = Append(users, r) /\ r \in Row /\ r.keys = 0 /\ users \in Seq(Row)
    BY <1>7 DEF CreateServiceUser, Row, Roles, AccountInv, RowsPart
  <2> HIDE DEF r
  <2> QED
    BY <1>1, <1>2, <2>1, RowAdded
<1>8. ASSUME NEW req \in admitted, NEW u \in DOMAIN users,
             Disable(req, u) \/ Enable(req, u) \/ Anonymize(req, u)
      PROVE  /\ DOMAIN users \subseteq DOMAIN users'
             /\ \A v \in DOMAIN users' : users'[v].keys <= MaxActiveKeys
  <2>1. \E row \in Row : /\ row.keys = users[u].keys
                         /\ \/ users' = [users EXCEPT ![u] = KeysRevoked(row)]
                            \/ users' = [users EXCEPT ![u] = row]
    <3>1. CASE Disable(req, u)
      <4>1. [users[u] EXCEPT !.status = "disabled"] \in Row
            /\ [users[u] EXCEPT !.status = "disabled"].keys = users[u].keys
        BY <1>2 DEF Row
      <4> QED
        BY <3>1, <4>1 DEF Disable
    <3>2. CASE Enable(req, u)
      <4>1. [users[u] EXCEPT !.status = "active"] \in Row
            /\ [users[u] EXCEPT !.status = "active"].keys = users[u].keys
        BY <1>2 DEF Row
      <4>2. users' = [users EXCEPT ![u] = [users[u] EXCEPT !.status = "active"]]
        BY <3>2 DEF Enable
      <4> QED
        BY <4>1, <4>2
    <3>3. CASE Anonymize(req, u)
      <4> DEFINE who == IF users[u].who = Service THEN Service ELSE Anonymized
      <4>1. [users[u] EXCEPT !.who = who] \in Row
            /\ [users[u] EXCEPT !.who = who].keys = users[u].keys
        BY <1>2 DEF Row
      <4>2. users' = [users EXCEPT ![u] = KeysRevoked([users[u] EXCEPT !.who = who])]
        BY <3>3 DEF Anonymize
      <4> HIDE DEF who
      <4> QED
        BY <4>1, <4>2
    <3> QED
      BY <1>8, <3>1, <3>2, <3>3
  <2>2. PICK row \in Row : /\ row.keys = users[u].keys
                           /\ \/ users' = [users EXCEPT ![u] = KeysRevoked(row)]
                              \/ users' = [users EXCEPT ![u] = row]
    BY <2>1
  <2>3. KeysRevoked(row) \in Row /\ KeysRevoked(row).keys = 0
    BY DEF KeysRevoked, Row
  <2> QED
    BY <1>1, <1>2, <1>4, <2>2, <2>3
<1>9. ASSUME NEW u \in DOMAIN users,
             \/ KeyExpires(u)
             \/ \E req \in admitted : CreateKey(req, u) \/ RotateKey(req, u) \/ RevokeKey(req, u)
      PROVE  /\ DOMAIN users \subseteq DOMAIN users'
             /\ \A v \in DOMAIN users' : users'[v].keys <= MaxActiveKeys
  <2>1. /\ DOMAIN users' = DOMAIN users
        /\ \A v \in DOMAIN users \ {u} : users'[v] = users[v]
    BY <1>9 DEF KeyExpires, CreateKey, RotateKey, RevokeKey, Revoked
  <2>2. users[u] \in Row /\ users[u].keys \in Nat /\ users[u].keys <= MaxActiveKeys
    BY <1>2 DEF Row
  <2>3. CASE KeyExpires(u) \/ \E req \in admitted : RevokeKey(req, u)
    <3>1. users[u].keys > 0 /\ users'[u].keys = users[u].keys - 1
      BY <2>2, <2>3 DEF KeyExpires, RevokeKey, Revoked, Row
    <3> QED
      BY <1>1, <1>2, <2>1, <2>2, <3>1
  <2>4. CASE \E req \in admitted : CreateKey(req, u)
    <3>1. users[u].keys < MaxActiveKeys /\ users'[u].keys = users[u].keys + 1
      BY <2>2, <2>4 DEF CreateKey, Row
    <3> QED
      BY <1>1, <1>2, <2>1, <2>2, <3>1
  <2>5. CASE \E req \in admitted : RotateKey(req, u)
    <3>1. users[u].keys > 0 /\ users'[u].keys = IF users[u].keys = 0 THEN 1 ELSE users[u].keys
      <4> DEFINE n == IF users[u].keys = 0 THEN 1 ELSE users[u].keys
      <4>1. users[u].keys > 0 /\ users' = [[users EXCEPT ![u].keys = n] EXCEPT ![u].revoked = TRUE]
        BY <2>5 DEF RotateKey, ActiveKey
      <4>2. users' = [users EXCEPT ![u] = [[users[u] EXCEPT !.keys = n] EXCEPT !.revoked = TRUE]]
        BY <4>1
      <4>3. [[users[u] EXCEPT !.keys = n] EXCEPT !.revoked = TRUE].keys = n
        BY <2>2 DEF Row
      <4> DEFINE r == [[users[u] EXCEPT !.keys = n] EXCEPT !.revoked = TRUE]
      <4>4. users'[u] = r
        BY <4>2
      <4>5. users'[u].keys = n
        BY <4>3, <4>4
      <4> HIDE DEF r
      <4> QED
        BY <4>1, <4>5
    <3> QED
      BY <1>1, <1>2, <2>1, <2>2, <3>1
  <2> QED
    BY <1>9, <2>3, <2>4, <2>5
<1>10. CASE \/ PanelRestarted
            \/ \E s \in Sids : AccessTokenExpires(s) \/ Request(s) \/ GrantFails(s) \/ SessionEnds(s)
            \/ \E req \in admitted : Refuses(req) \/ Logout(req)
            \/ UNCHANGED accountVars
  BY <1>3, <1>10 DEF PanelRestarted, AccessTokenExpires, Request, GrantFails, SessionEnds,
                     Refuses, Logout, accountVars
<1> QED
  BY <1>5, <1>6, <1>7, <1>8, <1>9, <1>10 DEF AccountsNext

\* A session is made or renewed with the token that was issued last.
LEMMA TokensBounded ==
    ASSUME AccountInv, AccountBounds, [AccountsNext]_accountVars
    PROVE  \A q \in Sids : Live(q)' => session'[q].token \in 1..issued'
<1>1. issued \in Nat /\ session \in [Sids -> {NoSession} \cup SessionRow]
  BY DEF AccountInv, RowsPart
<1>2. \A q \in Sids : Live(q) => session[q].token \in 1..issued
  BY DEF AccountBounds
<1>3. CASE /\ issued' = issued
           /\ \A q \in Sids : Live(q)' => Live(q) /\ session'[q].token = session[q].token
  BY <1>2, <1>3
<1>4. ASSUME NEW s \in Sids, NEW u, NEW role,
             session' = [session EXCEPT ![s] = [user |-> u, role |-> role, token |-> issued + 1,
                                                expired |-> FALSE]],
             issued' = issued + 1
      PROVE  \A q \in Sids : Live(q)' => session'[q].token \in 1..issued'
  <2>1. session'[s].token = issued + 1
    BY <1>1, <1>4
  <2>2. \A q \in Sids \ {s} : session'[q] = session[q]
    BY <1>4
  <2> QED
    BY <1>1, <1>2, <1>4, <2>1, <2>2 DEF Live
<1>5. CASE UNCHANGED <<session, issued>>
  BY <1>3, <1>5 DEF Live
<1>6. ASSUME NEW s \in Sids, NEW role \in Roles,
             GrantSucceeds(s, role) \/ \E p \in People : Login(p, role, s)
      PROVE  \A q \in Sids : Live(q)' => session'[q].token \in 1..issued'
  BY <1>4, <1>5, <1>6 DEF GrantSucceeds, Login
<1>7. ASSUME NEW s \in Sids, AccessTokenExpires(s)
      PROVE  \A q \in Sids : Live(q)' => session'[q].token \in 1..issued'
  BY <1>1, <1>3, <1>7 DEF AccessTokenExpires, Live, SessionRow
<1>8. CASE \/ \E s \in Sids : GrantFails(s) \/ SessionEnds(s)
           \/ \E req \in admitted : Logout(req)
  BY <1>1, <1>3, <1>8 DEF GrantFails, SessionEnds, Logout, EndSession, Handles, Live
<1>9. CASE \E req \in admitted, u \in DOMAIN users : Disable(req, u) \/ Anonymize(req, u)
  BY <1>3, <1>9 DEF Disable, Anonymize, SessionsWithout, Handles, Live
<1>10. CASE \/ PanelRestarted \/ \E s \in Sids : Request(s)
            \/ \E req \in admitted : Refuses(req) \/ CreateServiceUser(req)
            \/ \E req \in admitted, u \in DOMAIN users :
                  Enable(req, u) \/ CreateKey(req, u) \/ RotateKey(req, u) \/ RevokeKey(req, u)
            \/ \E u \in DOMAIN users : KeyExpires(u)
            \/ UNCHANGED accountVars
  BY <1>5, <1>10 DEF PanelRestarted, Request, Refuses, CreateServiceUser, Enable, CreateKey,
                     RotateKey, RevokeKey, KeyExpires, Handles, accountVars
<1> QED
  BY <1>6, <1>7, <1>8, <1>9, <1>10 DEF AccountsNext

\* A request is admitted in the name of its session, and no account goes.
LEMMA RequestsBounded ==
    ASSUME AccountInv, AccountBounds, [AccountsNext]_accountVars
    PROVE  \A r \in admitted' : r.user \in DOMAIN users'
<1>1. \A r \in admitted : r.user \in DOMAIN users'
  BY KeysBounded DEF AccountBounds
<1>2. \A s \in Sids : \A role \in Roles : Live(s) => Admission(s, role).user \in DOMAIN users'
  BY KeysBounded DEF AccountInv, OutPart, Admission
<1>3. CASE admitted' \subseteq admitted
  BY <1>1, <1>3
<1>4. ASSUME NEW s \in Sids, Request(s) PROVE \A r \in admitted' : r.user \in DOMAIN users'
  <2>1. admitted' \subseteq admitted \cup {Admission(s, session[s].role)} /\ Live(s)
    BY <1>4 DEF Request, Admits
  <2>2. session[s].role \in Roles
    BY <2>1 DEF AccountInv, RowsPart, SessionRow, Live
  <2> QED
    BY <1>1, <1>2, <2>1, <2>2
<1>5. ASSUME NEW s \in Sids, NEW role \in Roles, GrantSucceeds(s, role)
      PROVE  \A r \in admitted' : r.user \in DOMAIN users'
  <2>1. admitted' = admitted \cup {Admission(s, role)} /\ Live(s)
    BY <1>5 DEF GrantSucceeds, Admits
  <2> QED
    BY <1>1, <1>2, <2>1
<1>6. CASE \/ \E s \in Sids, role \in Roles, p \in People : Login(p, role, s)
           \/ \E s \in Sids : AccessTokenExpires(s) \/ GrantFails(s) \/ SessionEnds(s)
           \/ PanelRestarted \/ UNCHANGED accountVars
           \/ \E u \in DOMAIN users : KeyExpires(u)
  BY <1>3, <1>6 DEF Login, AccessTokenExpires, GrantFails, SessionEnds, PanelRestarted, KeyExpires,
                    accountVars
<1>7. CASE \E req \in admitted :
             \/ Refuses(req) \/ Logout(req) \/ CreateServiceUser(req)
             \/ \E u \in DOMAIN users :
                   \/ Disable(req, u) \/ Enable(req, u) \/ Anonymize(req, u)
                   \/ CreateKey(req, u) \/ RotateKey(req, u) \/ RevokeKey(req, u)
  <2>1. \E req \in admitted : Handles(req)
    BY <1>7 DEF Refuses, Logout, CreateServiceUser, Disable, Enable, Anonymize, CreateKey,
                RotateKey, RevokeKey
  <2> QED
    BY <1>3, <2>1 DEF Handles
<1> QED
  BY <1>4, <1>5, <1>6, <1>7 DEF AccountsNext

\* Every step keeps the numbers of keys and tokens within their bounds.
LEMMA BoundsStep ==
    AccountInv /\ AccountBounds /\ [AccountsNext]_accountVars => AccountBounds'
BY KeysBounded, TokensBounded, RequestsBounded DEF AccountBounds

\* So the accounts have their types.
LEMMA AccountTypes == AccountInv /\ AccountBounds => AccountsTypeOK
<1> SUFFICES ASSUME AccountInv, AccountBounds PROVE AccountsTypeOK
  OBVIOUS
<1>1. \A u \in DOMAIN users :
        users[u] \in [who : People \cup {Service, Anonymized}, status : {"active", "disabled"},
                      role : Roles, keys : 0..MaxActiveKeys, revoked : BOOLEAN]
  BY RowOf, AccountsAssumption DEF Row, AccountBounds
<1>2. \A s \in Sids : Live(s) =>
        session[s] \in [user : DOMAIN users, role : Roles, token : 1..issued, expired : BOOLEAN]
  BY DEF AccountInv, RowsPart, OutPart, AccountBounds, Live, SessionRow
<1>3. admitted \subseteq [user : DOMAIN users, role : Roles, sid : Sids]
  BY DEF AccountInv, RowsPart, AccountBounds
<1> QED
  BY <1>1, <1>2, <1>3 DEF AccountsTypeOK

-----------------------------------------------------------------------------
(***************************************************************************)
(* The rate limits. What a bucket holds is at most the limit, in the order *)
(* of the hits; and what was let through since the bucket was dropped is   *)
(* what the bucket would keep if it were checked now.                      *)
(***************************************************************************)
Hits == Seq(0..Window)

\* Expired counts the leading hits that are out of the window.
LEMMA ExpiredIs ==
    ASSUME NEW s \in Hits
    PROVE  /\ Expired(s) \in 0..Len(s)
           /\ \A i \in 1..Expired(s) : s[i] = 0
           /\ Expired(s) < Len(s) => s[Expired(s) + 1] > 0
<1> DEFINE is(k) == (\A i \in 1..k : s[i] = 0) /\ (k < Len(s) => s[k + 1] > 0)
           left == {i \in 1..Len(s) : s[i] > 0}
<1>1. Len(s) \in Nat /\ \A i \in 1..Len(s) : s[i] \in 0..Window
  BY LenProperties DEF Hits
<1>2. Window \in Nat
  BY RatesAssumption
<1>3. \E k \in 0..Len(s) : is(k)
  <2>1. CASE left = {}
    <3>1. \A i \in 1..Len(s) : s[i] = 0
      BY <1>1, <1>2, <2>1
    <3> QED
      BY <1>1, <3>1
  <2>2. CASE left # {}
    <3> left \in SUBSET Nat
      BY <1>1
    <3>1. PICK m \in left : \A n \in left : m <= n
      BY <2>2, LeastNatural
    <3>2. m - 1 \in 0..Len(s) /\ (m - 1) + 1 = m
      BY <1>1, <3>1
    <3>3. \A i \in 1..(m - 1) : s[i] = 0
      BY <1>1, <1>2, <3>1
    <3> QED
      BY <3>1, <3>2, <3>3
  <2> QED
    BY <2>1, <2>2
<1>4. Expired(s) = CHOOSE k \in 0..Len(s) : is(k)
  BY DEF Expired
<1> HIDE DEF is
<1>5. Expired(s) \in 0..Len(s) /\ is(Expired(s))
  BY <1>3, <1>4
<1> QED
  BY <1>5 DEF is

\* There is only one such number.
LEMMA ExpiredOnly ==
    ASSUME NEW s \in Hits, NEW k \in 0..Len(s), \A i \in 1..k : s[i] = 0,
           k < Len(s) => s[k + 1] > 0
    PROVE  Expired(s) = k
<1>1. Len(s) \in Nat
  BY DEF Hits
<1> DEFINE e == Expired(s)
<1>2. e \in 0..Len(s) /\ (\A i \in 1..e : s[i] = 0) /\ (e < Len(s) => s[e + 1] > 0)
  BY ExpiredIs
<1> HIDE DEF e
<1>3. e < k => FALSE
  BY <1>1, <1>2
<1>4. k < e => FALSE
  BY <1>1, <1>2
<1> QED
  BY <1>1, <1>2, <1>3, <1>4 DEF e

\* What is left are the others, in their order.
LEMMA InWindowIs ==
    ASSUME NEW s \in Hits
    PROVE  /\ InWindow(s) \in Hits
           /\ Len(InWindow(s)) = Len(s) - Expired(s)
           /\ \A i \in 1..(Len(s) - Expired(s)) : InWindow(s)[i] = s[Expired(s) + i]
           /\ InWindow(s) # <<>> => InWindow(s)[1] > 0
<1> DEFINE e == Expired(s)
           t == SubSeq(s, e + 1, Len(s))
<1>1. Len(s) \in Nat /\ s \in Seq(0..Window)
  BY DEF Hits
<1>2. e \in 0..Len(s) /\ (e < Len(s) => s[e + 1] > 0)
  BY ExpiredIs
<1> HIDE DEF e
<1>3. /\ t \in Seq(0..Window)
      /\ Len(t) = Len(s) - e
      /\ \A i \in 1..(Len(s) - e) : t[i] = s[e + i]
  <2>1. e + 1 \in Int /\ Len(s) \in Int /\ \A i \in (e + 1)..Len(s) : s[i] \in 0..Window
    <3>1. \A i \in 1..Len(s) : s[i] \in 0..Window
      BY <1>1, ElementOfSeq
    <3> QED
      BY <1>1, <1>2, <3>1
  <2>2. /\ t \in Seq(0..Window)
        /\ Len(t) = IF e + 1 <= Len(s) THEN Len(s) - (e + 1) + 1 ELSE 0
        /\ \A i \in 1..(Len(s) - (e + 1) + 1) : t[i] = s[(e + 1) + i - 1]
    BY <2>1, SubSeqProperties DEF t
  <2> HIDE DEF t
  <2>3. Len(s) - (e + 1) + 1 = Len(s) - e
    BY <1>1, <1>2
  <2>4. Len(t) = Len(s) - e
    <3>1. e + 1 <= Len(s) \/ Len(s) - e = 0
      BY <1>1, <1>2
    <3>2. CASE e + 1 <= Len(s)
      BY <2>2, <2>3, <3>2
    <3>3. CASE ~(e + 1 <= Len(s))
      BY <2>2, <3>1, <3>3
    <3> QED
      BY <3>2, <3>3
  <2>5. ASSUME NEW i \in 1..(Len(s) - e)
        PROVE  t[i] = s[e + i]
    <3>1. (e + 1) + i - 1 = e + i
      BY <1>1, <1>2
    <3>2. i \in 1..(Len(s) - (e + 1) + 1)
      BY <2>3
    <3> QED
      BY <2>2, <3>1, <3>2
  <2> QED
    BY <2>2, <2>4, <2>5
<1>4. InWindow(s) = t
  BY DEF InWindow, e
<1> HIDE DEF t
<1>5. t # <<>> => t[1] > 0
  <2> SUFFICES ASSUME t # <<>>
               PROVE  t[1] > 0
    OBVIOUS
  <2>1. Len(t) # 0 /\ Len(t) \in Nat
    BY <1>3, EmptySeq
  <2> QED
    BY <1>1, <1>2, <1>3, <2>1
<1> QED
  BY <1>3, <1>4, <1>5 DEF Hits, e

\* A minute makes every hit older by one.
LEMMA SlidIs ==
    ASSUME NEW s \in Hits
    PROVE  Slid(s) \in Hits /\ Len(Slid(s)) = Len(s)
<1>1. Window \in Nat /\ Len(s) \in Nat /\ DOMAIN s = 1..Len(s) /\ \A i \in 1..Len(s) : s[i] \in 0..Window
  BY RatesAssumption DEF Hits
<1>2. Slid(s) = [i \in 1..Len(s) |-> IF s[i] > 0 THEN s[i] - 1 ELSE 0]
  BY <1>1 DEF Slid
<1>3. \A i \in 1..Len(s) : (IF s[i] > 0 THEN s[i] - 1 ELSE 0) \in 0..Window
  BY <1>1
<1> QED
  BY <1>1, <1>2, <1>3, IsASeq DEF Hits

\* Looking at the window twice changes nothing.
LEMMA WindowStays ==
    ASSUME NEW s \in Hits, s # <<>> => s[1] > 0
    PROVE  InWindow(s) = s
<1>1. Len(s) \in Nat /\ s \in Seq(0..Window)
  BY DEF Hits
<1>2. Len(s) > 0 => s[1] > 0
  BY <1>1, EmptySeq
<1>3. Expired(s) = 0
  BY <1>1, <1>2, ExpiredOnly
<1> QED
  BY <1>1, <1>3, SubSeqFull DEF InWindow

\* Dropping what is out of the window before it slides, or only after, leaves
\* the same.
LEMMA SlideCommutes ==
    ASSUME NEW s \in Hits
    PROVE  InWindow(Slid(InWindow(s))) = InWindow(Slid(s))
<1> DEFINE k == Expired(s)
           u == Slid(s)
           j == Expired(u)
           t == InWindow(s)
           v == Slid(t)
<1>1. Len(s) \in Nat /\ DOMAIN s = 1..Len(s) /\ \A i \in 1..Len(s) : s[i] \in 0..Window
  BY LenProperties DEF Hits
<1>2. k \in 0..Len(s) /\ (\A i \in 1..k : s[i] = 0) /\ (k < Len(s) => s[k + 1] > 0)
  BY ExpiredIs
<1>3. t \in Hits /\ Len(t) = Len(s) - k /\ \A i \in 1..(Len(s) - k) : t[i] = s[k + i]
  BY InWindowIs
<1>4. u \in Hits /\ Len(u) = Len(s) /\ v \in Hits /\ Len(v) = Len(s) - k
  BY <1>3, SlidIs
<1>5. \A i \in 1..Len(s) : u[i] = IF s[i] > 0 THEN s[i] - 1 ELSE 0
  BY <1>1 DEF Slid
<1>6. \A i \in 1..(Len(s) - k) : v[i] = IF t[i] > 0 THEN t[i] - 1 ELSE 0
  <2>1. DOMAIN t = 1..(Len(s) - k)
    BY <1>3, LenProperties DEF Hits
  <2> QED
    BY <2>1 DEF Slid
<1>7. j \in 0..Len(s) /\ (\A i \in 1..j : u[i] = 0) /\ (j < Len(s) => u[j + 1] > 0)
  BY <1>4, ExpiredIs
<1> HIDE DEF k, u, j, t, v
<1>8. \A i \in 1..(Len(s) - k) : v[i] = u[k + i]
  <2> TAKE i \in 1..(Len(s) - k)
  <2>1. k + i \in 1..Len(s)
    BY <1>1, <1>2
  <2> QED
    BY <2>1, <1>3, <1>5, <1>6
<1>9. k <= j
  <2>1. \A i \in 1..k : u[i] = 0
    BY <1>1, <1>2, <1>5
  <2> QED
    BY <1>1, <1>2, <1>7, <2>1
<1>10. Expired(v) = j - k
  <2>1. j - k \in 0..Len(v)
    BY <1>1, <1>2, <1>4, <1>7, <1>9
  <2>2. \A i \in 1..(j - k) : v[i] = 0
    <3> TAKE i \in 1..(j - k)
    <3>1. i \in 1..(Len(s) - k) /\ k + i \in 1..j
      BY <1>1, <1>2, <1>7, <1>9
    <3> QED
      BY <3>1, <1>7, <1>8
  <2>3. j - k < Len(v) => v[(j - k) + 1] > 0
    <3> SUFFICES ASSUME j - k < Len(v)
                 PROVE  v[(j - k) + 1] > 0
      OBVIOUS
    <3>1. (j - k) + 1 \in 1..(Len(s) - k) /\ k + ((j - k) + 1) = j + 1 /\ j < Len(s)
      BY <1>1, <1>2, <1>4, <1>7, <1>9
    <3> QED
      BY <3>1, <1>7, <1>8
  <2> QED
    BY <1>4, <2>1, <2>2, <2>3, ExpiredOnly
<1>11. /\ InWindow(u) \in Hits /\ Len(InWindow(u)) = Len(s) - j
       /\ \A i \in 1..(Len(s) - j) : InWindow(u)[i] = u[j + i]
  BY <1>4, InWindowIs DEF j
<1>12. /\ InWindow(v) \in Hits /\ Len(InWindow(v)) = Len(s) - j
       /\ \A i \in 1..(Len(s) - j) : InWindow(v)[i] = v[(j - k) + i]
  <2>1. (Len(s) - k) - (j - k) = Len(s) - j
    BY <1>1, <1>2, <1>7
  <2> QED
    BY <1>4, <1>10, <2>1, InWindowIs, SMTT(30)
<1>13. \A i \in 1..(Len(s) - j) : InWindow(v)[i] = InWindow(u)[i]
  <2> TAKE i \in 1..(Len(s) - j)
  <2>1. (j - k) + i \in 1..(Len(s) - k) /\ k + ((j - k) + i) = j + i
    BY <1>1, <1>2, <1>7, <1>9
  <2> QED
    BY <2>1, <1>8, <1>11, <1>12
<1>14. InWindow(v) = InWindow(u)
  BY <1>11, <1>12, <1>13, SeqEqual DEF Hits
<1> QED
  BY <1>14 DEF v, t, u

-----------------------------------------------------------------------------
\* Hits in the order of their times.
Ascending(s) == \A i \in DOMAIN s : \A j \in DOMAIN s : i <= j => s[i] <= s[j]

\* A bucket has at most Limit hits, in the order of their times, and what was
\* let through in the window is what its bucket remembers; a bucket that is
\* forgotten had let nothing through.
HitsInv ==
    /\ DOMAIN hits \subseteq Buckets /\ IsFiniteSet(DOMAIN hits)
    /\ Cardinality(DOMAIN hits) <= MaxBuckets
    /\ \A b \in DOMAIN hits :
          hits[b] \in Hits /\ Ascending(hits[b]) /\ Len(hits[b]) <= Limit
    /\ letThrough = [b \in Buckets |-> IF b \in DOMAIN hits THEN InWindow(hits[b]) ELSE <<>>]

\* The empty bucket.
LEMMA NoHits == <<>> \in Hits /\ Len(<<>>) = 0 /\ InWindow(<<>>) = <<>> /\ Slid(<<>>) = <<>>
<1>1. <<>> \in Hits /\ Len(<<>>) = 0
  BY EmptySeq DEF Hits
<1>2. InWindow(<<>>) = <<>>
  BY <1>1, WindowStays
<1>3. Slid(<<>>) = <<>>
  BY <1>1, SlidIs, EmptySeq DEF Hits
<1> QED
  BY <1>1, <1>2, <1>3

\* No bucket is there at the start.
LEMMA RatesInitially == RatesInit => HitsInv
<1>1. IsFiniteSet({}) /\ Cardinality({}) = 0 /\ MaxBuckets \in Nat
  BY FS_EmptySet, RatesAssumption
<1> QED
  BY <1>1 DEF RatesInit, HitsInv

\* Neither the window nor the minute changes the order.
LEMMA AscendingStays ==
    ASSUME NEW s \in Hits, Ascending(s)
    PROVE  Ascending(InWindow(s)) /\ Ascending(Slid(s))
<1>1. /\ Len(s) \in Nat /\ DOMAIN s = 1..Len(s)
      /\ \A i \in 1..Len(s) : s[i] \in 0..Window
  BY LenProperties DEF Hits
<1>2. Window \in Nat
  BY RatesAssumption
<1> DEFINE e == Expired(s)
           t == InWindow(s)
<1>3. e \in 0..Len(s)
  BY ExpiredIs
<1>4. t \in Hits /\ Len(t) = Len(s) - e /\ \A i \in 1..(Len(s) - e) : t[i] = s[e + i]
  BY InWindowIs
<1>5. DOMAIN t = 1..(Len(s) - e)
  BY <1>4, LenProperties DEF Hits
<1> HIDE DEF e, t
<1>6. Ascending(t)
  <2> SUFFICES ASSUME NEW i \in 1..(Len(s) - e), NEW j \in 1..(Len(s) - e), i <= j
               PROVE  t[i] <= t[j]
    BY <1>5 DEF Ascending
  <2>1. e + i \in 1..Len(s) /\ e + j \in 1..Len(s) /\ e + i <= e + j
    BY <1>1, <1>3
  <2> QED
    BY <1>1, <1>4, <2>1 DEF Ascending
<1>7. Ascending(Slid(s))
  <2>1. \A i \in 1..Len(s) : Slid(s)[i] = IF s[i] > 0 THEN s[i] - 1 ELSE 0
    BY <1>1 DEF Slid
  <2>2. DOMAIN Slid(s) = 1..Len(s)
    BY <1>1 DEF Slid
  <2> SUFFICES ASSUME NEW i \in 1..Len(s), NEW j \in 1..Len(s), i <= j
               PROVE  Slid(s)[i] <= Slid(s)[j]
    BY <2>2 DEF Ascending
  <2>3. s[i] <= s[j]
    BY <1>1 DEF Ascending
  <2> QED
    BY <1>1, <1>2, <2>1, <2>3
<1> QED
  BY <1>6, <1>7 DEF t

\* A bucket whose last hit left the window has nothing in it: prune and evict
\* may forget it.
LEMMA LastHitGone ==
    ASSUME NEW s \in Hits, Ascending(s), s = <<>> \/ Last(s) = 0
    PROVE  InWindow(s) = <<>>
<1>1. /\ Len(s) \in Nat /\ DOMAIN s = 1..Len(s)
      /\ \A i \in 1..Len(s) : s[i] \in 0..Window
  BY LenProperties DEF Hits
<1>2. \A i \in 1..Len(s) : s[i] = 0
  <2> TAKE i \in 1..Len(s)
  <2>1. s # <<>>
    BY <1>1, EmptySeq DEF Hits
  <2>2. s[Len(s)] = 0
    BY <2>1 DEF Last
  <2>3. s[i] <= s[Len(s)]
    BY <1>1 DEF Ascending
  <2> QED
    BY <1>1, <2>2, <2>3, RatesAssumption
<1>3. Expired(s) = Len(s)
  BY <1>1, <1>2, ExpiredOnly
<1>4. InWindow(s) \in Hits /\ Len(InWindow(s)) = 0
  BY <1>1, <1>3, InWindowIs
<1> QED
  BY <1>4, EmptySeq DEF Hits

\* A minute passes.
LEMMA SlideKeeps == HitsInv /\ WindowSlides => HitsInv'
<1> SUFFICES ASSUME HitsInv, WindowSlides
             PROVE  HitsInv'
  OBVIOUS
<1>1. DOMAIN hits' = DOMAIN hits /\ \A b \in DOMAIN hits : hits'[b] = Slid(hits[b])
  BY DEF WindowSlides
<1>2. ASSUME NEW b \in DOMAIN hits
      PROVE  hits'[b] \in Hits /\ Ascending(hits'[b]) /\ Len(hits'[b]) <= Limit
  <2>1. hits[b] \in Hits /\ Ascending(hits[b]) /\ Len(hits[b]) <= Limit
    BY DEF HitsInv
  <2> QED
    BY <1>1, <2>1, SlidIs, AscendingStays
<1>3. ASSUME NEW b \in Buckets
      PROVE  InWindow(Slid(letThrough[b])) =
                 IF b \in DOMAIN hits THEN InWindow(hits'[b]) ELSE <<>>
  <2>1. letThrough[b] = IF b \in DOMAIN hits THEN InWindow(hits[b]) ELSE <<>>
    BY DEF HitsInv
  <2>2. CASE b \in DOMAIN hits
    <3>1. hits[b] \in Hits
      BY <2>2 DEF HitsInv
    <3> QED
      BY <1>1, <2>1, <2>2, <3>1, SlideCommutes
  <2>3. CASE b \notin DOMAIN hits
    BY <2>1, <2>3, NoHits
  <2> QED
    BY <2>2, <2>3
<1>4. letThrough' = [b \in Buckets |-> IF b \in DOMAIN hits' THEN InWindow(hits'[b]) ELSE <<>>]
  BY <1>1, <1>3 DEF WindowSlides
<1> QED
  BY <1>1, <1>2, <1>4 DEF HitsInv

\* What a check adds to a bucket stays in order and within the limit.
LEMMA UnitsFit ==
    ASSUME NEW s \in Hits, Ascending(s), s # <<>> => s[1] > 0,
           NEW cost \in Nat, Fits(s, cost)
    PROVE  LET t == s \o Units(cost)
           IN  t \in Hits /\ Ascending(t) /\ Len(t) <= Limit /\ InWindow(t) = t
<1> DEFINE u == Units(cost)
           t == s \o u
<1>1. Window \in Nat \ {0} /\ Limit \in Nat
  BY RatesAssumption
<1>2. u \in Seq(0..Window) /\ Len(u) = cost /\ \A i \in 1..cost : u[i] = Window
  <2>1. Window \in 0..Window
    BY <1>1
  <2>2. u \in Seq(0..Window)
    BY <2>1, IsASeq DEF Units
  <2> QED
    BY <2>2, LenProperties DEF Units
<1>3. /\ Len(s) \in Nat /\ DOMAIN s = 1..Len(s) /\ s \in Seq(0..Window)
      /\ \A i \in 1..Len(s) : s[i] \in 0..Window
  BY LenProperties DEF Hits
<1> HIDE DEF u
<1>4. /\ t \in Seq(0..Window) /\ Len(t) = Len(s) + cost
      /\ \A i \in 1..(Len(s) + cost) :
            t[i] = IF i <= Len(s) THEN s[i] ELSE u[i - Len(s)]
  BY <1>2, <1>3, ConcatProperties
<1>5. DOMAIN t = 1..(Len(s) + cost)
  BY <1>4, LenProperties
<1> HIDE DEF t
<1>6. Ascending(t)
  <2> SUFFICES ASSUME NEW i \in 1..(Len(s) + cost), NEW j \in 1..(Len(s) + cost), i <= j
               PROVE  t[i] <= t[j]
    BY <1>5 DEF Ascending
  <2>1. CASE j <= Len(s)
    <3>1. i \in 1..Len(s) /\ j \in 1..Len(s)
      BY <1>3, <2>1
    <3> QED
      BY <1>3, <1>4, <3>1, SMTT(30) DEF Ascending
  <2>2. CASE ~(j <= Len(s))
    <3>1. j - Len(s) \in 1..cost
      BY <1>3, <2>2
    <3>2. t[j] = Window
      BY <1>2, <1>4, <2>2, <3>1
    <3>3. t[i] \in 0..Window
      BY <1>4, <1>5, ElementOfSeq
    <3> QED
      BY <1>1, <3>2, <3>3
  <2> QED
    BY <2>1, <2>2
<1>7. t # <<>> => t[1] > 0
  <2> SUFFICES ASSUME t # <<>>
               PROVE  t[1] > 0
    OBVIOUS
  <2>1. Len(s) + cost # 0
    BY <1>4, EmptySeq
  <2>2. 1 \in 1..(Len(s) + cost)
    BY <1>3, <2>1
  <2>3. CASE Len(s) = 0
    BY <1>1, <1>2, <1>4, <2>2, <2>3
  <2>4. CASE Len(s) # 0
    <3>1. s # <<>> /\ 1 <= Len(s)
      BY <1>3, <2>4, EmptySeq
    <3> QED
      BY <1>4, <2>2, <3>1
  <2> QED
    BY <2>3, <2>4
<1>8. InWindow(t) = t
  BY <1>4, <1>7, WindowStays DEF Hits
<1>9. Len(t) <= Limit
  BY <1>1, <1>3, <1>4 DEF Fits
<1> QED
  BY <1>4, <1>6, <1>8, <1>9 DEF t, u, Hits

\* `evict` frees a place, and only what MayForget allows or what is over.
LEMMA EvictedIs ==
    ASSUME HitsInv, NEW b \in Buckets, NEW gone \in Evicted(b)
    PROVE  /\ gone \subseteq DOMAIN hits /\ b \notin gone
           /\ \A c \in gone : MayForget(c) \/ InWindow(hits[c]) = <<>>
           /\ IsFiniteSet((DOMAIN hits \ gone) \cup {b})
           /\ Cardinality((DOMAIN hits \ gone) \cup {b}) <= MaxBuckets
<1> DEFINE D == DOMAIN hits
           current == D \ OutOfWindow
<1>1. IsFiniteSet(D) /\ Cardinality(D) \in Nat /\ Cardinality(D) <= MaxBuckets
  BY FS_CardinalityType DEF HitsInv
<1>2. MaxBuckets \in Nat /\ OutOfWindow \subseteq D
  BY RatesAssumption DEF OutOfWindow
<1>3. \A c \in OutOfWindow : InWindow(hits[c]) = <<>>
  <2> TAKE c \in OutOfWindow
  <2>1. hits[c] \in Hits /\ Ascending(hits[c]) /\ (hits[c] = <<>> \/ Last(hits[c]) = 0)
    BY DEF HitsInv, OutOfWindow, LastOf
  <2> QED
    BY <2>1, LastHitGone
<1>4. CASE gone = {} /\ (b \in D \/ Cardinality(D) < MaxBuckets)
  <2>1. CASE b \in D
    <3>1. (D \ gone) \cup {b} = D
      BY <1>4, <2>1
    <3> QED
      BY <1>1, <1>4, <3>1
  <2>2. CASE b \notin D
    <3>1. (D \ gone) \cup {b} = D \cup {b}
      BY <1>4
    <3>2. IsFiniteSet(D \cup {b}) /\ Cardinality(D \cup {b}) = Cardinality(D) + 1
      BY <1>1, <2>2, FS_AddElement
    <3> QED
      BY <1>1, <1>2, <1>4, <2>2, <3>1, <3>2
  <2> QED
    BY <2>1, <2>2
<1>5. ~(gone = {} /\ (b \in D \/ Cardinality(D) < MaxBuckets)) =>
          /\ b \notin D /\ ~(Cardinality(D) < MaxBuckets)
          /\ \/ Cardinality(current) < MaxBuckets /\ gone = OutOfWindow
             \/ /\ ~(Cardinality(current) < MaxBuckets)
                /\ \E victim \in LeastUsed(current) : gone = OutOfWindow \cup {victim}
  BY DEF Evicted
<1>6. CASE b \notin D /\ Cardinality(current) < MaxBuckets /\ gone = OutOfWindow
  <2>1. (D \ gone) \cup {b} = current \cup {b} /\ b \notin current
    BY <1>6
  <2>2. IsFiniteSet(current) /\ Cardinality(current) \in Nat
    BY <1>1, FS_Subset, FS_CardinalityType
  <2>3. IsFiniteSet(current \cup {b}) /\ Cardinality(current \cup {b}) = Cardinality(current) + 1
    BY <2>1, <2>2, FS_AddElement
  <2> QED
    BY <1>2, <1>3, <1>6, <2>1, <2>2, <2>3
<1>7. CASE /\ b \notin D /\ ~(Cardinality(current) < MaxBuckets)
           /\ \E victim \in LeastUsed(current) : gone = OutOfWindow \cup {victim}
  <2>1. PICK victim \in LeastUsed(current) : gone = OutOfWindow \cup {victim}
    BY <1>7
  <2>2. current = D
    <3>1. /\ IsFiniteSet(current) /\ Cardinality(current) <= Cardinality(D)
          /\ Cardinality(current) = Cardinality(D) => current = D
      BY <1>1, FS_Subset
    <3>2. Cardinality(current) \in Nat
      BY <3>1, FS_CardinalityType
    <3> QED
      BY <1>1, <1>2, <1>7, <3>1, <3>2
  <2>3. OutOfWindow = {}
    BY <1>2, <2>2
  <2>4. victim \in D /\ MayForget(victim)
    BY <2>1, <2>2 DEF LeastUsed, MayForget
  <2>5. gone = {victim}
    BY <2>1, <2>3
  <2>6. IsFiniteSet(D \ {victim}) /\ Cardinality(D \ {victim}) = Cardinality(D) - 1
    BY <1>1, <2>4, FS_RemoveElement
  <2>7. /\ IsFiniteSet((D \ {victim}) \cup {b})
        /\ Cardinality((D \ {victim}) \cup {b}) = Cardinality(D \ {victim}) + 1
    BY <1>7, <2>6, FS_AddElement
  <2>8. Cardinality((D \ {victim}) \cup {b}) = Cardinality(D)
    BY <1>1, <2>6, <2>7
  <2> QED
    BY <1>1, <1>7, <2>4, <2>5, <2>7, <2>8
<1> QED
  BY <1>4, <1>5, <1>6, <1>7

\* A call is checked: pruned, recorded or refused, and the map kept within
\* its bound.
LEMMA CheckKeeps ==
    ASSUME HitsInv, NEW b \in Buckets, NEW cost \in 1..MaxCost, CheckRate(b, cost)
    PROVE  HitsInv'
<1> DEFINE D == DOMAIN hits
           kept == IF b \in D THEN InWindow(hits[b]) ELSE <<>>
           fits == Fits(kept, cost)
           now == IF fits THEN kept \o Units(cost) ELSE kept
<1>1. PICK gone \in Evicted(b) :
          /\ hits' = [c \in (D \ gone) \cup {b} |-> IF c # b THEN hits[c] ELSE now]
          /\ letThrough' = [c \in Buckets |->
                              IF c = b /\ fits THEN letThrough[b] \o Units(cost)
                              ELSE IF c \in {d \in gone : MayForget(d)} THEN <<>>
                              ELSE letThrough[c]]
  BY Zenon DEF CheckRate
<1>2. /\ gone \subseteq D /\ b \notin gone
      /\ \A c \in gone : MayForget(c) \/ InWindow(hits[c]) = <<>>
      /\ IsFiniteSet((D \ gone) \cup {b})
      /\ Cardinality((D \ gone) \cup {b}) <= MaxBuckets
  BY EvictedIs
<1>3. \A c \in Buckets : letThrough[c] = IF c \in D THEN InWindow(hits[c]) ELSE <<>>
  BY DEF HitsInv
<1>4. kept = letThrough[b]
  BY <1>3
<1>5. kept \in Hits /\ Ascending(kept) /\ Len(kept) <= Limit /\ (kept # <<>> => kept[1] > 0)
  <2>1. CASE b \in D
    <3>1. hits[b] \in Hits /\ Ascending(hits[b]) /\ Len(hits[b]) <= Limit
      BY <2>1 DEF HitsInv
    <3>2. /\ InWindow(hits[b]) \in Hits /\ Ascending(InWindow(hits[b]))
          /\ Len(InWindow(hits[b])) = Len(hits[b]) - Expired(hits[b])
          /\ InWindow(hits[b]) # <<>> => InWindow(hits[b])[1] > 0
      BY <3>1, InWindowIs, AscendingStays
    <3>3. Len(hits[b]) \in Nat /\ Expired(hits[b]) \in 0..Len(hits[b]) /\ Limit \in Nat
      BY <3>1, ExpiredIs, LenProperties, RatesAssumption DEF Hits
    <3> QED
      BY <2>1, <3>1, <3>2, <3>3
  <2>2. CASE b \notin D
    <3>1. Ascending(<<>>) /\ 0 <= Limit
      BY RatesAssumption DEF Ascending
    <3> QED
      BY <2>2, <3>1, NoHits
  <2> QED
    BY <2>1, <2>2
<1> HIDE DEF kept
<1>6. now \in Hits /\ Ascending(now) /\ Len(now) <= Limit /\ InWindow(now) = now
  <2>1. CASE fits
    <3>1. cost \in Nat
      BY RatesAssumption
    <3> QED
      BY <1>5, <2>1, <3>1, UnitsFit
  <2>2. CASE ~fits
    BY <1>5, <2>2, WindowStays
  <2> QED
    BY <2>1, <2>2
<1> HIDE DEF fits
<1>7. IF fits THEN letThrough[b] \o Units(cost) = now ELSE letThrough[b] = now
  BY <1>4
<1> HIDE DEF now
<1>8. /\ DOMAIN hits' = (D \ gone) \cup {b}
      /\ \A c \in D \ gone : c # b => hits'[c] = hits[c]
      /\ hits'[b] = now
  BY <1>1
<1>9. \A c \in DOMAIN hits' :
          hits'[c] \in Hits /\ Ascending(hits'[c]) /\ Len(hits'[c]) <= Limit
  BY <1>6, <1>8 DEF HitsInv
<1>10. ASSUME NEW c \in Buckets
       PROVE  letThrough'[c] = IF c \in DOMAIN hits' THEN InWindow(hits'[c]) ELSE <<>>
  <2>1. CASE c = b
    BY <1>1, <1>2, <1>6, <1>7, <1>8, <2>1
  <2>2. CASE c # b /\ c \in gone
    <3>1. c \notin DOMAIN hits' /\ c \in D
      BY <1>2, <1>8, <2>2
    <3>2. CASE MayForget(c)
      BY <1>1, <2>2, <3>1, <3>2
    <3>3. CASE ~MayForget(c)
      <4>1. InWindow(hits[c]) = <<>>
        BY <1>2, <2>2, <3>3
      <4> QED
        BY <1>1, <1>3, <2>2, <3>1, <3>3, <4>1
    <3> QED
      BY <3>2, <3>3
  <2>3. CASE c # b /\ c \notin gone
    <3>1. letThrough'[c] = letThrough[c]
      BY <1>1, <2>3
    <3> QED
      BY <1>3, <1>8, <2>3, <3>1
  <2> QED
    BY <2>1, <2>2, <2>3
<1>11. letThrough' = [c \in Buckets |-> IF c \in DOMAIN hits' THEN InWindow(hits'[c]) ELSE <<>>]
  <2>1. letThrough' = [c \in Buckets |-> letThrough'[c]]
    BY <1>1
  <2> QED
    BY <1>10, <2>1
<1> QED
  BY <1>2, <1>8, <1>9, <1>11 DEF HitsInv

\* Every step of the limiter.
LEMMA RatesStep == HitsInv /\ [RatesNext]_rateVars => HitsInv'
<1> SUFFICES ASSUME HitsInv, [RatesNext]_rateVars
             PROVE  HitsInv'
  OBVIOUS
<1>1. CASE WindowSlides
  BY <1>1, SlideKeeps
<1>2. CASE WindowsForgotten
  <2>1. IsFiniteSet({}) /\ Cardinality({}) = 0 /\ MaxBuckets \in Nat
    BY FS_EmptySet, RatesAssumption
  <2> QED
    BY <1>2, <2>1 DEF WindowsForgotten, HitsInv
<1>3. ASSUME NEW b \in Buckets, NEW cost \in 1..MaxCost, CheckRate(b, cost)
      PROVE  HitsInv'
  BY <1>3, CheckKeeps
<1>4. CASE UNCHANGED rateVars
  <2>1. hits' = hits /\ letThrough' = letThrough
    BY <1>4 DEF rateVars
  <2> QED
    BY <2>1 DEF HitsInv
<1> QED
  BY <1>1, <1>2, <1>3, <1>4 DEF RatesNext

\* What is let through is what is remembered, and that is within the limit.
LEMMA AllowanceFollows == HitsInv => AllowanceHolds
<1> SUFFICES ASSUME HitsInv, NEW b \in Buckets
             PROVE  Len(letThrough[b]) <= Limit
  BY DEF AllowanceHolds
<1>1. Limit \in Nat
  BY RatesAssumption
<1>2. CASE b \in DOMAIN hits
  <2>1. hits[b] \in Hits /\ Len(hits[b]) <= Limit /\ letThrough[b] = InWindow(hits[b])
    BY <1>2 DEF HitsInv
  <2>2. Len(letThrough[b]) = Len(hits[b]) - Expired(hits[b])
    BY <2>1, InWindowIs
  <2>3. Len(hits[b]) \in Nat /\ Expired(hits[b]) \in 0..Len(hits[b])
    BY <2>1, ExpiredIs, LenProperties DEF Hits
  <2> QED
    BY <1>1, <2>1, <2>2, <2>3
<1>3. CASE b \notin DOMAIN hits
  <2>1. letThrough[b] = <<>>
    BY <1>3 DEF HitsInv
  <2> QED
    BY <1>1, <2>1, NoHits
<1> QED
  BY <1>2, <1>3

\* What a window keeps is not over: a bucket's hits are in order, and the
\* first that is kept is positive.
LEMMA RateTypes == HitsInv => RatesTypeOK
<1> SUFFICES ASSUME HitsInv PROVE RatesTypeOK
  OBVIOUS
<1>1. ASSUME NEW b \in DOMAIN hits PROVE Range(hits[b]) \subseteq 0..Window
  BY <1>1, ElementOfSeq, LenProperties DEF HitsInv, Hits, Range
<1>2. ASSUME NEW b \in Buckets PROVE Range(letThrough[b]) \subseteq 1..Window
  <2>1. CASE b \in DOMAIN hits
    <3> DEFINE s == hits[b]
               t == InWindow(s)
    <3>1. s \in Hits /\ Ascending(s) /\ letThrough[b] = t
      BY <2>1 DEF HitsInv
    <3> HIDE DEF s
    <3>2. t \in Hits /\ Ascending(t) /\ (t # <<>> => t[1] > 0)
      BY <3>1, InWindowIs, AscendingStays
    <3> HIDE DEF t
    <3>3. Window \in Nat /\ Len(t) \in Nat /\ DOMAIN t = 1..Len(t) /\ \A i \in 1..Len(t) : t[i] \in 0..Window
      BY <3>2, RatesAssumption, ElementOfSeq, LenProperties DEF Hits
    <3>4. \A i \in DOMAIN t : t[i] \in 1..Window
      <4> SUFFICES ASSUME NEW i \in DOMAIN t PROVE t[i] \in 1..Window
        OBVIOUS
      <4>1. i \in 1..Len(t) /\ 1 \in DOMAIN t /\ 1 <= i /\ t # <<>>
        BY <3>3
      <4>2. t[1] <= t[i] /\ t[1] > 0
        BY <3>2, <4>1 DEF Ascending
      <4> QED
        BY <3>3, <4>1, <4>2
    <3> QED
      BY <3>1, <3>4 DEF Range
  <2>2. CASE b \notin DOMAIN hits
    <3>1. letThrough[b] = <<>>
      BY <2>2 DEF HitsInv
    <3> QED
      BY <3>1 DEF Range
  <2> QED
    BY <2>1, <2>2
<1> QED
  BY <1>1, <1>2 DEF HitsInv, RatesTypeOK

(***************************************************************************)
(* In no window of a minute is more let through for a bucket than its      *)
(* limit, whatever batches are checked and however other buckets flood the *)
(* map, for any limit, window and cap: what evict forgets is out of the    *)
(* window, or is the bucket with the fewest hits (RateLimiter.check,       *)
(* evict).                                                                 *)
(***************************************************************************)
THEOREM AllowanceIsKept == RatesSpec => []AllowanceHolds
<1>1. RatesSpec => []HitsInv
  BY RatesInitially, RatesStep, PTL DEF RatesSpec
<1> QED
  BY <1>1, AllowanceFollows, PTL

=============================================================================
