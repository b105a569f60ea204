------------------------------ MODULE McpAccess ------------------------------
(***************************************************************************)
(* Who may call the MCP server, and which base a call sees (mcp-server:    *)
(* auth.ts, profiles.ts, server.ts; packages/shared: db/repos/apiKeys.ts,  *)
(* mcpProfiles.ts; panel-api: routes/mcp-admin.ts, services/mcp-admin.ts). *)
(*                                                                         *)
(* The server caches keys and profiles; the panel changes them in the      *)
(* shared database and then asks the server to forget, which may not       *)
(* arrive.  Deciding on a call is synchronous.  One key, its profile and   *)
(* one base; of a cache entry only the time it has left is kept.           *)
(***************************************************************************)
EXTENDS Integers

CONSTANTS
    Ttl,       \* ttlMs of both caches
    NegTtl     \* negativeTtlMs

ASSUME McpAssumption == Ttl \in Nat \ {0} /\ NegTtl \in 1..Ttl

VARIABLES
    key,           \* the key's row: active, revoked or expired
    profile,       \* mcp_profiles: enabled, and whether it lists the base
    baseActive,    \* kb_registry: status = 'active'
    authLeft,      \* AuthService.cache: 0 is no entry
    negLeft,       \* AuthService.negative
    profLeft, profSees,   \* ProfileCache: and whether the base is in namespaces
    asking,        \* POST /invalidate is under way
    badFor, hiddenFor,    \* history: time since the key went bad, the base hidden
    goodFor        \* history: time since the key became good

mcpVars == <<key, profile, baseActive, authLeft, negLeft, profLeft, profSees,
             asking, badFor, hiddenFor, goodFor>>

stored == <<key, profile, baseActive>>
cached == <<authLeft, negLeft, profLeft, profSees>>
ages   == <<badFor, hiddenFor, goodFor>>

\* verifyKey, and the profile; a disabled owner has no active key (Accounts).
Good == key = "active" /\ profile.enabled

\* resolveNamespaces
Visible == profile.enabled /\ profile.lists /\ baseActive

McpInit ==
    /\ key = "active" /\ baseActive = TRUE
    /\ profile = [enabled |-> TRUE, lists |-> TRUE]
    /\ authLeft = 0 /\ negLeft = 0 /\ profLeft = 0 /\ profSees = FALSE
    /\ asking = FALSE
    /\ badFor = 0 /\ hiddenFor = 0 /\ goodFor = 0

Older(age) == IF age < Ttl THEN age + 1 ELSE age
Less(left) == IF left > 0 THEN left - 1 ELSE 0

Tick ==
    /\ authLeft' = Less(authLeft) /\ negLeft' = Less(negLeft) /\ profLeft' = Less(profLeft)
    /\ badFor' = Older(badFor) /\ goodFor' = Older(goodFor) /\ hiddenFor' = Older(hiddenFor)
    /\ UNCHANGED <<stored, profSees, asking>>

-----------------------------------------------------------------------------
(***************************************************************************)
(* The MCP server.                                                         *)
(***************************************************************************)

\* A fault: a hit gives the entry its whole time again.
HitRenews == Ttl

\* TtlLru.get: a hit renews the recency of an entry, not its term.
HitKeeps == authLeft

\* POST /mcp/:profileId with the key: verify.
Verify ==
    IF negLeft > 0 THEN UNCHANGED <<authLeft, negLeft>>
    ELSE IF authLeft > 0 THEN authLeft' = HitKeeps /\ UNCHANGED negLeft
    ELSE IF Good THEN authLeft' = Ttl /\ UNCHANGED negLeft
    ELSE negLeft' = NegTtl /\ UNCHANGED authLeft

Verified == negLeft = 0 /\ (authLeft > 0 \/ Good)

\* profiles.get, of a verified key: null, a hit, or a fresh entry.
GetProfile ==
    IF profLeft > 0 \/ ~profile.enabled THEN UNCHANGED <<profLeft, profSees>>
    ELSE profLeft' = Ttl /\ profSees' = Visible

Call ==
    /\ Verify
    /\ IF Verified THEN GetProfile ELSE UNCHANGED <<profLeft, profSees>>
    /\ UNCHANGED <<stored, asking, ages>>

Admitted == Verified /\ (profLeft > 0 \/ profile.enabled)
SeesBase == Admitted /\ (IF profLeft > 0 THEN profSees ELSE Visible)

\* invalidateCaches, or a restart of the server
Forget == authLeft' = 0 /\ negLeft' = 0 /\ profLeft' = 0 /\ profSees' = FALSE

InvalidateArrives == asking /\ asking' = FALSE /\ Forget /\ UNCHANGED <<stored, ages>>
McpRestarts == Forget /\ UNCHANGED <<stored, asking, ages>>

-----------------------------------------------------------------------------
(***************************************************************************)
(* The panel.                                                              *)
(***************************************************************************)

\* invalidateMcpCache: its failure is logged, and that is all.
InvalidateIsLost == asking /\ asking' = FALSE /\ UNCHANGED <<stored, cached, ages>>

Changes(k, p, b) ==
    /\ key' = k /\ profile' = p /\ baseActive' = b
    /\ goodFor' = IF Good /\ Good' THEN goodFor ELSE 0
    /\ badFor' = IF Good \/ Good' THEN 0 ELSE badFor
    /\ hiddenFor' = IF Visible \/ Visible' THEN 0 ELSE hiddenFor
    /\ UNCHANGED cached

\* revoke, rotate, or the account disabled or anonymized
RevokeTheKey == key = "active" /\ Changes("revoked", profile, baseActive) /\ asking' = TRUE

\* Its term passes; nobody tells the server.
KeyTermPasses == key = "active" /\ Changes("expired", profile, baseActive) /\ UNCHANGED asking

\* PATCH /mcp/profiles/:id
PatchProfile(p) == p # profile /\ Changes(key, p, baseActive) /\ asking' = TRUE

\* transitionKb, of a base that is archived, fails or becomes active: nobody
\* tells the server.
BaseStatus == Changes(key, profile, ~baseActive) /\ UNCHANGED asking

McpNext ==
    \/ Tick \/ Call \/ McpRestarts
    \/ InvalidateArrives \/ InvalidateIsLost
    \/ RevokeTheKey \/ KeyTermPasses \/ BaseStatus
    \/ \E p \in [enabled : BOOLEAN, lists : BOOLEAN] : PatchProfile(p)

McpSpec == McpInit /\ [][McpNext]_mcpVars

-----------------------------------------------------------------------------
(***************************************************************************)
(* Properties.                                                             *)
(***************************************************************************)

\* Every variable keeps its type.
McpTypeOK ==
    /\ key \in {"active", "revoked", "expired"} /\ profile \in [enabled : BOOLEAN, lists : BOOLEAN]
    /\ authLeft \in 0..Ttl /\ negLeft \in 0..NegTtl /\ profLeft \in 0..Ttl
    /\ {badFor, hiddenFor, goodFor} \subseteq 0..Ttl

(***************************************************************************)
(* What the panel changed holds for calls after the term of the caches,    *)
(* also when every invalidation was lost and the key is used all the time  *)
(* ("Revoke z panelu działa najpóźniej po TTL", auth.ts): no call is       *)
(* admitted with a key that was bad for Ttl, none sees a base that was     *)
(* hidden for Ttl, and a key that was good for NegTtl is admitted.  The two*)
(* caches do not add up their terms.                                       *)
(***************************************************************************)
CachesForgetInTime ==
    /\ Admitted => Good \/ badFor < Ttl
    /\ SeesBase => Visible \/ hiddenFor < Ttl
    /\ Good /\ goodFor >= NegTtl => Admitted

=============================================================================
