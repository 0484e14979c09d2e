------------------------------- MODULE Access -------------------------------
(***************************************************************************)
(* brain/security/rbac.py as RequirePermission of brain/api/dependencies.py *)
(* asks it: a request may do what the tier of its tenant and the role of   *)
(* its user both allow, by what its token says of them.                    *)
(***************************************************************************)
Reads == {"read:bronze", "read:silver", "read:gold", "write:bronze"}
Premium == {"use:premium_llm", "use:local_llm"}
Management == {"manage:tenant", "manage:users", "invite:users"}

Everything ==
  Reads \cup Premium \cup Management
  \cup {"run:pipeline", "view:pipeline_runs", "view:tenant", "generate:digest", "use:llm", "use:rag",
        "manage:api_keys", "admin:all"}

FreeTier ==
  {"read:gold", "view:tenant", "run:pipeline", "view:pipeline_runs", "generate:digest", "manage:api_keys"}
StandardTier == FreeTier \cup Reads \cup {"use:llm"}

\* _TIER_ROLES; an unknown tier has nothing.
TierPermissions(tier) ==
  CASE tier = "free" -> FreeTier
    [] tier = "standard" -> StandardTier
    [] tier = "premium" -> StandardTier \cup Premium \cup Management
    [] tier = "demo" -> StandardTier \cup Premium \cup {"use:rag"}
    [] tier \in {"vip", "admin"} -> Everything
    [] OTHER -> {}

ViewerRole == {"read:gold", "view:tenant", "view:pipeline_runs", "generate:digest"}
MemberRole == Reads \cup {"run:pipeline", "view:pipeline_runs", "view:tenant", "generate:digest", "use:llm",
                          "manage:api_keys"}

\* Slip: a viewer is given the digest endpoint without the polling of its jobs.
UserPermissionsBlind(role) ==
  CASE role = "owner" -> Everything
    [] role = "viewer" -> ViewerRole \ {"view:pipeline_runs"}
    [] OTHER -> MemberRole

\* _USER_ROLE_PERMS.
UserPermissions(role) ==
  CASE role = "owner" -> Everything
    [] role = "admin" -> MemberRole \cup Management \cup {"use:premium_llm"}
    [] role = "member" -> MemberRole
    [] role = "viewer" -> ViewerRole
    [] role = "demo" -> ViewerRole \ {"generate:digest"}
    [] OTHER -> {}

NoRole == ""             \* a token from before there were user roles

Grants(permissions, p) == "admin:all" \in permissions \/ p \in permissions

\* check_access, which RequirePermission turns into a 403.
MayUse(s, p) ==
  /\ Grants(TierPermissions(s.tier), p)
  /\ s.role = NoRole \/ Grants(UserPermissions(s.role), p)
=============================================================================
