----------------------------- MODULE ApiAccess -----------------------------
(***************************************************************************)
(* The way of a REST call from its caller to tenant data: the single-page  *)
(* application (src/spa) with its MSAL token, or a machine with a SigV4    *)
(* header; API Gateway, which keeps the authoriser's answer for one        *)
(* Authorization header (infra/cdk/lib/platform-api.ts); the authoriser    *)
(* (src/authoriser), which reads the tenants table and keeps role          *)
(* bindings; and the tenant API or the BFF behind it (src/tenant_api,      *)
(* src/bff, src/data-access-lib).                                          *)
(*                                                                         *)
(* Time is a tick of one binding-cache lifetime.  Lifetimes count down and *)
(* ages count up to a cap, so that no clock is needed.                    *)
(***************************************************************************)
EXTENDS Integers, FiniteSets

CONSTANTS Tenants,     \* the customers' tenant ids
          Platform,    \* the reserved tenant "platform"
          Routes,      \* SUBSET AllRoutes, the routes called
          Actors,      \* SUBSET Actor, the callers: a behaviour has one
          CacheTtl,    \* API Gateway's resultsCacheTtl, 5 minutes
          BindingTtl,  \* the authoriser's SIGV4_BINDING_CACHE_TTL_SECONDS
          SkewTtl,     \* SIGV4_MAX_CLOCK_SKEW_SECONDS
          TokenLife,   \* of an Entra access token
          MaxRetries,  \* the length of the SPA's NETWORK_RETRY_DELAYS_MS
          MaxChanges   \* bound: changes made by administrators

VARIABLES actor,    \* who calls, fixed
          tenants,  \* the tenants table: status and execution role
          cred,     \* life left of the token or signature; below zero once expired
          policy,   \* API Gateway's cached answer for the Authorization header in use
          binding,  \* the authoriser's cached tenant of the machine's role
          call,     \* the call in flight
          changes   \* administrative changes so far

apiVars == <<actor, tenants, cred, policy, binding, call, changes>>

AllTenants == Tenants \cup {Platform}
NoTenant == "none"
\* Ages are counted as far as the caches reach back.
LooseCap == CacheTtl + BindingTtl

TenantOps == {"read", "update", "rotate", "auditExport", "listInvites"}
PlatformOps == {"quota", "failover", "ops", "registerAgent"}
BffOps == {"tokenRefresh", "keepalive"}

AllRoutes == [op : TenantOps, target : AllTenants]
             \cup [op : PlatformOps \cup BffOps \cup {"list"}, target : {NoTenant}]

Roles == {"Platform.Admin", "Platform.Operator", "SelfService.Admin", "Machine.Invoke"}

\* "event" is the shape of what the authoriser gets: the deployed
\* TokenAuthorizer passes no headers, a REQUEST event has them all.
Actor == [kind : {"user", "machine"}, tenant : AllTenants \cup {NoTenant},
          roles : SUBSET Roles, event : {"TOKEN", "REQUEST"}]

Context == [tenant : AllTenants \cup {NoTenant}, roles : SUBSET Roles]
NoContext == [tenant |-> NoTenant, roles |-> {}]
NoRoute == [op |-> "none", target |-> NoTenant]
NoPolicy == [route |-> NoRoute, effect |-> "none", context |-> NoContext, ttl |-> 0]
NoBinding == [tenant |-> NoTenant, ttl |-> 0]
Idle == [pc |-> "idle", route |-> NoRoute, claim |-> NoTenant, attempt |-> 0,
         context |-> NoContext, code |-> 0, touched |-> {}]

ASSUME AccessAssumption ==
    /\ Routes \subseteq AllRoutes /\ Actors \subseteq Actor
    /\ \A a \in Actors : a.kind = "machine" => a.tenant = NoTenant   \* it has no token
    /\ Platform \notin Tenants /\ NoTenant \notin AllTenants
    /\ {CacheTtl, BindingTtl, SkewTtl, TokenLife} \subseteq Nat \ {0}
    /\ {MaxRetries, MaxChanges} \subseteq Nat

ApiInit == /\ actor \in Actors
           /\ \E roles \in IF actor.kind = "machine" THEN SUBSET Tenants ELSE {{}} :
                 tenants = [t \in AllTenants |->
                    [active |-> TRUE, idle |-> 0, bound |-> t \in roles,
                     loose |-> IF t \in roles THEN 0 ELSE LooseCap]]
           /\ cred = 0
           /\ policy = NoPolicy
           /\ binding = NoBinding
           /\ call = Idle
           /\ changes = 0
-----------------------------------------------------------------------------
\* Administrators: a tenant is suspended or reinstated (module
\* TenantLifecycle has the operation), if its status is one the authoriser
\* may ask for, or its execution role becomes the machine's, or another one.
AdminChange(t, rec) == /\ changes < MaxChanges
                       /\ changes' = changes + 1
                       /\ tenants' = [tenants EXCEPT ![t] = rec]
                       /\ UNCHANGED <<actor, cred, policy, binding, call>>

SetStatus(t) == /\ actor.kind = "user" => t \in {actor.tenant, Platform}
                /\ AdminChange(t, [tenants[t] EXCEPT !.active = ~@, !.idle = 0])

SetRole(t) == /\ actor.kind = "machine" /\ t # Platform
              /\ AdminChange(t, [tenants[t] EXCEPT !.bound = ~@, !.loose = 0])
-----------------------------------------------------------------------------
\* The caller.  A call is sent with its Authorization header; a new header is
\* one API Gateway has no answer for.
Send(c, fresh, life) ==
    /\ call' = [c EXCEPT !.pc = "sent", !.context = NoContext, !.code = 0, !.touched = {}]
    /\ cred' = IF fresh THEN life ELSE cred
    /\ policy' = IF fresh THEN NoPolicy ELSE policy
    /\ UNCHANGED <<actor, tenants, binding, changes>>

\* acquireAccessToken: MSAL's token while it lives, else a new one, silently
\* or through the popup.  When neither works there is no call.
SendWithToken(c) == Send(c, cred <= 0, TokenLife)

UserCall(r) == /\ actor.kind = "user" /\ call = Idle
               /\ SendWithToken([Idle EXCEPT !.route = r])

\* A machine signs each call and names the tenant in x-tenant-id.
MachineCall(r, t) == /\ actor.kind = "machine" /\ call = Idle
                     /\ Send([Idle EXCEPT !.route = r, !.claim = t], TRUE, SkewTtl)

isIdempotentRequest(r) == r.op \in {"list", "read", "auditExport", "listInvites", "quota"}

\* The request or its answer is lost.  The SPA's executor repeats reads, up to
\* MaxRetries times, starting with the token again; a machine may send the
\* same header once more; anything else is an error of the caller.
NetworkError ==
    /\ call.pc \in {"sent", "answered"}
    /\ LET again == [call EXCEPT !.attempt = @ + 1]
       IN IF call.attempt < MaxRetries /\ isIdempotentRequest(call.route)
          THEN IF actor.kind = "user" THEN SendWithToken(again) ELSE Send(again, FALSE, 0)
          ELSE call' = Idle /\ UNCHANGED <<actor, tenants, cred, policy, binding, changes>>

Answered == /\ call.pc = "answered"
            /\ call' = Idle
            /\ UNCHANGED <<actor, tenants, cred, policy, binding, changes>>

\* logout: the next call signs in again.
Logout == /\ actor.kind = "user" /\ call = Idle /\ cred > 0
          /\ cred' = 0
          /\ policy' = NoPolicy
          /\ UNCHANGED <<actor, tenants, binding, call, changes>>
-----------------------------------------------------------------------------
\* The authoriser.
is_platform_route(r) == r.op \in PlatformOps

is_admin_route(r) == is_platform_route(r) \/ r.op \in {"auditExport", "update"}

generate_policy(allow, r, ctx) ==
    [route |-> r, effect |-> IF allow THEN "Allow" ELSE "Deny",
     context |-> IF allow THEN ctx ELSE NoContext, ttl |-> CacheTtl]

\* get_tenant_status fails closed when the tenants table cannot be read.
StatusActive(t, up) == up /\ tenants[t].active

\* handle_jwt: what it answers when the key set and the tenants table can be
\* read (up); every failure denies.
handle_jwt(r, up) ==
    LET effective == IF is_platform_route(r) THEN Platform ELSE actor.tenant
        allow == /\ cred > 0
                 /\ actor.tenant # NoTenant
                 /\ r.op = "registerAgent" => actor.tenant = Platform
                 /\ StatusActive(effective, up)
                 /\ is_admin_route(r)
                        => actor.roles \cap {"Platform.Admin", "Platform.Operator"} # {}
    IN generate_policy(allow, r, [tenant |-> effective, roles |-> actor.roles])

\* The part of handle_sigv4 before the binding is looked up: the headers are
\* there and the timestamp is within the skew.
SigV4Accepted == actor.event = "REQUEST" /\ cred >= 0

BoundTenants == {t \in Tenants : tenants[t].bound}

\* Mutant: a binding found is kept for good.
BindingNeverExpires(t) == [tenant |-> t, ttl |-> LooseCap]

NewBinding(t) == [tenant |-> t, ttl |-> BindingTtl]

\* resolve_sigv4_tenant_binding: the pairs of its result and the cache it
\* leaves.  Each tenant found is cached on the way, also when a later read
\* fails, the last one stays, and only a role with one tenant resolves.
resolve_sigv4_tenant_binding(up) ==
    IF binding # NoBinding THEN {<<binding.tenant, binding>>}
    ELSE (IF ~up \/ BoundTenants = {} THEN {<<NoTenant, NoBinding>>} ELSE {})
         \cup {<<IF up /\ Cardinality(BoundTenants) = 1 THEN t ELSE NoTenant, NewBinding(t)>> :
                  t \in BoundTenants}

handle_sigv4(r, up, bound) ==
    LET allow == /\ SigV4Accepted
                 /\ bound # NoTenant /\ bound = call.claim
                 /\ StatusActive(bound, up)
                 /\ ~is_admin_route(r)
    IN generate_policy(allow, r, [tenant |-> bound, roles |-> {"Machine.Invoke"}])

\* API Gateway admits a call its policy allows by name, and refuses others.
Admits(p, r) == p.effect = "Allow" /\ p.route = r

\* Mutant: the policy of one route admits every route.
AdmitsAnyRoute(p) == call' = IF p.effect = "Allow"
                             THEN [call EXCEPT !.pc = "admitted", !.context = p.context]
                             ELSE [call EXCEPT !.pc = "answered", !.code = 403]

Apply(p) == call' = IF Admits(p, call.route)
                    THEN [call EXCEPT !.pc = "admitted", !.context = p.context]
                    ELSE [call EXCEPT !.pc = "answered", !.code = 403]

Authorise(up) ==
    /\ call.pc = "sent" /\ policy = NoPolicy
    /\ IF actor.kind = "user"
       THEN policy' = handle_jwt(call.route, up) /\ UNCHANGED binding
       ELSE \E res \in IF SigV4Accepted THEN resolve_sigv4_tenant_binding(up)
                       ELSE {<<NoTenant, binding>>} :
               /\ policy' = handle_sigv4(call.route, up, res[1])
               /\ binding' = res[2]
    /\ Apply(policy')
    /\ UNCHANGED <<actor, tenants, cred, changes>>

CachedAnswer == /\ call.pc = "sent" /\ policy # NoPolicy
                /\ Apply(policy)
                /\ UNCHANGED <<actor, tenants, cred, policy, binding, changes>>
-----------------------------------------------------------------------------
\* The tenant API, for the caller of the authoriser's context.
is_admin(c) == "Platform.Admin" \in c.roles
is_platform_actor(c) == c.tenant = Platform

can_read_tenant(c, t) == is_admin(c) \/ c.tenant = t

can_manage_tenant_self_service(c, t) ==
    \/ c.tenant = t /\ c.roles \cap {"Platform.Admin", "Platform.Operator", "SelfService.Admin"} # {}
    \/ is_platform_actor(c) /\ c.roles \cap {"Platform.Admin", "Platform.Operator"} # {}

require_tenant_scope_allowed(c, t) == is_platform_actor(c) \/ c.tenant = t

\* The partitions a handler names that its client lets through; any other
\* raises TenantAccessViolation.
TenantScopedDynamoDB(t, keys) == keys \cap {t}
TenantScopedS3(t, keys) == keys \cap {t}
ControlPlaneDynamoDB(keys) == keys

canonical_tenant_id(c, t) == t = Platform => is_admin(c)

Refuse(code) == [code |-> code, touched |-> {}]

\* A handler that checks the caller (may), opens the client of the tenant and
\* works on its record; found and fault are what it meets there.
OnRecord(c, t, may, found, fault) ==
    IF ~may \/ ~require_tenant_scope_allowed(c, t) THEN Refuse(403)
    ELSE [code |-> IF ~found THEN 404 ELSE IF fault # 0 THEN fault ELSE 200,
          touched |-> TenantScopedDynamoDB(t, {t})]

handle_read(c, t, found, fault) == OnRecord(c, t, can_read_tenant(c, t), found, fault)

handle_update(c, t, found, fault) == OnRecord(c, t, is_admin(c), found, fault)

handle_rotate_api_key(c, t, found, fault) ==
    OnRecord(c, t, can_manage_tenant_self_service(c, t), found, fault)

handle_list_invites(c, t, found, fault) ==
    OnRecord(c, t, can_read_tenant(c, t) /\ can_manage_tenant_self_service(c, t), found, fault)

\* The export is collected from one client and stored with another.
handle_audit_export(c, t, found, fault) ==
    LET res == OnRecord(c, t, is_admin(c), found, fault)
    IN [res EXCEPT !.touched = IF res.code = 200 THEN @ \cup TenantScopedS3(t, {t}) ELSE @]

\* A Platform.Admin lists with a scan, anyone else reads the own record.
handle_list_tenants(c, found, fault) ==
    IF ~is_admin(c) THEN [handle_read(c, c.tenant, found, 0) EXCEPT !.code = 200]
    ELSE IF fault = 400 THEN Refuse(400)
    ELSE [code |-> IF fault # 0 THEN fault ELSE 200, touched |-> ControlPlaneDynamoDB(AllTenants)]

\* dispatch_routes, behind the check of the tenant id in the path.
TenantHandler(r, c, found, fault) ==
    LET t == r.target
    IN IF t # NoTenant /\ ~canonical_tenant_id(c, t) THEN Refuse(400)
       ELSE CASE r.op = "list" -> handle_list_tenants(c, found, fault)
              [] r.op = "read" -> handle_read(c, t, found, fault)
              [] r.op = "update" -> handle_update(c, t, found, fault)
              [] r.op = "auditExport" -> handle_audit_export(c, t, found, fault)
              [] r.op = "rotate" -> handle_rotate_api_key(c, t, found, fault)
              [] r.op = "listInvites" -> handle_list_invites(c, t, found, fault)

\* The platform routes: quota, the disabled failover, the registration of
\* agents (module AgentRegistry), and the operations routes nobody serves.
AdminHandler(r, c, fault) ==
    Refuse(IF r.op = "ops" THEN 404
           ELSE IF ~is_admin(c) \/ (r.op = "registerAgent" /\ ~is_platform_actor(c)) THEN 403
           ELSE IF r.op = "failover" THEN IF fault THEN 400 ELSE 409
           ELSE IF fault THEN 500 ELSE 200)

\* The BFF touches no tenant data.  Only scopes of the platform's audience are
\* exchanged; status is the token endpoint's answer, 0 when there is none, and
\* token whether it holds a token.
handle_token_refresh(scopes, status, token) ==
    Refuse(IF scopes # "approved" THEN 400
           ELSE IF status \in {400, 401, 403, 429} THEN status
           ELSE IF status = 200 /\ token THEN 200 ELSE 503)

\* ping is the runtime's answer, 0 when there is none.
handle_session_keepalive(named, configured, ping) ==
    Refuse(IF ~named THEN 400
           ELSE IF ~configured THEN 503
           ELSE IF ping = 404 THEN 404
           ELSE IF ping = 200 THEN 202 ELSE 500)

Respond(res) == /\ call' = [call EXCEPT !.pc = "answered", !.code = res.code,
                                        !.touched = res.touched]
                /\ UNCHANGED <<actor, tenants, cred, policy, binding, changes>>

Serve(ops) == call.pc = "admitted" /\ call.route.op \in ops

ServeTenantRoute == /\ Serve(TenantOps \cup {"list"})
                    /\ \E found \in BOOLEAN, fault \in {0, 400, 500} :
                          Respond(TenantHandler(call.route, call.context, found, fault))

ServePlatformRoute == /\ Serve(PlatformOps)
                      /\ \E fault \in BOOLEAN :
                            Respond(AdminHandler(call.route, call.context, fault))

ServeTokenRefresh ==
    /\ Serve({"tokenRefresh"})
    /\ \E scopes \in {"approved", "foreign", "default", "none"}, token \in BOOLEAN,
          status \in {0, 200, 400, 401, 403, 429, 500} :
          Respond(handle_token_refresh(scopes, status, token))

ServeKeepalive == /\ Serve({"keepalive"})
                  /\ \E named, configured \in BOOLEAN, ping \in {0, 200, 404, 500} :
                        Respond(handle_session_keepalive(named, configured, ping))
-----------------------------------------------------------------------------
Older(n, cap) == IF n < cap THEN n + 1 ELSE cap

\* Mutant: the gateway's answer does not age.
KeptForever(p) == p

\* The answer and the binding are used for their lifetime and no longer.
AgedPolicy(p) == IF p.ttl <= 1 THEN NoPolicy ELSE [p EXCEPT !.ttl = @ - 1]
AgedBinding(b) == IF b.ttl <= 1 THEN NoBinding ELSE [b EXCEPT !.ttl = @ - 1]

ApiTick == /\ tenants' = [t \in AllTenants |->
                 [tenants[t] EXCEPT !.idle = IF tenants[t].active THEN 0 ELSE Older(@, CacheTtl),
                                    !.loose = IF tenants[t].bound THEN 0 ELSE Older(@, LooseCap)]]
           /\ cred' = IF cred > -CacheTtl THEN cred - 1 ELSE cred
           /\ policy' = AgedPolicy(policy)
           /\ binding' = AgedBinding(binding)
           /\ UNCHANGED <<actor, call, changes>>

ApiNext == \/ \E t \in AllTenants : SetStatus(t) \/ SetRole(t)
           \/ \E r \in Routes : UserCall(r)
           \/ \E r \in Routes, t \in Tenants : MachineCall(r, t)
           \/ \E up \in BOOLEAN : Authorise(up)
           \/ NetworkError \/ Answered \/ Logout \/ CachedAnswer
           \/ ServeTenantRoute \/ ServePlatformRoute \/ ServeTokenRefresh \/ ServeKeepalive
           \/ ApiTick
-----------------------------------------------------------------------------
ApiTypeOK ==
    /\ actor \in Actors
    /\ tenants \in [AllTenants -> [active : BOOLEAN, idle : 0..CacheTtl,
                                   bound : BOOLEAN, loose : 0..LooseCap]]
    /\ cred \in -CacheTtl..(TokenLife + SkewTtl)
    /\ policy \in [route : Routes, effect : {"Allow", "Deny"}, context : Context,
                   ttl : 1..CacheTtl] \cup {NoPolicy}
    /\ binding \in [tenant : Tenants, ttl : 1..BindingTtl] \cup {NoBinding}
    /\ call \in [pc : {"idle", "sent", "admitted", "answered"}, route : Routes \cup {NoRoute},
                 claim : Tenants \cup {NoTenant}, attempt : 0..MaxRetries, context : Context,
                 code : 0..503, touched : SUBSET AllTenants]
    /\ changes \in 0..MaxChanges
=============================================================================
