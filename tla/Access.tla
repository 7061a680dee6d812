------------------------------- MODULE Access -------------------------------
(***************************************************************************)
(* The platform's two ways in for people and machines: the REST API        *)
(* (module ApiAccess) and the tools of AgentCore Gateway (module           *)
(* ToolGateway).  They share the tenants and roles of a caller, but no     *)
(* Lambda, cache or table, so a behaviour follows a caller on one plane.   *)
(* Both keep answers and keys for minutes; the properties bound how long a *)
(* decision may outlive what it was based on.                              *)
(***************************************************************************)
EXTENDS ApiAccess, ToolGateway

VARIABLE plane

vars == <<plane, apiVars, toolVars>>

ASSUME OnePlatform == PlatformId = Platform

Init == /\ ApiInit /\ ToolInit
        /\ \/ plane = "rest" /\ client = CHOOSE c \in Clients : TRUE
           \/ plane = "tools" /\ actor = CHOOSE a \in Actors : a.kind = "user"

Next == \/ plane = "rest" /\ ApiNext /\ UNCHANGED <<plane, toolVars>>
        \/ plane = "tools" /\ ToolNext /\ UNCHANGED <<plane, apiVars>>

Spec == Init /\ [][Next]_vars
-----------------------------------------------------------------------------
\* Every variable has its type: lifetimes and ages stay within their caches'
\* bounds, and at most one answer, binding, key and record is kept of a kind.
TypeOK == plane \in {"rest", "tools"} /\ ApiTypeOK /\ ToolTypeOK

\* What an administrator takes away is gone within the caches' lifetimes: API
\* Gateway (platform-api.ts, resultsCacheTtl) admits no call of a tenant that
\* was suspended a cache lifetime ago, none with a token that expired as long
\* ago, and none of a machine whose role was taken from the tenant longer ago
\* than the authoriser's binding cache and the gateway's together.
RevocationBounded ==
    [][call.pc = "sent" /\ call'.pc = "admitted" =>
          LET t == call'.context.tenant
          IN /\ tenants[t].idle < CacheTtl
             /\ actor.kind = "user" => cred > 1 - CacheTtl
             /\ actor.kind = "machine" => tenants[t].loose < CacheTtl + BindingTtl - 1]_vars

\* A caller reaches the partition of another tenant only as Platform.Admin, or
\* as Platform.Operator of the platform's own tenant, and a machine only the
\* tenant it named and is bound to: whatever route the answer was cached for,
\* and whatever the tenant API's own checks (auth.py, db_factory.py) add.
PartitionGuarded ==
    IF actor.kind = "machine" THEN call.touched \subseteq {call.claim}
    ELSE \/ call.touched \subseteq {actor.tenant}
         \/ "Platform.Admin" \in actor.roles
         \/ actor.tenant = Platform /\ "Platform.Operator" \in actor.roles

\* Past the authoriser (handler.py, is_admin_route), a platform route runs as
\* the platform's tenant and only for a person with a platform role, agents
\* are registered only from that tenant, and nobody else speaks for it.
RouteGuarded ==
    call.context # NoContext =>
        /\ is_admin_route(call.route)
               => actor.roles \cap {"Platform.Admin", "Platform.Operator"} # {}
        /\ call.route.op = "registerAgent" => actor.tenant = Platform
        /\ (call.context.tenant = Platform)
               <=> (is_platform_route(call.route) \/ actor.tenant = Platform)

\* Tenants stay apart: both guards hold of the call in flight.
IsolationHeld == PartitionGuarded /\ RouteGuarded

\* The request interceptor forwards a call of a tool only if the registry's
\* authoritative record (the tenant's before the GLOBAL one) has allowed it,
\* for the caller's tier, within the life of a stored answer, and the
\* capability policy within that and the policy's own cache, unless AppConfig
\* could not be read until a stored answer's life ago.  A tool the response
\* interceptor hides from a list cannot be called by the caller who asked.
ToolCallEntitled ==
    [][/\ msg'.pc = "forwarded" /\ msg.pc # "forwarded" /\ msg.method = "tools/call" =>
              /\ lapsed <= TokenTtl
              /\ config.off < TokenTtl + PolicyTtl \/ config.out <= TokenTtl
       /\ msg.body = "listed" /\ msg'.body = "hidden" /\ Effective = client.tenant
              => ~Entitled(registry)]_vars

\* The platform's diagnostics refuse an operator's call only for a token that
\* has run out, while Secrets Manager is down, or soon after the signing key
\* was rotated: the interceptor (request_interceptor.py, two caches one after
\* the other) and the tool (diagnostics_handler.py) agree on the key again
\* once their five-minute copies and the tokens made with them have gone.
ScopedTokenHonoured ==
    [][msg.pc = "forwarded" /\ msg'.body = "denied" =>
          \/ msg.token.life = 0 \/ Effective # PlatformId
          \/ ~key.up \/ key.age < KeyAge]_vars
=============================================================================
