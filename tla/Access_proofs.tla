--------------------------- MODULE Access_proofs ---------------------------
(***************************************************************************)
(* Theorems about Access, for any tenants, routes, callers and lifetimes.  *)
(***************************************************************************)
EXTENDS Access, TLAPS

-----------------------------------------------------------------------------
(* The inductive invariant of the REST plane. *)

PlatformRoles == {"Platform.Admin", "Platform.Operator"}

\* What an answer "Allow" of the authoriser says of the caller: a person acts as
\* the tenant of the token, or the platform's on a platform route, a machine as
\* a customer's tenant and on no administrator's route.
Granted(r, ctx) ==
    IF actor.kind = "user"
    THEN /\ actor.tenant # NoTenant
         /\ ctx.tenant = (IF is_platform_route(r) THEN Platform ELSE actor.tenant)
         /\ ctx.roles = actor.roles
         /\ r.op = "registerAgent" => actor.tenant = Platform
         /\ is_admin_route(r) => actor.roles \cap PlatformRoles # {}
    ELSE ctx.tenant \in Tenants /\ ctx.roles = {"Machine.Invoke"} /\ ~is_admin_route(r)

\* Nothing has gone from a tenant that is as it was.
TenantsFresh == \A t \in AllTenants : /\ tenants[t].active => tenants[t].idle = 0
                                      /\ tenants[t].bound => tenants[t].loose = 0

\* A binding is no older than its lifetime, and the role was the tenant's then.
BindingFresh ==
    binding # NoBinding => tenants[binding.tenant].loose <= BindingTtl - binding.ttl

\* So is an answer of API Gateway, which the authoriser gave with a binding that
\* may have been at its end.
PolicyFresh ==
    policy.effect = "Allow" =>
        LET t == policy.context.tenant
        IN /\ Granted(policy.route, policy.context)
           /\ tenants[t].idle <= CacheTtl - policy.ttl
           /\ actor.kind = "user" => cred > policy.ttl - CacheTtl
           /\ actor.kind = "machine" => tenants[t].loose <= BindingTtl - 1 + CacheTtl - policy.ttl

\* The call in flight, and the answer kept for its header.
CallOk ==
    /\ call.pc = "idle" => call = Idle
    /\ call.pc # "idle" => /\ call.route \in Routes
                           /\ actor.kind = "machine" => call.claim \in Tenants
    /\ call.pc # "idle" /\ actor.kind = "machine" /\ policy.effect = "Allow" =>
           policy.context.tenant = call.claim
    /\ call.pc = "sent" => call.context = NoContext /\ call.touched = {}
    /\ call.pc = "admitted" => call.context # NoContext /\ call.touched = {}
    /\ call.context # NoContext =>
           /\ Granted(call.route, call.context)
           /\ actor.kind = "machine" => call.context.tenant = call.claim

ApiInv == /\ ApiTypeOK /\ TenantsFresh /\ BindingFresh /\ PolicyFresh /\ CallOk
          /\ PartitionGuarded

-----------------------------------------------------------------------------
(* The inductive invariant of the tools plane. *)

\* The ages count from when something stopped being so.
AgesFresh == /\ Entitled(registry) => lapsed = 0
             /\ config.enabled => config.off = 0
             /\ ~config.up => config.out = 0
             /\ key.version <= edits

\* A policy in use is no older than its lifetime.
KnownFresh == known.enabled /\ known.ttl > 0 => config.off <= PolicyTtl - known.ttl

\* A stored answer was right when it was given, by a policy that may have been
\* at its end.
StoreFresh ==
    store.state = "COMPLETED" /\ store.code = 200 /\ msg.method = "tools/call" =>
        /\ lapsed <= TokenTtl - store.ttl
        /\ \/ config.off < PolicyTtl + TokenTtl - store.ttl
           \/ config.out <= TokenTtl - store.ttl

\* A copy of a key that was rotated is no older than its lifetime, which
\* the interceptor's may have twice.
KeysFresh ==
    /\ toolKey.ttl > 0 /\ toolKey.version # key.version => key.age <= KeyTtl - toolKey.ttl
    /\ gateKey.ttl >= 0 /\ gateKey.version # key.version =>
          key.age <= (IF gateKey.shared THEN KeyTtl ELSE 2 * KeyTtl) - gateKey.ttl

\* Neither is a token made with the last of them.
TokenFresh(tok) ==
    tok.life > 0 /\ tok.key # key.version => key.age < 2 * KeyTtl + TokenTtl - tok.life

TokensFresh == TokenFresh(msg.token) /\ TokenFresh(store.token)

\* A tool has answered only what it was sent.
BodyOk == msg.pc \in {"idle", "received", "processing", "crashed", "forwarded"} => msg.body = "none"

ToolInv == ToolTypeOK /\ AgesFresh /\ KnownFresh /\ StoreFresh /\ KeysFresh /\ TokensFresh /\ BodyOk

Inv == plane \in {"rest", "tools"} /\ ApiInv /\ ToolInv

-----------------------------------------------------------------------------
(* The REST plane. *)

TenantRec == [active : BOOLEAN, idle : 0..CacheTtl, bound : BOOLEAN, loose : 0..LooseCap]
PolicyRec == [route : Routes, effect : {"Allow", "Deny"}, context : Context, ttl : 1..CacheTtl]
BindingRec == [tenant : Tenants, ttl : 1..BindingTtl]
CallRec == [pc : {"idle", "sent", "admitted", "answered"}, route : Routes \cup {NoRoute},
            claim : Tenants \cup {NoTenant}, attempt : 0..MaxRetries, context : Context,
            code : 0..503, touched : SUBSET AllTenants]
Creds == -CacheTtl..(TokenLife + SkewTtl)

\* What a step leaves alone keeps what is said of it.
LEMMA ApiUntouched ==
    ASSUME ApiInv, UNCHANGED actor
    PROVE  /\ UNCHANGED tenants => TenantsFresh'
           /\ UNCHANGED <<tenants, binding>> => BindingFresh'
           /\ UNCHANGED <<tenants, policy, cred>> => PolicyFresh'
           /\ UNCHANGED <<call, policy>> => CallOk'
           /\ UNCHANGED call => PartitionGuarded'
BY DEF ApiInv, TenantsFresh, BindingFresh, PolicyFresh, CallOk, PartitionGuarded, Granted

LEMMA ApiTypes ==
    ASSUME ApiInv
    PROVE  /\ actor \in Actors /\ actor \in Actor
           /\ tenants \in [AllTenants -> TenantRec]
           /\ cred \in Creds
           /\ policy \in PolicyRec \cup {NoPolicy}
           /\ binding \in BindingRec \cup {NoBinding}
           /\ call \in CallRec
           /\ changes \in 0..MaxChanges
BY AccessAssumption DEF ApiInv, ApiTypeOK, TenantRec, PolicyRec, BindingRec, CallRec, Creds

LEMMA ApiTypesNext ==
    ASSUME ApiInv, UNCHANGED actor,
           tenants' \in [AllTenants -> TenantRec], cred' \in Creds,
           policy' \in PolicyRec \cup {NoPolicy}, binding' \in BindingRec \cup {NoBinding},
           call' \in CallRec, changes' \in 0..MaxChanges
    PROVE  ApiTypeOK'
BY DEF ApiInv, ApiTypeOK, TenantRec, PolicyRec, BindingRec, CallRec, Creds

\* The lifetimes are numbers.
LEMMA Lifetimes ==
    /\ CacheTtl \in Nat /\ CacheTtl > 0 /\ BindingTtl \in Nat /\ BindingTtl > 0
    /\ SkewTtl \in Nat /\ SkewTtl > 0 /\ TokenLife \in Nat /\ TokenLife > 0
    /\ MaxRetries \in Nat /\ MaxChanges \in Nat /\ LooseCap \in Nat
BY AccessAssumption DEF LooseCap

\* A caller has one of two kinds, and the kinds differ.
LEMMA Kinds ==
    ASSUME ApiInv
    PROVE  /\ actor.kind \in {"user", "machine"} /\ actor.tenant \in AllTenants \cup {NoTenant}
           /\ actor.roles \in SUBSET Roles
           /\ actor.kind = "machine" => actor.tenant = NoTenant
BY ApiTypes, AccessAssumption DEF Actor

LEMMA NoneKept ==
    /\ NoPolicy.effect = "none" /\ NoPolicy.route = NoRoute /\ NoPolicy.ttl = 0
    /\ NoBinding.tenant = NoTenant /\ NoBinding.ttl = 0
    /\ NoContext \in Context
    /\ Idle \in CallRec /\ Idle.pc = "idle" /\ Idle.context = NoContext /\ Idle.touched = {}
    /\ Idle.claim = NoTenant /\ Idle.attempt = 0
<1>1. 0 \in 0..MaxRetries /\ 0 \in 0..503
  BY Lifetimes
<1> QED
  BY <1>1 DEF NoPolicy, NoBinding, NoContext, Context, Idle, CallRec

\* Administrators take away and give back, and what they touch is fresh.
LEMMA AdminKeeps ==
    ASSUME ApiInv, NEW t \in AllTenants, NEW rec \in TenantRec, AdminChange(t, rec),
           rec.active => rec.idle = 0, rec.bound => rec.loose = 0,
           rec.idle <= tenants[t].idle, rec.loose <= tenants[t].loose
    PROVE  ApiInv'
<1>1. /\ UNCHANGED <<actor, cred, policy, binding, call>>
      /\ tenants' = [tenants EXCEPT ![t] = rec]
      /\ changes < MaxChanges /\ changes' = changes + 1
  BY DEF AdminChange
<1>2. /\ tenants \in [AllTenants -> TenantRec] /\ changes \in 0..MaxChanges
      /\ policy \in PolicyRec \cup {NoPolicy} /\ binding \in BindingRec \cup {NoBinding}
  BY ApiTypes
<1>3. tenants' \in [AllTenants -> TenantRec]
  BY <1>1, <1>2
<1>4. changes' \in 0..MaxChanges
  BY <1>1, <1>2, Lifetimes
<1>5. ApiTypeOK'
  BY <1>1, <1>3, <1>4, ApiTypes, ApiTypesNext
<1>6. \A s \in AllTenants : /\ tenants'[s].idle \in Int /\ tenants[s].idle \in Int
                            /\ tenants'[s].loose \in Int /\ tenants[s].loose \in Int
                            /\ tenants'[s].idle <= tenants[s].idle
                            /\ tenants'[s].loose <= tenants[s].loose
  <2> TAKE s \in AllTenants
  <2>1. tenants'[s] \in TenantRec /\ tenants[s] \in TenantRec
    BY <1>2, <1>3
  <2>2. /\ tenants'[s].idle \in Int /\ tenants[s].idle \in Int
        /\ tenants'[s].loose \in Int /\ tenants[s].loose \in Int
    BY <2>1, Lifetimes DEF TenantRec
  <2>3. tenants'[s] = IF s = t THEN rec ELSE tenants[s]
    BY <1>1, <1>2
  <2> QED
    BY <2>2, <2>3
<1>7. TenantsFresh'
  BY <1>1, <1>2 DEF ApiInv, TenantsFresh
<1>8. BindingFresh'
  <2> SUFFICES ASSUME binding # NoBinding
               PROVE  tenants'[binding.tenant].loose <= BindingTtl - binding.ttl
    BY <1>1 DEF BindingFresh
  <2>1. binding.tenant \in AllTenants /\ binding.ttl \in Int
    BY <1>2, Lifetimes DEF BindingRec, AllTenants
  <2>2. tenants[binding.tenant].loose <= BindingTtl - binding.ttl
    BY DEF ApiInv, BindingFresh
  <2> QED
    BY <1>6, <2>1, <2>2, Lifetimes
<1>9. PolicyFresh'
  <2> DEFINE s == policy.context.tenant
  <2> SUFFICES ASSUME policy.effect = "Allow"
               PROVE  /\ Granted(policy.route, policy.context)
                      /\ tenants'[s].idle <= CacheTtl - policy.ttl
                      /\ actor.kind = "user" => cred > policy.ttl - CacheTtl
                      /\ actor.kind = "machine" =>
                            tenants'[s].loose <= BindingTtl - 1 + CacheTtl - policy.ttl
    BY <1>1 DEF PolicyFresh, Granted
  <2>1. /\ Granted(policy.route, policy.context)
        /\ tenants[s].idle <= CacheTtl - policy.ttl
        /\ actor.kind = "user" => cred > policy.ttl - CacheTtl
        /\ actor.kind = "machine" => tenants[s].loose <= BindingTtl - 1 + CacheTtl - policy.ttl
    BY DEF ApiInv, PolicyFresh
  <2>2. s \in AllTenants
    BY <2>1, Kinds DEF Granted, AllTenants
  <2>3. policy.ttl \in Int
    BY <1>2, NoneKept, Lifetimes DEF PolicyRec
  <2> HIDE DEF s
  <2> QED
    BY <1>6, <2>1, <2>2, <2>3, Lifetimes
<1> QED
  BY <1>1, <1>5, <1>7, <1>8, <1>9, ApiUntouched DEF ApiInv

LEMMA AdminStep ==
    ASSUME ApiInv, NEW t \in AllTenants, SetStatus(t) \/ SetRole(t)
    PROVE  ApiInv'
<1>1. tenants[t] \in TenantRec
  BY ApiTypes
<1>2. /\ tenants[t].active => tenants[t].idle = 0
      /\ tenants[t].bound => tenants[t].loose = 0
  BY DEF ApiInv, TenantsFresh
<1>3. tenants[t].idle \in Nat /\ tenants[t].loose \in Nat /\ 0 \in 0..CacheTtl /\ 0 \in 0..LooseCap
  BY <1>1, Lifetimes DEF TenantRec
<1>4. CASE SetStatus(t)
  <2> DEFINE rec == [tenants[t] EXCEPT !.active = ~@, !.idle = 0]
  <2>1. ASSUME NEW x \in TenantRec
        PROVE  LET y == [x EXCEPT !.active = ~@, !.idle = 0]
               IN  y \in TenantRec /\ y.idle = 0 /\ y.bound = x.bound /\ y.loose = x.loose
    BY <1>3 DEF TenantRec
  <2>2. rec \in TenantRec /\ rec.idle = 0 /\ rec.bound = tenants[t].bound /\ rec.loose = tenants[t].loose
    BY <1>1, <2>1
  <2>3. AdminChange(t, rec)
    BY <1>4 DEF SetStatus
  <2> HIDE DEF rec
  <2>4. rec.idle <= tenants[t].idle /\ rec.loose <= tenants[t].loose
    BY <1>3, <2>2
  <2> QED
    BY <1>2, <2>2, <2>3, <2>4, AdminKeeps
<1>5. CASE SetRole(t)
  <2> DEFINE rec == [tenants[t] EXCEPT !.bound = ~@, !.loose = 0]
  <2>1. ASSUME NEW x \in TenantRec
        PROVE  LET y == [x EXCEPT !.bound = ~@, !.loose = 0]
               IN  y \in TenantRec /\ y.loose = 0 /\ y.active = x.active /\ y.idle = x.idle
    BY <1>3 DEF TenantRec
  <2>2. rec \in TenantRec /\ rec.loose = 0 /\ rec.active = tenants[t].active /\ rec.idle = tenants[t].idle
    BY <1>1, <2>1
  <2>3. AdminChange(t, rec)
    BY <1>5 DEF SetRole
  <2> HIDE DEF rec
  <2>4. rec.idle <= tenants[t].idle /\ rec.loose <= tenants[t].loose
    BY <1>3, <2>2
  <2> QED
    BY <1>2, <2>2, <2>3, <2>4, AdminKeeps
<1> QED
  BY <1>4, <1>5

\* A call is sent, with a new header or, by the same caller, the last one.
LEMMA SendKeeps ==
    ASSUME ApiInv, NEW c \in CallRec, NEW fresh \in BOOLEAN, NEW life \in {0, TokenLife, SkewTtl},
           Send(c, fresh, life), c.route \in Routes,
           actor.kind = "machine" => c.claim \in Tenants,
           fresh \/ (actor.kind = "machine" => call.pc # "idle" /\ c.claim = call.claim)
    PROVE  ApiInv'
<1> DEFINE d == [c EXCEPT !.pc = "sent", !.context = NoContext, !.code = 0, !.touched = {}]
<1>1. /\ UNCHANGED <<actor, tenants, binding, changes>>
      /\ call' = d
      /\ cred' = (IF fresh THEN life ELSE cred)
      /\ policy' = (IF fresh THEN NoPolicy ELSE policy)
  BY DEF Send
<1>2. /\ d \in CallRec /\ d.pc = "sent" /\ d.context = NoContext /\ d.touched = {}
      /\ d.route = c.route /\ d.claim = c.claim
  <2>1. 0 \in 0..503 /\ NoContext \in Context
    BY NoneKept
  <2>2. ASSUME NEW x \in CallRec
        PROVE  LET y == [x EXCEPT !.pc = "sent", !.context = NoContext, !.code = 0, !.touched = {}]
               IN  /\ y \in CallRec /\ y.pc = "sent" /\ y.context = NoContext /\ y.touched = {}
                   /\ y.route = x.route /\ y.claim = x.claim
    BY <2>1 DEF CallRec
  <2> QED
    BY <2>2
<1> HIDE DEF d
<1>3. ApiTypeOK'
  <2>1. cred' \in Creds
    <3>1. life \in Creds
      BY Lifetimes DEF Creds
    <3> QED
      BY <1>1, <3>1, ApiTypes
  <2>2. policy' \in PolicyRec \cup {NoPolicy}
    BY <1>1, ApiTypes
  <2> QED
    BY <1>1, <1>2, <2>1, <2>2, ApiTypes, ApiTypesNext
<1>4. PolicyFresh'
  <2>1. CASE fresh
    BY <1>1, <2>1, NoneKept DEF PolicyFresh
  <2>2. CASE ~fresh
    BY <1>1, <2>2, ApiUntouched
  <2> QED
    BY <2>1, <2>2
<1>5. CallOk'
  <2>1. actor.kind = "machine" /\ policy'.effect = "Allow" => policy'.context.tenant = c.claim
    <3> SUFFICES ASSUME actor.kind = "machine", policy'.effect = "Allow"
                 PROVE  policy'.context.tenant = c.claim
      OBVIOUS
    <3>1. ~fresh /\ policy' = policy
      BY <1>1, NoneKept
    <3>2. call.pc # "idle" /\ c.claim = call.claim
      BY <3>1
    <3> QED
      BY <3>1, <3>2 DEF ApiInv, CallOk
  <2> QED
    BY <1>1, <1>2, <2>1 DEF CallOk
<1>6. PartitionGuarded'
  BY <1>1, <1>2 DEF PartitionGuarded
<1> QED
  BY <1>1, <1>3, <1>4, <1>5, <1>6, ApiUntouched DEF ApiInv

\* The caller has the answer, or none, and is done.
LEMMA DoneKeeps ==
    ASSUME ApiInv, call' = Idle, UNCHANGED <<actor, tenants, cred, policy, binding, changes>>
    PROVE  ApiInv'
<1>1. ApiTypeOK'
  BY NoneKept, ApiTypes, ApiTypesNext
<1>2. CallOk'
  BY NoneKept DEF CallOk
<1>3. PartitionGuarded'
  BY NoneKept DEF PartitionGuarded
<1> QED
  BY <1>1, <1>2, <1>3, ApiUntouched DEF ApiInv

LEMMA UserCallKeeps ==
    ASSUME ApiInv, NEW r \in Routes, UserCall(r)
    PROVE  ApiInv'
<1> DEFINE c == [Idle EXCEPT !.route = r]
           fresh == cred <= 0
<1>1. c \in CallRec /\ c.route = r
  <2>1. ASSUME NEW x \in CallRec
        PROVE  LET y == [x EXCEPT !.route = r] IN y \in CallRec /\ y.route = r
    BY DEF CallRec
  <2> QED
    BY <2>1, NoneKept
<1>2. Send(c, fresh, TokenLife) /\ actor.kind = "user"
  BY DEF UserCall, SendWithToken
<1>3. fresh \in BOOLEAN
  OBVIOUS
<1> HIDE DEF c, fresh
<1>4. actor.kind # "machine"
  BY <1>2
<1> QED
  BY <1>1, <1>2, <1>3, <1>4, SendKeeps

LEMMA MachineCallKeeps ==
    ASSUME ApiInv, NEW r \in Routes, NEW t \in Tenants, MachineCall(r, t)
    PROVE  ApiInv'
<1> DEFINE c == [Idle EXCEPT !.route = r, !.claim = t]
<1>1. c \in CallRec /\ c.route = r /\ c.claim = t
  <2>1. ASSUME NEW x \in CallRec
        PROVE  LET y == [x EXCEPT !.route = r, !.claim = t]
               IN  y \in CallRec /\ y.route = r /\ y.claim = t
    BY DEF CallRec
  <2> QED
    BY <2>1, NoneKept
<1>2. Send(c, TRUE, SkewTtl)
  BY DEF MachineCall
<1> HIDE DEF c
<1> QED
  BY <1>1, <1>2, SendKeeps

\* A repeated call is the same call.
LEMMA NetworkErrorKeeps ==
    ASSUME ApiInv, NetworkError
    PROVE  ApiInv'
<1> DEFINE c == [call EXCEPT !.attempt = @ + 1]
           fresh == cred <= 0
<1>1. call.pc # "idle" /\ call \in CallRec
  BY ApiTypes DEF NetworkError
<1>2. CASE call.attempt < MaxRetries /\ isIdempotentRequest(call.route)
  <2>1. call.attempt + 1 \in 0..MaxRetries
    BY <1>1, <1>2, Lifetimes DEF CallRec
  <2>2. ASSUME NEW x \in CallRec, x.attempt + 1 \in 0..MaxRetries
        PROVE  LET y == [x EXCEPT !.attempt = @ + 1]
               IN  y \in CallRec /\ y.route = x.route /\ y.claim = x.claim
    BY <2>2 DEF CallRec
  <2>3. c \in CallRec /\ c.route = call.route /\ c.claim = call.claim
    BY <1>1, <2>1, <2>2
  <2>4. c.route \in Routes /\ (actor.kind = "machine" => c.claim \in Tenants)
    BY <1>1, <2>3 DEF ApiInv, CallOk
  <2>5. IF actor.kind = "user" THEN Send(c, fresh, TokenLife) ELSE Send(c, FALSE, 0)
    BY <1>2 DEF NetworkError, SendWithToken
  <2>6. fresh \in BOOLEAN
    OBVIOUS
  <2> HIDE DEF c, fresh
  <2>7. CASE actor.kind = "user"
    <3>1. Send(c, fresh, TokenLife) /\ actor.kind # "machine"
      BY <2>5, <2>7
    <3> QED
      BY <2>3, <2>4, <2>6, <3>1, SendKeeps
  <2>8. CASE actor.kind # "user"
    <3>1. Send(c, FALSE, 0)
      BY <2>5, <2>8
    <3> QED
      BY <1>1, <2>3, <2>4, <3>1, SendKeeps
  <2> QED
    BY <2>7, <2>8
<1>3. CASE ~(call.attempt < MaxRetries /\ isIdempotentRequest(call.route))
  BY <1>3, DoneKeeps DEF NetworkError
<1> QED
  BY <1>2, <1>3

LEMMA LogoutKeeps ==
    ASSUME ApiInv, Logout
    PROVE  ApiInv'
<1>1. /\ UNCHANGED <<actor, tenants, binding, call, changes>> /\ cred' = 0 /\ policy' = NoPolicy
      /\ actor.kind = "user"
  BY DEF Logout
<1>2. ApiTypeOK'
  <2>1. 0 \in Creds
    BY Lifetimes DEF Creds
  <2> QED
    BY <1>1, <2>1, ApiTypes, ApiTypesNext
<1>3. PolicyFresh'
  BY <1>1, NoneKept DEF PolicyFresh
<1>4. CallOk'
  BY <1>1, NoneKept DEF ApiInv, CallOk, Granted
<1> QED
  BY <1>1, <1>2, <1>3, <1>4, ApiUntouched DEF ApiInv

\* The tenant of a grant is a tenant.
LEMMA GrantedTenant ==
    ASSUME ApiInv, NEW r, NEW ctx, Granted(r, ctx)
    PROVE  ctx.tenant \in AllTenants /\ ctx # NoContext
<1>1. ctx.tenant \in AllTenants
  BY Kinds DEF Granted, AllTenants
<1>2. NoContext.tenant = NoTenant
  BY DEF NoContext
<1> QED
  BY <1>1, <1>2, AccessAssumption

\* API Gateway applies an answer to the call.
LEMMA ApplyKeeps ==
    ASSUME ApiInv, call.pc = "sent", UNCHANGED <<actor, tenants, cred, changes>>,
           policy' \in PolicyRec \cup {NoPolicy}, binding' \in BindingRec \cup {NoBinding},
           PolicyFresh', BindingFresh', Apply(policy'),
           actor.kind = "machine" /\ policy'.effect = "Allow" => policy'.context.tenant = call.claim
    PROVE  ApiInv'
<1>1. /\ call \in CallRec /\ call.route \in Routes /\ call.context = NoContext /\ call.touched = {}
      /\ actor.kind = "machine" => call.claim \in Tenants
  BY ApiTypes DEF ApiInv, CallOk
<1>2. CASE Admits(policy', call.route)
  <2> DEFINE k == policy'.context
             d == [call EXCEPT !.pc = "admitted", !.context = k]
  <2>1. policy'.effect = "Allow" /\ policy'.route = call.route
    BY <1>2 DEF Admits
  <2>2. policy' \in PolicyRec /\ k \in Context
    <3>1. policy' # NoPolicy
      BY <2>1, NoneKept
    <3> QED
      BY <3>1 DEF PolicyRec
  <2>3. Granted(call.route, k)
    BY <2>1 DEF PolicyFresh, Granted
  <2>4. k # NoContext
    BY <2>3, GrantedTenant
  <2>5. call' = d
    BY <1>2 DEF Apply
  <2>6. /\ d \in CallRec /\ d.pc = "admitted" /\ d.context = k /\ d.touched = call.touched
        /\ d.route = call.route /\ d.claim = call.claim
    <3>1. ASSUME NEW x \in CallRec, NEW z \in Context
          PROVE  LET y == [x EXCEPT !.pc = "admitted", !.context = z]
                 IN  /\ y \in CallRec /\ y.pc = "admitted" /\ y.context = z
                     /\ y.touched = x.touched /\ y.route = x.route /\ y.claim = x.claim
      BY DEF CallRec
    <3> QED
      BY <1>1, <2>2, <3>1
  <2> HIDE DEF d
  <2>7. ApiTypeOK'
    BY <2>5, <2>6, ApiTypes, ApiTypesNext
  <2>8. CallOk'
    BY <1>1, <2>1, <2>3, <2>4, <2>5, <2>6 DEF CallOk, Granted
  <2>9. PartitionGuarded'
    BY <1>1, <2>5, <2>6 DEF PartitionGuarded
  <2> QED
    BY <2>7, <2>8, <2>9, ApiUntouched DEF ApiInv
<1>3. CASE ~Admits(policy', call.route)
  <2> DEFINE forbidden == 403
             d == [call EXCEPT !.pc = "answered", !.code = forbidden]
  <2>1. call' = d
    BY <1>3 DEF Apply
  <2>2. /\ d \in CallRec /\ d.pc = "answered" /\ d.context = call.context /\ d.touched = call.touched
        /\ d.route = call.route /\ d.claim = call.claim
    <3>1. forbidden \in 0..503
      OBVIOUS
    <3> HIDE DEF forbidden
    <3>2. call \in CallRec
      BY <1>1
    <3> QED
      BY <3>1, <3>2 DEF CallRec
  <2>3. ApiTypeOK'
    BY <2>1, <2>2, ApiTypes, ApiTypesNext
  <2>4. CallOk'
    BY <1>1, <2>1, <2>2 DEF CallOk
  <2>5. PartitionGuarded'
    BY <1>1, <2>1, <2>2 DEF PartitionGuarded
  <2> QED
    BY <2>3, <2>4, <2>5, ApiUntouched DEF ApiInv
<1> QED
  BY <1>2, <1>3

\* What the authoriser answers, by its decision.
LEMMA Generated ==
    ASSUME NEW allow \in BOOLEAN, NEW r \in Routes, NEW ctx, allow => ctx \in Context
    PROVE  LET g == generate_policy(allow, r, ctx)
           IN  /\ g \in PolicyRec /\ g.ttl = CacheTtl /\ g.route = r
               /\ g.effect = "Allow" => allow /\ g.context = ctx
<1>1. CacheTtl \in 1..CacheTtl
  BY Lifetimes
<1> QED
  BY <1>1, NoneKept DEF generate_policy, PolicyRec

\* An answer for a user: the token lives, and the tenant is active now.
LEMMA JwtAnswer ==
    ASSUME ApiInv, NEW r \in Routes, NEW up \in BOOLEAN, actor.kind = "user"
    PROVE  LET g == handle_jwt(r, up)
           IN  /\ g \in PolicyRec /\ g.ttl = CacheTtl /\ g.route = r
               /\ g.effect = "Allow" =>
                     /\ Granted(r, g.context) /\ cred > 0
                     /\ tenants[g.context.tenant].idle = 0
<1> DEFINE effective == IF is_platform_route(r) THEN Platform ELSE actor.tenant
           ctx == [tenant |-> effective, roles |-> actor.roles]
           allow == /\ cred > 0
                    /\ actor.tenant # NoTenant
                    /\ r.op = "registerAgent" => actor.tenant = Platform
                    /\ StatusActive(effective, up)
                    /\ is_admin_route(r)
                           => actor.roles \cap {"Platform.Admin", "Platform.Operator"} # {}
           g == handle_jwt(r, up)
<1>1. g = generate_policy(allow, r, ctx)
  BY DEF handle_jwt
<1>2. allow \in BOOLEAN
  OBVIOUS
<1>3. effective \in AllTenants \cup {NoTenant}
  BY Kinds DEF AllTenants
<1>4. ctx \in Context /\ ctx.tenant = effective /\ ctx.roles = actor.roles
  <2> HIDE DEF effective
  <2> QED
    BY <1>3, Kinds DEF Context
<1>5. allow => Granted(r, ctx) /\ cred > 0 /\ tenants[effective].active
  <2> HIDE DEF ctx
  <2> QED
    BY <1>4 DEF Granted, PlatformRoles, StatusActive
<1>6. allow => effective \in AllTenants
  BY Kinds DEF AllTenants
<1>7. allow => tenants[effective].idle = 0
  BY <1>5, <1>6 DEF ApiInv, TenantsFresh
<1> HIDE DEF allow, effective, ctx
<1>8. /\ g \in PolicyRec /\ g.ttl = CacheTtl /\ g.route = r
      /\ g.effect = "Allow" => allow /\ g.context = ctx
  BY <1>1, <1>2, <1>4, Generated
<1> HIDE DEF g
<1>9. /\ g \in PolicyRec /\ g.ttl = CacheTtl /\ g.route = r
      /\ g.effect = "Allow" =>
            /\ Granted(r, g.context) /\ cred > 0
            /\ tenants[g.context.tenant].idle = 0
  BY <1>4, <1>5, <1>7, <1>8
<1> QED
  BY <1>9 DEF g

\* A binding: of a tenant that has the role now, or had it when it was kept.
LEMMA BindingResult ==
    ASSUME ApiInv, NEW up \in BOOLEAN, NEW res \in resolve_sigv4_tenant_binding(up)
    PROVE  /\ res[2] \in BindingRec \cup {NoBinding}
           /\ res[2] # NoBinding => tenants[res[2].tenant].loose <= BindingTtl - res[2].ttl
           /\ res[1] \in Tenants \cup {NoTenant}
           /\ res[1] # NoTenant => tenants[res[1]].loose <= BindingTtl - 1
<1>1. binding \in BindingRec \cup {NoBinding} /\ tenants \in [AllTenants -> TenantRec]
  BY ApiTypes
<1>2. CASE binding # NoBinding
  <2>1. res[1] = binding.tenant /\ res[2] = binding
    BY <1>2 DEF resolve_sigv4_tenant_binding
  <2>2. binding.tenant \in Tenants /\ binding.ttl \in Int /\ binding.ttl >= 1
    BY <1>1, <1>2, Lifetimes DEF BindingRec
  <2>3. tenants[binding.tenant].loose \in Int
    BY <1>1, <2>2, Lifetimes DEF TenantRec, AllTenants
  <2>4. tenants[binding.tenant].loose <= BindingTtl - binding.ttl
    BY <1>2 DEF ApiInv, BindingFresh
  <2> QED
    BY <1>1, <2>1, <2>2, <2>3, <2>4, Lifetimes
<1>3. CASE binding = NoBinding
  <2>1. \/ res = <<NoTenant, NoBinding>>
        \/ \E t \in BoundTenants :
              res = <<IF up /\ Cardinality(BoundTenants) = 1 THEN t ELSE NoTenant, NewBinding(t)>>
    BY <1>3 DEF resolve_sigv4_tenant_binding
  <2>2. CASE res = <<NoTenant, NoBinding>>
    BY <2>2
  <2>3. ASSUME NEW t \in BoundTenants,
               res = <<IF up /\ Cardinality(BoundTenants) = 1 THEN t ELSE NoTenant, NewBinding(t)>>
        PROVE  /\ res[2] \in BindingRec \cup {NoBinding}
               /\ res[2] # NoBinding => tenants[res[2].tenant].loose <= BindingTtl - res[2].ttl
               /\ res[1] \in Tenants \cup {NoTenant}
               /\ res[1] # NoTenant => tenants[res[1]].loose <= BindingTtl - 1
    <3>1. t \in Tenants /\ tenants[t].loose = 0
      BY DEF BoundTenants, ApiInv, TenantsFresh, AllTenants
    <3>2. NewBinding(t) \in BindingRec /\ NewBinding(t).tenant = t /\ NewBinding(t).ttl = BindingTtl
      <4>1. BindingTtl \in 1..BindingTtl
        BY Lifetimes
      <4> QED
        BY <3>1, <4>1 DEF NewBinding, BindingRec
    <3>3. res[2] = NewBinding(t) /\ res[1] \in {t, NoTenant}
      BY <2>3
    <3>4. 0 <= BindingTtl - BindingTtl /\ 0 <= BindingTtl - 1
      BY Lifetimes
    <3> QED
      BY <3>1, <3>2, <3>3, <3>4
  <2> QED
    BY <2>1, <2>2, <2>3
<1> QED
  BY <1>2, <1>3

\* An answer for a machine: it has named the tenant it is bound to.
LEMMA SigV4Answer ==
    ASSUME ApiInv, NEW r \in Routes, NEW up \in BOOLEAN, actor.kind = "machine",
           NEW bound \in Tenants \cup {NoTenant}
    PROVE  LET g == handle_sigv4(r, up, bound)
           IN  /\ g \in PolicyRec /\ g.ttl = CacheTtl /\ g.route = r
               /\ g.effect = "Allow" =>
                     /\ Granted(r, g.context) /\ bound # NoTenant
                     /\ g.context.tenant = bound /\ bound = call.claim
                     /\ tenants[g.context.tenant].idle = 0
<1> DEFINE ctx == [tenant |-> bound, roles |-> {"Machine.Invoke"}]
           allow == /\ SigV4Accepted
                    /\ bound # NoTenant /\ bound = call.claim
                    /\ StatusActive(bound, up)
                    /\ ~is_admin_route(r)
           g == handle_sigv4(r, up, bound)
<1>1. g = generate_policy(allow, r, ctx)
  BY DEF handle_sigv4
<1>2. allow \in BOOLEAN
  OBVIOUS
<1>3. ctx \in Context /\ ctx.tenant = bound /\ ctx.roles = {"Machine.Invoke"}
  BY DEF Context, AllTenants, Roles
<1>4. allow => /\ Granted(r, ctx) /\ bound \in AllTenants /\ tenants[bound].active
               /\ bound # NoTenant /\ bound = call.claim
  <2> HIDE DEF ctx
  <2> QED
    BY <1>3 DEF Granted, StatusActive, AllTenants
<1>5. allow => tenants[bound].idle = 0
  BY <1>4 DEF ApiInv, TenantsFresh
<1> HIDE DEF allow, ctx
<1>6. /\ g \in PolicyRec /\ g.ttl = CacheTtl /\ g.route = r
      /\ g.effect = "Allow" => allow /\ g.context = ctx
  BY <1>1, <1>2, <1>3, Generated
<1> HIDE DEF g
<1>7. /\ g \in PolicyRec /\ g.ttl = CacheTtl /\ g.route = r
      /\ g.effect = "Allow" =>
            /\ Granted(r, g.context) /\ bound # NoTenant
            /\ g.context.tenant = bound /\ bound = call.claim
            /\ tenants[g.context.tenant].idle = 0
  BY <1>3, <1>4, <1>5, <1>6
<1> QED
  BY <1>7 DEF g

LEMMA AuthoriseKeeps ==
    ASSUME ApiInv, NEW up \in BOOLEAN, Authorise(up)
    PROVE  ApiInv' /\ PolicyFresh'
<1>1. /\ call.pc = "sent" /\ UNCHANGED <<actor, tenants, cred, changes>> /\ Apply(policy')
      /\ call.route \in Routes
  BY DEF Authorise, ApiInv, CallOk
<1>2. 0 <= CacheTtl - CacheTtl /\ CacheTtl - CacheTtl = 0
  BY Lifetimes
<1>3. CASE actor.kind = "user"
  <2> DEFINE g == handle_jwt(call.route, up)
  <2>1. policy' = g /\ UNCHANGED binding
    BY <1>3 DEF Authorise
  <2>2. /\ g \in PolicyRec /\ g.ttl = CacheTtl /\ g.route = call.route
        /\ g.effect = "Allow" =>
              /\ Granted(call.route, g.context) /\ cred > 0
              /\ tenants[g.context.tenant].idle = 0
    BY <1>1, <1>3, JwtAnswer
  <2> HIDE DEF g
  <2>3. PolicyFresh'
    BY <1>1, <1>2, <1>3, <2>1, <2>2 DEF PolicyFresh, Granted
  <2>4. BindingFresh' /\ binding' \in BindingRec \cup {NoBinding}
    BY <1>1, <2>1, ApiUntouched, ApiTypes
  <2>5. actor.kind # "machine"
    BY <1>3
  <2> QED
    BY <1>1, <2>1, <2>2, <2>3, <2>4, <2>5, ApplyKeeps
<1>4. CASE actor.kind = "machine"
  <2>1. PICK res \in IF SigV4Accepted THEN resolve_sigv4_tenant_binding(up) ELSE {<<NoTenant, binding>>} :
           policy' = handle_sigv4(call.route, up, res[1]) /\ binding' = res[2]
    BY <1>4 DEF Authorise
  <2>2. /\ res[2] \in BindingRec \cup {NoBinding}
        /\ res[2] # NoBinding => tenants[res[2].tenant].loose <= BindingTtl - res[2].ttl
        /\ res[1] \in Tenants \cup {NoTenant}
        /\ res[1] # NoTenant => tenants[res[1]].loose <= BindingTtl - 1
    <3>1. CASE SigV4Accepted
      BY <2>1, <3>1, BindingResult
    <3>2. CASE ~SigV4Accepted
      <4>1. res[1] = NoTenant /\ res[2] = binding
        BY <2>1, <3>2
      <4> QED
        BY <4>1, ApiTypes DEF ApiInv, BindingFresh
    <3> QED
      BY <3>1, <3>2
  <2> DEFINE bound == res[1]
             g == handle_sigv4(call.route, up, bound)
  <2>3. policy' = g
    BY <2>1
  <2>4. /\ g \in PolicyRec /\ g.ttl = CacheTtl /\ g.route = call.route
        /\ g.effect = "Allow" =>
              /\ Granted(call.route, g.context) /\ bound # NoTenant
              /\ g.context.tenant = bound /\ bound = call.claim
              /\ tenants[g.context.tenant].idle = 0
    BY <1>1, <1>4, <2>2, SigV4Answer
  <2> HIDE DEF g
  <2>5. PolicyFresh'
    <3>1. g.effect = "Allow" => tenants[g.context.tenant].loose <= BindingTtl - 1 + CacheTtl - g.ttl
      <4> SUFFICES ASSUME g.effect = "Allow"
                   PROVE  tenants[g.context.tenant].loose <= BindingTtl - 1 + CacheTtl - g.ttl
        OBVIOUS
      <4>1. tenants[bound].loose <= BindingTtl - 1 /\ g.context.tenant = bound /\ g.ttl = CacheTtl
        BY <2>2, <2>4
      <4>2. BindingTtl - 1 = BindingTtl - 1 + CacheTtl - CacheTtl
        BY Lifetimes
      <4> QED
        BY <4>1, <4>2
    <3>2. actor.kind # "user"
      BY <1>4
    <3> QED
      BY <1>1, <1>2, <2>3, <2>4, <3>1, <3>2 DEF PolicyFresh, Granted
  <2>6. BindingFresh'
    BY <1>1, <2>1, <2>2 DEF BindingFresh
  <2>7. binding' \in BindingRec \cup {NoBinding}
    BY <2>1, <2>2
  <2> QED
    BY <1>1, <2>3, <2>4, <2>5, <2>6, <2>7, ApplyKeeps
<1> QED
  BY <1>3, <1>4, Kinds

LEMMA CachedAnswerKeeps ==
    ASSUME ApiInv, CachedAnswer
    PROVE  ApiInv' /\ PolicyFresh'
<1>1. /\ call.pc = "sent" /\ UNCHANGED <<actor, tenants, cred, policy, binding, changes>>
      /\ Apply(policy')
  BY DEF CachedAnswer, Apply
<1>2. actor.kind = "machine" /\ policy'.effect = "Allow" => policy'.context.tenant = call.claim
  BY <1>1 DEF ApiInv, CallOk
<1>3. PolicyFresh' /\ BindingFresh'
  BY <1>1, ApiUntouched
<1>4. policy' \in PolicyRec \cup {NoPolicy} /\ binding' \in BindingRec \cup {NoBinding}
  BY <1>1, ApiTypes
<1> QED
  BY <1>1, <1>2, <1>3, <1>4, ApplyKeeps

\* The partitions a caller may reach.
MayReach(T) ==
    IF actor.kind = "machine" THEN T \subseteq {call.claim}
    ELSE \/ T \subseteq {actor.tenant}
         \/ "Platform.Admin" \in actor.roles
         \/ actor.tenant = Platform /\ "Platform.Operator" \in actor.roles

Codes == {200, 202, 400, 401, 403, 404, 409, 429, 500, 503}
Faults == {0, 400, 500}

LEMMA CodesInRange == Codes \subseteq 0..503
BY DEF Codes

\* A handler's answer keeps the invariant if the handler stayed in its partitions.
LEMMA RespondKeeps ==
    ASSUME ApiInv, call.pc = "admitted", NEW res, Respond(res), res.code \in Codes,
           res.touched \in SUBSET AllTenants, MayReach(res.touched)
    PROVE  ApiInv'
<1> DEFINE n == res.code
           T == res.touched
           d == [call EXCEPT !.pc = "answered", !.code = n, !.touched = T]
<1>1. call' = d /\ UNCHANGED <<actor, tenants, cred, policy, binding, changes>>
  BY DEF Respond
<1>2. call \in CallRec /\ n \in 0..503 /\ T \in SUBSET AllTenants
  BY ApiTypes, CodesInRange
<1> HIDE DEF n, T
<1>3. /\ d \in CallRec /\ d.pc = "answered" /\ d.context = call.context /\ d.touched = T
      /\ d.route = call.route /\ d.claim = call.claim
  BY <1>2 DEF CallRec
<1> HIDE DEF d
<1>4. ApiTypeOK'
  BY <1>1, <1>3, ApiTypes, ApiTypesNext
<1>5. CallOk'
  BY <1>1, <1>3 DEF ApiInv, CallOk, Granted
<1>6. PartitionGuarded'
  BY <1>1, <1>3 DEF PartitionGuarded, MayReach, T
<1> QED
  BY <1>1, <1>4, <1>5, <1>6, ApiUntouched DEF ApiInv

\* The client of a tenant lets a handler into that tenant's partition only, and
\* opens for the tenant itself or the platform's.
LEMMA RecordTouched ==
    ASSUME NEW c, NEW t, NEW may \in BOOLEAN, NEW found \in BOOLEAN, NEW fault \in Faults
    PROVE  /\ OnRecord(c, t, may, found, fault).code \in Codes
           /\ OnRecord(c, t, may, found, fault).touched \subseteq {t}
           /\ OnRecord(c, t, may, found, fault).touched # {} =>
                 may = TRUE /\ (c.tenant = Platform \/ c.tenant = t)
<1> DEFINE res == OnRecord(c, t, may, found, fault)
<1>1. CASE ~may \/ ~require_tenant_scope_allowed(c, t)
  <2>1. res = [code |-> 403, touched |-> {}]
    BY <1>1 DEF OnRecord, Refuse
  <2> QED
    BY <2>1 DEF Codes
<1>2. CASE may /\ require_tenant_scope_allowed(c, t)
  <2> DEFINE n == IF ~found THEN 404 ELSE IF fault # 0 THEN fault ELSE 200
  <2>1. res = [code |-> n, touched |-> {t}]
    BY <1>2 DEF OnRecord, TenantScopedDynamoDB
  <2>2. n \in Codes
    BY DEF Codes, Faults
  <2>3. c.tenant = Platform \/ c.tenant = t
    BY <1>2 DEF require_tenant_scope_allowed, is_platform_actor
  <2> HIDE DEF n, res
  <2>4. res.code = n /\ res.touched = {t}
    BY <2>1
  <2> QED
    BY <1>2, <2>2, <2>3, <2>4 DEF res
<1> QED
  BY <1>1, <1>2

\* The tenant API's handlers stay in the partitions of their caller.
LEMMA TenantRouteGuarded ==
    ASSUME ApiInv, call.pc = "admitted", call.route.op \in TenantOps \cup {"list"},
           NEW found \in BOOLEAN, NEW fault \in Faults
    PROVE  LET res == TenantHandler(call.route, call.context, found, fault)
           IN  res.code \in Codes /\ res.touched \in SUBSET AllTenants /\ MayReach(res.touched)
<1> DEFINE c == call.context
           r == call.route
           t == call.route.target
           Good(res) == res.code \in Codes /\ res.touched \in SUBSET AllTenants /\ MayReach(res.touched)
           Reach == \/ c.tenant = t
                    \/ "Platform.Admin" \in c.roles
                    \/ c.tenant = Platform /\ "Platform.Operator" \in c.roles
<1>1. /\ r \in Routes /\ c # NoContext /\ Granted(r, c)
      /\ actor.kind = "machine" => c.tenant = call.claim
  BY DEF ApiInv, CallOk
<1>2. r \in AllRoutes /\ r.op \notin PlatformOps
  BY <1>1, AccessAssumption DEF TenantOps, PlatformOps
<1>3. /\ r.op \in TenantOps => t \in AllTenants
      /\ r.op = "list" => t = NoTenant
  BY <1>2 DEF AllRoutes, TenantOps, PlatformOps, BffOps
<1>4. c.tenant \in AllTenants
  BY <1>1, GrantedTenant
<1>5. Good(Refuse(400))
  BY DEF Refuse, Codes, MayReach
<1>6. CASE actor.kind = "user"
  <2>1. c.tenant = actor.tenant /\ c.roles = actor.roles
    BY <1>1, <1>2, <1>6 DEF Granted, is_platform_route
  <2>2. ASSUME NEW s \in AllTenants, NEW may \in BOOLEAN,
               may => \/ c.tenant = s
                      \/ "Platform.Admin" \in c.roles
                      \/ c.tenant = Platform /\ "Platform.Operator" \in c.roles
        PROVE  Good(OnRecord(c, s, may, found, fault)) /\ Good(OnRecord(c, s, may, found, 0))
    <3>1. ASSUME NEW f \in Faults
          PROVE  Good(OnRecord(c, s, may, found, f))
      <4> DEFINE res == OnRecord(c, s, may, found, f)
      <4>1. /\ res.code \in Codes
            /\ res.touched \subseteq {s}
            /\ res.touched # {} => may = TRUE /\ (c.tenant = Platform \/ c.tenant = s)
        <5>1. OnRecord(c, s, may, found, f).code \in Codes
          BY RecordTouched, Zenon
        <5>2. OnRecord(c, s, may, found, f).touched \subseteq {s}
          BY RecordTouched, Zenon
        <5>3. OnRecord(c, s, may, found, f).touched # {} =>
                 may = TRUE /\ (c.tenant = Platform \/ c.tenant = s)
          BY RecordTouched, Zenon
        <5> QED
          BY <5>1, <5>2, <5>3
      <4> HIDE DEF res
      <4>2. MayReach(res.touched)
        BY <1>6, <2>1, <2>2, <4>1 DEF MayReach
      <4> QED
        BY <4>1, <4>2 DEF res
    <3>2. 0 \in Faults
      BY DEF Faults
    <3> QED
      BY <3>1, <3>2
  <2>3. CASE r.op = "list"
    <3>1. TenantHandler(r, c, found, fault) = handle_list_tenants(c, found, fault)
      BY <1>3, <2>3 DEF TenantHandler
    <3>2. CASE is_admin(c)
      <4>1. "Platform.Admin" \in actor.roles
        BY <2>1, <3>2 DEF is_admin
      <4>2. CASE fault = 400
        BY <1>5, <3>1, <3>2, <4>2 DEF handle_list_tenants
      <4>3. CASE fault # 400
        <5> DEFINE n == IF fault # 0 THEN fault ELSE 200
        <5>1. handle_list_tenants(c, found, fault) = [code |-> n, touched |-> AllTenants]
          BY <3>2, <4>3 DEF handle_list_tenants, ControlPlaneDynamoDB
        <5>2. n \in Codes
          BY DEF Codes, Faults
        <5> HIDE DEF n
        <5> QED
          BY <1>6, <3>1, <4>1, <5>1, <5>2 DEF MayReach
      <4> QED
        BY <4>2, <4>3
    <3>3. CASE ~is_admin(c)
      <4> DEFINE res == handle_read(c, c.tenant, found, 0)
      <4>1. TenantHandler(r, c, found, fault) = [res EXCEPT !.code = 200]
        BY <3>1, <3>3 DEF handle_list_tenants
      <4>2. Good(res)
        <5>1. can_read_tenant(c, c.tenant) \in BOOLEAN
          BY DEF can_read_tenant
        <5> QED
          BY <1>4, <2>2, <5>1 DEF handle_read
      <4>3. res.touched = [res EXCEPT !.code = 200].touched /\ [res EXCEPT !.code = 200].code = 200
        BY DEF handle_read, OnRecord, Refuse
      <4> HIDE DEF res
      <4> QED
        BY <4>1, <4>2, <4>3 DEF Codes
    <3> QED
      BY <3>2, <3>3
  <2>4. CASE r.op \in TenantOps
    <3>0. t \in AllTenants
      BY <1>3, <2>4
    <3>1. CASE ~canonical_tenant_id(c, t)
      BY <1>5, <3>0, <3>1, AccessAssumption DEF TenantHandler
    <3>2. CASE canonical_tenant_id(c, t)
      <4>1. /\ can_read_tenant(c, t) \in BOOLEAN /\ (can_read_tenant(c, t) => Reach)
            /\ is_admin(c) \in BOOLEAN /\ (is_admin(c) => Reach)
        BY DEF can_read_tenant, is_admin
      <4>2. /\ can_manage_tenant_self_service(c, t) \in BOOLEAN
            /\ can_manage_tenant_self_service(c, t) => Reach
        BY DEF can_manage_tenant_self_service, is_platform_actor
      <4>3. Good(handle_read(c, t, found, fault)) /\ Good(handle_update(c, t, found, fault))
        BY <2>2, <3>0, <4>1 DEF handle_read, handle_update
      <4>4. Good(handle_rotate_api_key(c, t, found, fault))
        BY <2>2, <3>0, <4>2 DEF handle_rotate_api_key
      <4>5. Good(handle_list_invites(c, t, found, fault))
        <5> DEFINE may == can_read_tenant(c, t) /\ can_manage_tenant_self_service(c, t)
        <5>1. may \in BOOLEAN /\ (may => Reach)
          BY <4>1
        <5> HIDE DEF may
        <5>2. Good(OnRecord(c, t, may, found, fault))
          BY <2>2, <3>0, <5>1
        <5> QED
          BY <5>2 DEF handle_list_invites, may
      <4>6. Good(handle_audit_export(c, t, found, fault))
        <5> DEFINE res == OnRecord(c, t, is_admin(c), found, fault)
                   out == handle_audit_export(c, t, found, fault)
        <5>1. Good(res)
          BY <2>2, <3>0, <4>1
        <5>2. out.code = res.code /\ out.touched \in {res.touched, res.touched \cup {t}}
          BY DEF handle_audit_export, TenantScopedS3, OnRecord, Refuse
        <5>3. out.touched # res.touched => res.code = 200
          BY DEF handle_audit_export, OnRecord, Refuse
        <5>4. res.code = 200 => is_admin(c)
          BY DEF OnRecord, Refuse
        <5> HIDE DEF res, out
        <5>5. MayReach(out.touched)
          BY <1>6, <2>1, <5>1, <5>2, <5>3, <5>4 DEF MayReach, is_admin
        <5> QED
          BY <3>0, <5>1, <5>2, <5>5 DEF out
      <4> HIDE DEF Good
      <4>7. Good(TenantHandler(r, c, found, fault))
        BY <2>4, <3>0, <3>2, <4>3, <4>4, <4>5, <4>6 DEF TenantHandler, TenantOps
      <4> QED
        BY <4>7 DEF Good
    <3> QED
      BY <3>1, <3>2
  <2> QED
    BY <2>3, <2>4
<1>7. CASE actor.kind = "machine"
  <2>1. /\ c.tenant = call.claim /\ c.tenant # Platform /\ ~is_admin(c)
        /\ r.op \notin {"update", "auditExport"}
    BY <1>1, <1>7, AccessAssumption DEF Granted, is_admin, is_admin_route
  <2>2. ASSUME NEW s \in AllTenants, NEW may \in BOOLEAN
        PROVE  Good(OnRecord(c, s, may, found, fault)) /\ Good(OnRecord(c, s, may, found, 0))
    <3>1. ASSUME NEW f \in Faults
          PROVE  Good(OnRecord(c, s, may, found, f))
      <4> DEFINE res == OnRecord(c, s, may, found, f)
      <4>1. /\ res.code \in Codes
            /\ res.touched \subseteq {s}
            /\ res.touched # {} => may = TRUE /\ (c.tenant = Platform \/ c.tenant = s)
        <5>1. OnRecord(c, s, may, found, f).code \in Codes
          BY RecordTouched, Zenon
        <5>2. OnRecord(c, s, may, found, f).touched \subseteq {s}
          BY RecordTouched, Zenon
        <5>3. OnRecord(c, s, may, found, f).touched # {} =>
                 may = TRUE /\ (c.tenant = Platform \/ c.tenant = s)
          BY RecordTouched, Zenon
        <5> QED
          BY <5>1, <5>2, <5>3
      <4> HIDE DEF res
      <4>2. MayReach(res.touched)
        BY <1>7, <2>1, <4>1 DEF MayReach
      <4> QED
        BY <4>1, <4>2 DEF res
    <3>2. 0 \in Faults
      BY DEF Faults
    <3> QED
      BY <3>1, <3>2
  <2>3. CASE r.op = "list"
    <3> DEFINE res == handle_read(c, c.tenant, found, 0)
    <3>1. TenantHandler(r, c, found, fault) = [res EXCEPT !.code = 200]
      BY <1>3, <2>1, <2>3 DEF TenantHandler, handle_list_tenants
    <3>2. Good(res)
      <4>1. can_read_tenant(c, c.tenant) \in BOOLEAN
        BY DEF can_read_tenant
      <4> QED
        BY <1>4, <2>2, <4>1 DEF handle_read
    <3>3. res.touched = [res EXCEPT !.code = 200].touched /\ [res EXCEPT !.code = 200].code = 200
      BY DEF handle_read, OnRecord, Refuse
    <3> HIDE DEF res
    <3> QED
      BY <3>1, <3>2, <3>3 DEF Codes
  <2>4. CASE r.op \in TenantOps
    <3>0. t \in AllTenants
      BY <1>3, <2>4
    <3>1. CASE ~canonical_tenant_id(c, t)
      BY <1>5, <3>0, <3>1, AccessAssumption DEF TenantHandler
    <3>2. CASE canonical_tenant_id(c, t)
      <4>1. can_read_tenant(c, t) \in BOOLEAN /\ can_manage_tenant_self_service(c, t) \in BOOLEAN
        BY DEF can_read_tenant, can_manage_tenant_self_service
      <4>2. /\ Good(handle_read(c, t, found, fault))
            /\ Good(handle_rotate_api_key(c, t, found, fault))
        BY <2>2, <3>0, <4>1 DEF handle_read, handle_rotate_api_key
      <4>3. Good(handle_list_invites(c, t, found, fault))
        <5> DEFINE may == can_read_tenant(c, t) /\ can_manage_tenant_self_service(c, t)
        <5>1. may \in BOOLEAN
          OBVIOUS
        <5> HIDE DEF may
        <5>2. Good(OnRecord(c, t, may, found, fault))
          BY <2>2, <3>0, <5>1
        <5> QED
          BY <5>2 DEF handle_list_invites, may
      <4> HIDE DEF Good
      <4>4. Good(TenantHandler(r, c, found, fault))
        BY <2>1, <2>4, <3>0, <3>2, <4>2, <4>3 DEF TenantHandler, TenantOps
      <4> QED
        BY <4>4 DEF Good
    <3> QED
      BY <3>1, <3>2
  <2> QED
    BY <2>3, <2>4
<1> QED
  BY <1>6, <1>7, Kinds

LEMMA ServeKeeps ==
    ASSUME ApiInv, ServeTenantRoute \/ ServePlatformRoute \/ ServeTokenRefresh \/ ServeKeepalive
    PROVE  ApiInv'
<1>1. call.pc = "admitted"
  BY DEF ServeTenantRoute, ServePlatformRoute, ServeTokenRefresh, ServeKeepalive, Serve
<1>2. ASSUME NEW n \in Codes, Respond(Refuse(n))
      PROVE  ApiInv'
  <2> DEFINE res == Refuse(n)
  <2>1. res.code \in Codes /\ res.touched = {}
    BY DEF Refuse
  <2>2. Respond(res)
    BY <1>2
  <2> HIDE DEF res
  <2>3. MayReach(res.touched) /\ res.touched \in SUBSET AllTenants
    BY <2>1 DEF MayReach
  <2> QED
    BY <1>1, <2>1, <2>2, <2>3, RespondKeeps
<1>3. CASE ServeTenantRoute
  <2>1. PICK found \in BOOLEAN, fault \in Faults :
           Respond(TenantHandler(call.route, call.context, found, fault))
    BY <1>3 DEF ServeTenantRoute, Faults
  <2>2. call.route.op \in TenantOps \cup {"list"}
    BY <1>3 DEF ServeTenantRoute, Serve
  <2> DEFINE res == TenantHandler(call.route, call.context, found, fault)
  <2>3. res.code \in Codes /\ res.touched \in SUBSET AllTenants /\ MayReach(res.touched)
    BY <1>1, <2>2, TenantRouteGuarded
  <2>4. Respond(res)
    BY <2>1
  <2> HIDE DEF res
  <2> QED
    BY <1>1, <2>3, <2>4, RespondKeeps
<1>4. CASE ServePlatformRoute
  <2>1. PICK fault \in BOOLEAN : Respond(AdminHandler(call.route, call.context, fault))
    BY <1>4 DEF ServePlatformRoute
  <2> DEFINE n == IF call.route.op = "ops" THEN 404
                  ELSE IF \/ ~is_admin(call.context)
                          \/ call.route.op = "registerAgent" /\ ~is_platform_actor(call.context) THEN 403
                  ELSE IF call.route.op = "failover" THEN IF fault THEN 400 ELSE 409
                  ELSE IF fault THEN 500 ELSE 200
  <2>2. n \in Codes
    BY DEF Codes
  <2>3. Respond(Refuse(n))
    BY <2>1 DEF AdminHandler
  <2> HIDE DEF n
  <2> QED
    BY <1>2, <2>2, <2>3
<1>5. CASE ServeTokenRefresh
  <2>1. PICK scopes \in {"approved", "foreign", "default", "none"}, token \in BOOLEAN,
             status \in {0, 200, 400, 401, 403, 429, 500} :
             Respond(handle_token_refresh(scopes, status, token))
    BY <1>5 DEF ServeTokenRefresh
  <2> DEFINE n == IF scopes # "approved" THEN 400
                  ELSE IF status \in {400, 401, 403, 429} THEN status
                  ELSE IF status = 200 /\ token THEN 200 ELSE 503
  <2>2. n \in Codes
    BY DEF Codes
  <2>3. Respond(Refuse(n))
    BY <2>1 DEF handle_token_refresh
  <2> HIDE DEF n
  <2> QED
    BY <1>2, <2>2, <2>3
<1>6. CASE ServeKeepalive
  <2>1. PICK named \in BOOLEAN, configured \in BOOLEAN, ping \in {0, 200, 404, 500} :
           Respond(handle_session_keepalive(named, configured, ping))
    BY <1>6 DEF ServeKeepalive
  <2> DEFINE n == IF ~named THEN 400
                  ELSE IF ~configured THEN 503
                  ELSE IF ping = 404 THEN 404
                  ELSE IF ping = 200 THEN 202 ELSE 500
  <2>2. n \in Codes
    BY DEF Codes
  <2>3. Respond(Refuse(n))
    BY <2>1 DEF handle_session_keepalive
  <2> HIDE DEF n
  <2> QED
    BY <1>2, <2>2, <2>3
<1> QED
  BY <1>3, <1>4, <1>5, <1>6

\* A tick: lifetimes count down no slower than ages count up.
LEMMA OlderIs ==
    ASSUME NEW cap \in Nat, NEW n \in 0..cap
    PROVE  Older(n, cap) \in 0..cap /\ Older(n, cap) <= n + 1
BY DEF Older

LEMMA TickedTenants ==
    ASSUME ApiInv, ApiTick
    PROVE  /\ tenants' \in [AllTenants -> TenantRec]
           /\ TenantsFresh'
           /\ \A t \in AllTenants :
                 /\ tenants[t].idle \in Nat /\ tenants[t].loose \in Nat
                 /\ tenants'[t].idle \in Nat /\ tenants'[t].loose \in Nat
                 /\ tenants'[t].idle <= tenants[t].idle + 1
                 /\ tenants'[t].loose <= tenants[t].loose + 1
<1> DEFINE I(t) == IF tenants[t].active THEN 0 ELSE Older(tenants[t].idle, CacheTtl)
           L(t) == IF tenants[t].bound THEN 0 ELSE Older(tenants[t].loose, LooseCap)
<1>1. tenants \in [AllTenants -> TenantRec]
  BY ApiTypes
<1>2. tenants' = [t \in AllTenants |-> [tenants[t] EXCEPT !.idle = I(t), !.loose = L(t)]]
  BY DEF ApiTick
<1>3. ASSUME NEW t \in AllTenants
      PROVE  /\ tenants[t].idle \in 0..CacheTtl /\ tenants[t].loose \in 0..LooseCap
             /\ I(t) \in 0..CacheTtl /\ I(t) <= tenants[t].idle + 1
             /\ L(t) \in 0..LooseCap /\ L(t) <= tenants[t].loose + 1
             /\ tenants[t].active => I(t) = 0
             /\ tenants[t].bound => L(t) = 0
  <2>1. tenants[t].idle \in 0..CacheTtl /\ tenants[t].loose \in 0..LooseCap
    BY <1>1 DEF TenantRec
  <2>2. /\ Older(tenants[t].idle, CacheTtl) \in 0..CacheTtl
        /\ Older(tenants[t].idle, CacheTtl) <= tenants[t].idle + 1
    BY <2>1, Lifetimes, OlderIs
  <2>3. /\ Older(tenants[t].loose, LooseCap) \in 0..LooseCap
        /\ Older(tenants[t].loose, LooseCap) <= tenants[t].loose + 1
    BY <2>1, Lifetimes, OlderIs
  <2>4. 0 \in 0..CacheTtl /\ 0 \in 0..LooseCap /\ 0 <= tenants[t].idle + 1 /\ 0 <= tenants[t].loose + 1
    BY <2>1, Lifetimes
  <2> QED
    BY <2>1, <2>2, <2>3, <2>4
<1> HIDE DEF I, L
<1>4. ASSUME NEW t \in AllTenants
      PROVE  /\ tenants'[t] \in TenantRec /\ tenants'[t].idle = I(t) /\ tenants'[t].loose = L(t)
             /\ tenants'[t].active = tenants[t].active /\ tenants'[t].bound = tenants[t].bound
  <2>1. tenants[t] \in TenantRec
    BY <1>1
  <2> DEFINE a == I(t)
             b == L(t)
  <2>2. tenants'[t] = [tenants[t] EXCEPT !.idle = a, !.loose = b]
    BY <1>2
  <2>3. a \in 0..CacheTtl /\ b \in 0..LooseCap
    BY <1>3
  <2> HIDE DEF a, b
  <2>4. /\ tenants'[t] \in TenantRec /\ tenants'[t].idle = a /\ tenants'[t].loose = b
        /\ tenants'[t].active = tenants[t].active /\ tenants'[t].bound = tenants[t].bound
    BY <2>1, <2>2, <2>3 DEF TenantRec
  <2> QED
    BY <2>4 DEF a, b
<1>5. tenants' \in [AllTenants -> TenantRec]
  BY <1>2, <1>4
<1>6. TenantsFresh'
  BY <1>3, <1>4 DEF TenantsFresh
<1>7. ASSUME NEW t \in AllTenants
      PROVE  /\ tenants[t].idle \in Nat /\ tenants[t].loose \in Nat
             /\ tenants'[t].idle \in Nat /\ tenants'[t].loose \in Nat
             /\ tenants'[t].idle <= tenants[t].idle + 1
             /\ tenants'[t].loose <= tenants[t].loose + 1
  BY <1>3, <1>4, Lifetimes
<1> QED
  BY <1>5, <1>6, <1>7

LEMMA ApiTickKeeps ==
    ASSUME ApiInv, ApiTick
    PROVE  ApiInv'
<1>1. /\ cred' = (IF cred > -CacheTtl THEN cred - 1 ELSE cred)
      /\ policy' = AgedPolicy(policy) /\ binding' = AgedBinding(binding)
      /\ UNCHANGED <<actor, call, changes>>
  BY DEF ApiTick
<1>2. /\ cred \in Creds /\ policy \in PolicyRec \cup {NoPolicy}
      /\ binding \in BindingRec \cup {NoBinding}
  BY ApiTypes
<1>3. cred' \in Creds /\ cred \in Int /\ cred' \in Int /\ cred' >= cred - 1
  BY <1>1, <1>2, Lifetimes DEF Creds
<1>4. \/ policy' = NoPolicy
      \/ /\ policy \in PolicyRec /\ policy' \in PolicyRec
         /\ policy.ttl \in Int /\ policy'.ttl = policy.ttl - 1
         /\ policy'.effect = policy.effect /\ policy'.route = policy.route
         /\ policy'.context = policy.context
  <2>1. CASE policy = NoPolicy \/ policy.ttl <= 1
    BY <1>1, <2>1, NoneKept DEF AgedPolicy
  <2>2. CASE policy \in PolicyRec /\ ~(policy.ttl <= 1)
    <3>1. policy.ttl \in Int /\ policy.ttl - 1 \in 1..CacheTtl
      BY <2>2, Lifetimes DEF PolicyRec
    <3>2. ASSUME NEW x \in PolicyRec, x.ttl - 1 \in 1..CacheTtl
          PROVE  LET y == [x EXCEPT !.ttl = @ - 1]
                 IN  /\ y \in PolicyRec /\ y.ttl = x.ttl - 1 /\ y.effect = x.effect
                     /\ y.route = x.route /\ y.context = x.context
      BY <3>2 DEF PolicyRec
    <3>3. policy' = [policy EXCEPT !.ttl = @ - 1]
      BY <1>1, <2>2 DEF AgedPolicy
    <3> QED
      BY <2>2, <3>1, <3>2, <3>3
  <2> QED
    BY <1>2, <2>1, <2>2
<1>5. \/ binding' = NoBinding
      \/ /\ binding \in BindingRec /\ binding' \in BindingRec
         /\ binding.ttl \in Int /\ binding'.ttl = binding.ttl - 1
         /\ binding'.tenant = binding.tenant
  <2>1. CASE binding = NoBinding \/ binding.ttl <= 1
    BY <1>1, <2>1, NoneKept DEF AgedBinding
  <2>2. CASE binding \in BindingRec /\ ~(binding.ttl <= 1)
    <3>1. binding.ttl \in Int /\ binding.ttl - 1 \in 1..BindingTtl
      BY <2>2, Lifetimes DEF BindingRec
    <3>2. ASSUME NEW x \in BindingRec, x.ttl - 1 \in 1..BindingTtl
          PROVE  LET y == [x EXCEPT !.ttl = @ - 1]
                 IN  y \in BindingRec /\ y.ttl = x.ttl - 1 /\ y.tenant = x.tenant
      BY <3>2 DEF BindingRec
    <3>3. binding' = [binding EXCEPT !.ttl = @ - 1]
      BY <1>1, <2>2 DEF AgedBinding
    <3> QED
      BY <2>2, <3>1, <3>2, <3>3
  <2> QED
    BY <1>2, <2>1, <2>2
<1>6. ApiTypeOK'
  BY <1>1, <1>3, <1>4, <1>5, TickedTenants, ApiTypes, ApiTypesNext
<1>7. BindingFresh'
  <2> SUFFICES ASSUME binding' # NoBinding
               PROVE  tenants'[binding'.tenant].loose <= BindingTtl - binding'.ttl
    BY DEF BindingFresh
  <2> DEFINE t == binding.tenant
  <2>1. /\ binding \in BindingRec /\ binding.ttl \in Int /\ binding'.ttl = binding.ttl - 1
        /\ binding'.tenant = t /\ t \in AllTenants /\ binding # NoBinding
    <3>1. binding \in BindingRec => t \in Tenants
      BY DEF BindingRec
    <3> QED
      BY <1>5, <3>1, NoneKept, AccessAssumption DEF AllTenants
  <2>2. tenants[t].loose <= BindingTtl - binding.ttl
    BY <2>1 DEF ApiInv, BindingFresh
  <2>3. tenants[t].loose \in Nat /\ tenants'[t].loose \in Nat /\ tenants'[t].loose <= tenants[t].loose + 1
    BY <2>1, TickedTenants
  <2> HIDE DEF t
  <2> QED
    BY <2>1, <2>2, <2>3, Lifetimes
<1>8. PolicyFresh'
  <2> DEFINE t == policy.context.tenant
  <2>0. CASE policy' = NoPolicy
    BY <2>0, NoneKept DEF PolicyFresh
  <2>1. CASE policy' # NoPolicy
    <3>1. /\ policy.ttl \in Int /\ policy'.ttl = policy.ttl - 1
          /\ policy'.effect = policy.effect /\ policy'.route = policy.route
          /\ policy'.context = policy.context
      BY <1>4, <2>1
    <3> SUFFICES ASSUME policy.effect = "Allow"
                 PROVE  /\ Granted(policy.route, policy.context)
                        /\ tenants'[t].idle <= CacheTtl - (policy.ttl - 1)
                        /\ actor.kind = "user" => cred' > policy.ttl - 1 - CacheTtl
                        /\ actor.kind = "machine" =>
                              tenants'[t].loose <= BindingTtl - 1 + CacheTtl - (policy.ttl - 1)
      BY <1>1, <3>1 DEF PolicyFresh, Granted
    <3>2. /\ Granted(policy.route, policy.context)
          /\ tenants[t].idle <= CacheTtl - policy.ttl
          /\ actor.kind = "user" => cred > policy.ttl - CacheTtl
          /\ actor.kind = "machine" => tenants[t].loose <= BindingTtl - 1 + CacheTtl - policy.ttl
      BY DEF ApiInv, PolicyFresh
    <3>3. t \in AllTenants
      BY <3>2, GrantedTenant
    <3>4. /\ tenants[t].idle \in Nat /\ tenants[t].loose \in Nat
          /\ tenants'[t].idle \in Nat /\ tenants'[t].loose \in Nat
          /\ tenants'[t].idle <= tenants[t].idle + 1
          /\ tenants'[t].loose <= tenants[t].loose + 1
      BY <3>3, TickedTenants
    <3> HIDE DEF t
    <3>5. tenants'[t].idle <= CacheTtl - (policy.ttl - 1)
      BY <3>1, <3>2, <3>4, Lifetimes
    <3>6. actor.kind = "user" => cred' > policy.ttl - 1 - CacheTtl
      BY <1>3, <3>1, <3>2, Lifetimes
    <3>7. actor.kind = "machine" => tenants'[t].loose <= BindingTtl - 1 + CacheTtl - (policy.ttl - 1)
      BY <3>1, <3>2, <3>4, Lifetimes
    <3> QED
      BY <3>2, <3>5, <3>6, <3>7
  <2> QED
    BY <2>0, <2>1
<1>9. CallOk'
  <2>1. policy'.effect = "Allow" => policy.effect = "Allow" /\ policy'.context = policy.context
    BY <1>4, NoneKept
  <2> QED
    BY <1>1, <2>1 DEF ApiInv, CallOk, Granted
<1> QED
  BY <1>1, <1>6, <1>7, <1>8, <1>9, TickedTenants, ApiUntouched DEF ApiInv

LEMMA ApiStep ==
    ASSUME ApiInv, ApiNext
    PROVE  ApiInv'
<1>1. CASE Answered
  BY <1>1, DoneKeeps DEF Answered
<1> QED
  BY <1>1, AdminStep, UserCallKeeps, MachineCallKeeps, AuthoriseKeeps, NetworkErrorKeeps, LogoutKeeps,
     CachedAnswerKeeps, ServeKeeps, ApiTickKeeps DEF ApiNext

LEMMA ApiStutter ==
    ASSUME ApiInv, UNCHANGED apiVars
    PROVE  ApiInv'
<1>1. ApiTypeOK'
  BY ApiTypes, ApiTypesNext DEF apiVars
<1> QED
  BY <1>1, ApiUntouched DEF apiVars, ApiInv

LEMMA ApiStart ==
    ASSUME ApiInit
    PROVE  ApiInv
<1>1. PICK roles \in IF actor.kind = "machine" THEN SUBSET Tenants ELSE {{}} :
         tenants = [t \in AllTenants |->
                     [active |-> TRUE, idle |-> 0, bound |-> t \in roles,
                      loose |-> IF t \in roles THEN 0 ELSE LooseCap]]
  BY DEF ApiInit
<1>2. /\ actor \in Actors /\ cred = 0 /\ policy = NoPolicy /\ binding = NoBinding /\ call = Idle
      /\ changes = 0
  BY DEF ApiInit
<1>3. ASSUME NEW t \in AllTenants
      PROVE  /\ tenants[t] \in TenantRec
             /\ tenants[t].idle = 0
             /\ tenants[t].bound => tenants[t].loose = 0
  <2> DEFINE b == t \in roles
             n == IF b THEN 0 ELSE LooseCap
  <2>1. tenants[t] = [active |-> TRUE, idle |-> 0, bound |-> b, loose |-> n]
    BY <1>1
  <2>2. n \in 0..LooseCap /\ 0 \in 0..CacheTtl /\ b \in BOOLEAN /\ (b => n = 0)
    BY Lifetimes
  <2> HIDE DEF b, n
  <2> QED
    BY <2>1, <2>2 DEF TenantRec
<1>4. tenants \in [AllTenants -> TenantRec]
  BY <1>1, <1>3
<1>5. ApiTypeOK
  <2>1. 0 \in Creds /\ 0 \in 0..MaxChanges
    BY Lifetimes DEF Creds
  <2> QED
    BY <1>2, <1>4, <2>1, NoneKept
       DEF ApiTypeOK, TenantRec, PolicyRec, BindingRec, CallRec, Creds
<1>6. TenantsFresh /\ BindingFresh /\ PolicyFresh
  BY <1>2, <1>3, NoneKept DEF TenantsFresh, BindingFresh, PolicyFresh
<1>7. CallOk /\ PartitionGuarded
  BY <1>2, NoneKept DEF CallOk, PartitionGuarded
<1> QED
  BY <1>5, <1>6, <1>7 DEF ApiInv

\* The guards of the call in flight.
LEMMA RoutesAreGuarded ==
    ASSUME ApiInv
    PROVE  RouteGuarded
<1> SUFFICES ASSUME call.context # NoContext
             PROVE  /\ is_admin_route(call.route)
                          => actor.roles \cap {"Platform.Admin", "Platform.Operator"} # {}
                    /\ call.route.op = "registerAgent" => actor.tenant = Platform
                    /\ (call.context.tenant = Platform)
                          <=> (is_platform_route(call.route) \/ actor.tenant = Platform)
  BY DEF RouteGuarded
<1>1. Granted(call.route, call.context)
  BY DEF ApiInv, CallOk
<1>2. CASE actor.kind = "user"
  BY <1>1, <1>2 DEF Granted, PlatformRoles
<1>3. CASE actor.kind = "machine"
  <2>1. call.context.tenant # Platform /\ ~is_admin_route(call.route) /\ actor.tenant # Platform
    BY <1>1, <1>3, Kinds, AccessAssumption DEF Granted, AllTenants
  <2>2. ~is_platform_route(call.route) /\ call.route.op # "registerAgent"
    BY <2>1 DEF is_admin_route, is_platform_route, PlatformOps
  <2> QED
    BY <2>1, <2>2
<1> QED
  BY <1>2, <1>3, Kinds

\* A call is admitted by an answer that is still fresh.
LEMMA AdmittedFresh ==
    ASSUME ApiInv, [ApiNext]_apiVars, call.pc = "sent", call'.pc = "admitted"
    PROVE  LET t == call'.context.tenant
           IN /\ tenants[t].idle < CacheTtl
              /\ actor.kind = "user" => cred > 1 - CacheTtl
              /\ actor.kind = "machine" => tenants[t].loose < CacheTtl + BindingTtl - 1
<1> DEFINE t == call'.context.tenant
<1>1. ASSUME PolicyFresh', UNCHANGED <<actor, tenants, cred>>, Apply(policy'),
             policy' \in PolicyRec \cup {NoPolicy}
      PROVE  /\ tenants[t].idle < CacheTtl
             /\ actor.kind = "user" => cred > 1 - CacheTtl
             /\ actor.kind = "machine" => tenants[t].loose < CacheTtl + BindingTtl - 1
  <2>1. call \in CallRec
    BY ApiTypes
  <2>2. Admits(policy', call.route)
    <3> SUFFICES ASSUME ~Admits(policy', call.route) PROVE FALSE
      OBVIOUS
    <3>1. call' = [call EXCEPT !.pc = "answered", !.code = 403]
      BY <1>1 DEF Apply
    <3>2. call'.pc = "answered"
      BY <2>1, <3>1 DEF CallRec
    <3> QED
      BY <3>2
  <2>3. call' = [call EXCEPT !.pc = "admitted", !.context = policy'.context]
    BY <1>1, <2>2 DEF Apply
  <2>4. call'.context = policy'.context
    BY <2>1, <2>3 DEF CallRec
  <2>5. policy'.effect = "Allow"
    BY <2>2 DEF Admits
  <2>6. /\ Granted(policy'.route, policy'.context)
        /\ tenants[t].idle <= CacheTtl - policy'.ttl
        /\ actor.kind = "user" => cred > policy'.ttl - CacheTtl
        /\ actor.kind = "machine" => tenants[t].loose <= BindingTtl - 1 + CacheTtl - policy'.ttl
    BY <1>1, <2>4, <2>5 DEF PolicyFresh, Granted
  <2>7. t \in AllTenants
    BY <2>4, <2>6, GrantedTenant
  <2>8. policy'.ttl \in Int /\ policy'.ttl >= 1
    <3>1. policy' \in PolicyRec
      BY <1>1, <2>5, NoneKept
    <3> QED
      BY <3>1, Lifetimes DEF PolicyRec
  <2>9. tenants[t].idle \in Int /\ tenants[t].loose \in Int /\ cred \in Int
    <3>1. tenants[t] \in TenantRec /\ cred \in Creds
      BY <2>7, ApiTypes
    <3> QED
      BY <3>1, Lifetimes DEF TenantRec, Creds
  <2> HIDE DEF t
  <2> QED
    BY <2>6, <2>8, <2>9, Lifetimes
<1>2. ASSUME NEW up \in BOOLEAN, Authorise(up)
      PROVE  /\ PolicyFresh' /\ UNCHANGED <<actor, tenants, cred>> /\ Apply(policy')
             /\ policy' \in PolicyRec \cup {NoPolicy}
  <2>1. PolicyFresh' /\ ApiInv'
    BY <1>2, AuthoriseKeeps
  <2>2. policy' \in PolicyRec \cup {NoPolicy}
    BY <2>1 DEF ApiInv, ApiTypeOK, PolicyRec
  <2> QED
    BY <1>2, <2>1, <2>2 DEF Authorise
<1>3. ASSUME CachedAnswer
      PROVE  /\ PolicyFresh' /\ UNCHANGED <<actor, tenants, cred>> /\ Apply(policy')
             /\ policy' \in PolicyRec \cup {NoPolicy}
  BY <1>3, CachedAnswerKeeps, ApiTypes DEF CachedAnswer, Apply
<1>4. CachedAnswer \/ \E up \in BOOLEAN : Authorise(up)
  <2>1. ASSUME NEW c \in CallRec, NEW fresh, NEW life, Send(c, fresh, life) PROVE FALSE
    <3>1. call' = [c EXCEPT !.pc = "sent", !.context = NoContext, !.code = 0, !.touched = {}]
      BY <2>1 DEF Send
    <3>2. call'.pc = "sent"
      BY <3>1 DEF CallRec
    <3> QED
      BY <3>2
  <2>2. ~\E s \in AllTenants : SetStatus(s) \/ SetRole(s)
    BY DEF SetStatus, SetRole, AdminChange
  <2>3. call # Idle /\ call' # Idle
    BY NoneKept
  <2>4. ~Answered /\ ~Logout /\ ~ApiTick /\ ~UNCHANGED apiVars
    BY <2>3 DEF Answered, Logout, ApiTick, apiVars
  <2>5. /\ ~\E r \in Routes : UserCall(r)
        /\ ~\E r \in Routes, s \in Tenants : MachineCall(r, s)
    BY <2>3 DEF UserCall, MachineCall
  <2>6. ~NetworkError
    <3> SUFFICES ASSUME NetworkError PROVE FALSE
      OBVIOUS
    <3> DEFINE c == [call EXCEPT !.attempt = @ + 1]
    <3>1. call \in CallRec
      BY ApiTypes
    <3>2. call.attempt < MaxRetries
      BY <2>3 DEF NetworkError
    <3>3. c \in CallRec
      <4>1. call.attempt + 1 \in 0..MaxRetries
        BY <3>1, <3>2, Lifetimes DEF CallRec
      <4> QED
        BY <3>1, <4>1 DEF CallRec
    <3>4. Send(c, cred <= 0, TokenLife) \/ Send(c, FALSE, 0)
      BY <2>3 DEF NetworkError, SendWithToken
    <3> HIDE DEF c
    <3> QED
      BY <2>1, <3>3, <3>4
  <2>7. ~ServeTenantRoute /\ ~ServePlatformRoute /\ ~ServeTokenRefresh /\ ~ServeKeepalive
    BY DEF ServeTenantRoute, ServePlatformRoute, ServeTokenRefresh, ServeKeepalive, Serve
  <2> QED
    BY <2>2, <2>4, <2>5, <2>6, <2>7 DEF ApiNext
<1> QED
  BY <1>1, <1>2, <1>3, <1>4

-----------------------------------------------------------------------------
(* The tools plane. *)

ConfigRec == [enabled : BOOLEAN, off : 0..PolicyAge, up : BOOLEAN, out : 0..AnswerAge]
KnownRec == [enabled : BOOLEAN, ttl : 0..PolicyTtl]
KeyRec == [version : 0..MaxEdits, age : 0..KeyAge, up : BOOLEAN]
GateKeyRec == [version : -1..MaxEdits, ttl : -1..KeyTtl, shared : BOOLEAN]
ToolKeyRec == [version : -1..MaxEdits, ttl : 0..KeyTtl]
StoreRec == [state : {"none", "INPROGRESS", "COMPLETED"}, code : 0..500, token : Token,
             ttl : 0..TokenTtl]
Bodies == DiagnosticsOutcome \cup {"none", "denied", "listed", "hidden", "byPayload", "redacted",
                                   "unchanged"}
MsgRec == [pc : {"idle", "received", "processing", "crashed", "forwarded", "responding", "answered"},
           method : {"none", "tools/call", "tools/list"}, keyed : BOOLEAN, code : 0..500,
           token : Token, body : Bodies]

LEMMA ToolLifetimes ==
    /\ TokenTtl \in Nat /\ TokenTtl > 0 /\ KeyTtl \in Nat /\ KeyTtl > 0
    /\ PolicyTtl \in Nat /\ PolicyTtl > 0 /\ MaxEdits \in Nat
    /\ AnswerAge = TokenTtl + 1 /\ PolicyAge = TokenTtl + PolicyTtl
    /\ KeyAge = 2 * KeyTtl + TokenTtl - 1
    /\ AnswerAge \in Nat /\ PolicyAge \in Nat /\ KeyAge \in Nat
BY GatewayAssumption DEF AnswerAge, PolicyAge, KeyAge

LEMMA ToolTypes ==
    ASSUME ToolInv
    PROVE  /\ client \in Clients /\ registry \in [Scopes -> Record] /\ lapsed \in 0..AnswerAge
           /\ config \in ConfigRec /\ known \in KnownRec /\ key \in KeyRec /\ gateKey \in GateKeyRec
           /\ toolKey \in ToolKeyRec /\ store \in StoreRec /\ msg \in MsgRec
           /\ edits \in 0..MaxEdits
BY DEF ToolInv, ToolTypeOK, ConfigRec, KnownRec, KeyRec, GateKeyRec, ToolKeyRec, StoreRec, MsgRec, Bodies

LEMMA ToolTypesNext ==
    ASSUME ToolInv, UNCHANGED client, registry' \in [Scopes -> Record], lapsed' \in 0..AnswerAge,
           config' \in ConfigRec, known' \in KnownRec, key' \in KeyRec, gateKey' \in GateKeyRec,
           toolKey' \in ToolKeyRec, store' \in StoreRec, msg' \in MsgRec, edits' \in 0..MaxEdits
    PROVE  ToolTypeOK'
<1>1. client' \in Clients /\ Scopes' = Scopes
  BY DEF ToolInv, ToolTypeOK, Scopes, Effective
<1> QED
  BY <1>1 DEF ToolTypeOK, ConfigRec, KnownRec, KeyRec, GateKeyRec, ToolKeyRec, StoreRec, MsgRec, Bodies

\* The numbers of the records.
LEMMA ToolNumbers ==
    ASSUME ToolInv
    PROVE  /\ config.off \in Nat /\ config.out \in Nat /\ lapsed \in Nat
           /\ known.ttl \in Nat /\ known.ttl <= PolicyTtl
           /\ key.version \in Nat /\ key.age \in Nat /\ key.age <= KeyAge
           /\ gateKey.version \in Int /\ gateKey.ttl \in Int /\ gateKey.ttl <= KeyTtl
           /\ toolKey.version \in Int /\ toolKey.ttl \in Nat /\ toolKey.ttl <= KeyTtl
           /\ store.ttl \in Nat /\ store.ttl <= TokenTtl /\ edits \in Nat
           /\ store.token \in Token /\ msg.token \in Token
<1>1. config.off \in Nat /\ config.out \in Nat /\ lapsed \in Nat /\ edits \in Nat
  BY ToolTypes, ToolLifetimes DEF ConfigRec
<1>2. known.ttl \in Nat /\ known.ttl <= PolicyTtl
  BY ToolTypes, ToolLifetimes DEF KnownRec
<1>3. key.version \in Nat /\ key.age \in Nat /\ key.age <= KeyAge
  BY ToolTypes, ToolLifetimes DEF KeyRec
<1>4. gateKey.version \in Int /\ gateKey.ttl \in Int /\ gateKey.ttl <= KeyTtl
  BY ToolTypes, ToolLifetimes DEF GateKeyRec
<1>5. toolKey.version \in Int /\ toolKey.ttl \in Nat /\ toolKey.ttl <= KeyTtl
  BY ToolTypes, ToolLifetimes DEF ToolKeyRec
<1>6. store.ttl \in Nat /\ store.ttl <= TokenTtl /\ store.token \in Token
  BY ToolTypes, ToolLifetimes DEF StoreRec
<1>7. msg.token \in Token
  BY ToolTypes DEF MsgRec
<1> QED
  BY <1>1, <1>2, <1>3, <1>4, <1>5, <1>6, <1>7

LEMMA TokenNumbers ==
    ASSUME NEW tok \in Token
    PROVE  tok.key \in Int /\ tok.life \in Nat /\ tok.life <= TokenTtl
BY ToolLifetimes DEF Token

LEMMA ToolUntouched ==
    ASSUME ToolInv, UNCHANGED client
    PROVE  /\ UNCHANGED <<registry, lapsed, config, key, edits>> => AgesFresh'
           /\ UNCHANGED <<known, config>> => KnownFresh'
           /\ UNCHANGED <<store, lapsed, config>> /\ msg'.method \in {msg.method, "none"} => StoreFresh'
           /\ UNCHANGED <<key, gateKey, toolKey>> => KeysFresh'
           /\ UNCHANGED <<key, store, msg>> => TokensFresh'
           /\ UNCHANGED msg => BodyOk'
BY DEF ToolInv, AgesFresh, KnownFresh, StoreFresh, KeysFresh, TokensFresh, TokenFresh, BodyOk, Entitled,
       Available, TierAllowed, ToolRecord, Effective

\* Editors.
LEMMA EditNumbers ==
    ASSUME ToolInv, Edit
    PROVE  edits' \in 0..MaxEdits /\ edits' = edits + 1 /\ edits < MaxEdits
BY ToolTypes, ToolLifetimes DEF Edit

LEMMA EditRegistryKeeps ==
    ASSUME ToolInv, NEW s \in DOMAIN registry, NEW rec \in Record, EditRegistry(s, rec)
    PROVE  ToolInv'
<1>1. /\ UNCHANGED <<client, config, known, key, gateKey, toolKey, store, msg>>
      /\ registry' = [registry EXCEPT ![s] = rec]
      /\ lapsed' = (IF Entitled(registry) \/ Entitled(registry') THEN 0 ELSE lapsed)
      /\ edits' \in 0..MaxEdits /\ edits' = edits + 1
  BY EditNumbers DEF EditRegistry
<1>2. lapsed' \in 0..AnswerAge /\ lapsed' \in Nat /\ lapsed' <= lapsed
  BY <1>1, ToolTypes, ToolLifetimes
<1>3. ToolTypeOK'
  <2>1. registry' \in [Scopes -> Record]
    BY <1>1, ToolTypes
  <2> QED
    BY <1>1, <1>2, <2>1, ToolTypes, ToolTypesNext
<1>4. AgesFresh'
  <2>1. (Entitled(registry))' => Entitled(registry')
    BY <1>1 DEF Entitled, Available, TierAllowed, ToolRecord, Effective
  <2>2. key.version <= edits'
    BY <1>1, ToolNumbers DEF ToolInv, AgesFresh
  <2> QED
    BY <1>1, <2>1, <2>2 DEF ToolInv, AgesFresh
<1>5. StoreFresh'
  BY <1>1, <1>2, ToolNumbers, ToolLifetimes DEF ToolInv, StoreFresh
<1> QED
  BY <1>1, <1>3, <1>4, <1>5, ToolUntouched DEF ToolInv

\* The policy and the key: what an editor or an outage touches is new.
LEMMA ConfigKeeps ==
    ASSUME ToolInv, NEW c \in ConfigRec, EditConfig(c), edits' \in 0..MaxEdits, edits' >= edits,
           c.enabled => c.off = 0, ~c.up => c.out = 0, c.off <= config.off, c.out <= config.out
    PROVE  ToolInv'
<1>1. config' = c /\ UNCHANGED <<client, registry, lapsed, known, key, gateKey, toolKey, store, msg>>
  BY DEF EditConfig
<1>2. ToolTypeOK'
  BY <1>1, ToolTypes, ToolTypesNext
<1>3. c.off \in Nat /\ c.out \in Nat
  BY ToolLifetimes DEF ConfigRec
<1>4. AgesFresh'
  <2>1. key.version <= edits'
    BY ToolNumbers DEF ToolInv, AgesFresh
  <2>2. (Entitled(registry))' => Entitled(registry)
    BY <1>1 DEF Entitled, Available, TierAllowed, ToolRecord, Effective
  <2> QED
    BY <1>1, <2>1, <2>2 DEF ToolInv, AgesFresh
<1>5. KnownFresh'
  BY <1>1, <1>3, ToolNumbers, ToolLifetimes DEF ToolInv, KnownFresh
<1>6. StoreFresh'
  BY <1>1, <1>3, ToolNumbers, ToolLifetimes DEF ToolInv, StoreFresh
<1> QED
  BY <1>1, <1>2, <1>4, <1>5, <1>6, ToolUntouched DEF ToolInv

LEMMA ConfigStep ==
    ASSUME ToolInv, EditPolicy \/ AppConfigOutage
    PROVE  ToolInv'
<1>1. /\ config \in ConfigRec /\ config.off \in Nat /\ config.out \in Nat
      /\ 0 \in 0..PolicyAge /\ 0 \in 0..AnswerAge
  BY ToolTypes, ToolNumbers, ToolLifetimes
<1>2. (config.enabled => config.off = 0) /\ (~config.up => config.out = 0)
  BY DEF ToolInv, AgesFresh
<1>3. CASE EditPolicy
  <2> DEFINE c == [config EXCEPT !.enabled = ~@, !.off = 0]
  <2>1. c \in ConfigRec /\ c.off = 0 /\ c.out = config.out /\ c.up = config.up
    BY <1>1 DEF ConfigRec
  <2>2. EditConfig(c) /\ edits' \in 0..MaxEdits /\ edits' = edits + 1
    BY <1>3, EditNumbers DEF EditPolicy
  <2> HIDE DEF c
  <2>3. c.off <= config.off /\ c.out <= config.out /\ edits' >= edits
    BY <1>1, <2>1, <2>2, ToolNumbers
  <2> QED
    BY <1>2, <2>1, <2>2, <2>3, ConfigKeeps
<1>4. CASE AppConfigOutage
  <2> DEFINE c == [config EXCEPT !.up = ~@, !.out = 0]
  <2>1. c \in ConfigRec /\ c.out = 0 /\ c.off = config.off /\ c.enabled = config.enabled
    BY <1>1 DEF ConfigRec
  <2>2. EditConfig(c)
    BY <1>4 DEF AppConfigOutage
  <2>3. edits' \in 0..MaxEdits /\ edits' >= edits
    <3>1. CASE config.up
      BY <1>4, <3>1, EditNumbers, ToolNumbers DEF AppConfigOutage, Toggle
    <3>2. CASE ~config.up
      BY <1>4, <3>2, ToolNumbers, ToolTypes DEF AppConfigOutage, Toggle
    <3> QED
      BY <3>1, <3>2
  <2> HIDE DEF c
  <2>4. c.off <= config.off /\ c.out <= config.out
    BY <1>1, <2>1
  <2> QED
    BY <1>2, <2>1, <2>2, <2>3, <2>4, ConfigKeeps
<1> QED
  BY <1>3, <1>4

LEMMA KeyStep ==
    ASSUME ToolInv, RotateKey \/ SecretsOutage
    PROVE  ToolInv'
<1>1. UNCHANGED <<client, registry, lapsed, config, known, gateKey, toolKey, store, msg>>
  BY DEF RotateKey, SecretsOutage, EditKey
<1>2. key \in KeyRec /\ key.version \in Nat /\ key.age \in Nat /\ key.version <= edits
  BY ToolTypes, ToolNumbers DEF ToolInv, AgesFresh
<1>3. (Entitled(registry))' => Entitled(registry)
  BY <1>1 DEF Entitled, Available, TierAllowed, ToolRecord, Effective
<1>4. CASE RotateKey
  <2> DEFINE v == key.version + 1
             k == [key EXCEPT !.version = v, !.age = 0]
  <2>1. key' = k /\ edits' \in 0..MaxEdits /\ edits' = edits + 1 /\ edits < MaxEdits
    BY <1>4, EditNumbers DEF RotateKey, EditKey
  <2>2. v \in 0..MaxEdits /\ v <= edits' /\ 0 \in 0..KeyAge
    BY <1>2, <2>1, ToolNumbers, ToolLifetimes
  <2> HIDE DEF v
  <2>3. k \in KeyRec /\ k.age = 0 /\ k.version = v
    BY <1>2, <2>2 DEF KeyRec
  <2> HIDE DEF k
  <2>4. ToolTypeOK'
    BY <1>1, <2>1, <2>3, ToolTypes, ToolTypesNext
  <2>5. AgesFresh'
    BY <1>1, <1>3, <2>1, <2>2, <2>3 DEF ToolInv, AgesFresh
  <2>6. KeysFresh'
    <3>1. 0 <= KeyTtl - toolKey.ttl /\ 0 <= KeyTtl - gateKey.ttl /\ 0 <= 2 * KeyTtl - gateKey.ttl
      BY ToolNumbers, ToolLifetimes
    <3> QED
      BY <1>1, <2>1, <2>3, <3>1 DEF KeysFresh
  <2>7. TokensFresh'
    <3>1. ASSUME NEW tok \in Token
          PROVE  0 < 2 * KeyTtl + TokenTtl - tok.life
      BY TokenNumbers, ToolLifetimes
    <3>2. 0 < 2 * KeyTtl + TokenTtl - msg.token.life /\ 0 < 2 * KeyTtl + TokenTtl - store.token.life
      BY <3>1, ToolNumbers
    <3> QED
      BY <1>1, <2>1, <2>3, <3>2 DEF TokensFresh, TokenFresh
  <2> QED
    BY <1>1, <2>4, <2>5, <2>6, <2>7, ToolUntouched DEF ToolInv
<1>5. CASE SecretsOutage
  <2> DEFINE k == [key EXCEPT !.up = ~@]
  <2>1. key' = k
    BY <1>5 DEF SecretsOutage, EditKey
  <2>2. edits' \in 0..MaxEdits /\ edits' >= edits
    <3>1. CASE key.up
      BY <1>5, <3>1, EditNumbers, ToolNumbers DEF SecretsOutage, Toggle
    <3>2. CASE ~key.up
      BY <1>5, <3>2, ToolNumbers, ToolTypes DEF SecretsOutage, Toggle
    <3> QED
      BY <3>1, <3>2
  <2>3. k \in KeyRec /\ k.age = key.age /\ k.version = key.version
    BY <1>2 DEF KeyRec
  <2> HIDE DEF k
  <2>4. ToolTypeOK'
    BY <1>1, <2>1, <2>2, <2>3, ToolTypes, ToolTypesNext
  <2>5. AgesFresh'
    <3>1. key.version <= edits'
      BY <1>2, <2>2, ToolNumbers
    <3> QED
      BY <1>1, <1>3, <2>1, <2>3, <3>1 DEF ToolInv, AgesFresh
  <2>6. KeysFresh' /\ TokensFresh'
    BY <1>1, <2>1, <2>3 DEF ToolInv, KeysFresh, TokensFresh, TokenFresh
  <2> QED
    BY <1>1, <2>4, <2>5, <2>6, ToolUntouched DEF ToolInv
<1> QED
  BY <1>4, <1>5

LEMMA Nothing ==
    /\ NoToken \in Token /\ NoToken.life = 0
    /\ NoRecord \in StoreRec /\ NoRecord.state = "none" /\ NoRecord.token = NoToken
    /\ NoMsg \in MsgRec /\ NoMsg.pc = "idle" /\ NoMsg.method = "none" /\ NoMsg.body = "none"
    /\ NoMsg.token = NoToken
<1>1. -1 \in -1..MaxEdits /\ 0 \in 0..TokenTtl /\ 0 \in 0..500
  BY ToolLifetimes
<1>2. NoToken \in Token /\ NoToken.life = 0
  BY <1>1 DEF NoToken, Token
<1>3. NoRecord \in StoreRec /\ NoRecord.state = "none" /\ NoRecord.token = NoToken
  BY <1>1, <1>2 DEF NoRecord, StoreRec
<1>4. /\ NoMsg \in MsgRec /\ NoMsg.pc = "idle" /\ NoMsg.method = "none" /\ NoMsg.body = "none"
      /\ NoMsg.token = NoToken
  BY <1>1, <1>2 DEF NoMsg, MsgRec, Bodies
<1> QED
  BY <1>2, <1>3, <1>4

LEMMA NothingFresh == TokenFresh(NoToken)
BY Nothing DEF TokenFresh

\* What is to be shown of a step of the call: the editors' state stays.
LEMMA CallKeeps ==
    ASSUME ToolInv, UNCHANGED <<client, registry, lapsed, config, key, edits>>,
           known' \in KnownRec, KnownFresh', gateKey' \in GateKeyRec, toolKey' \in ToolKeyRec,
           KeysFresh', store' \in StoreRec, StoreFresh', msg' \in MsgRec, BodyOk',
           TokenFresh(msg'.token), TokenFresh(store'.token)
    PROVE  ToolInv'
<1>1. ToolTypeOK'
  BY ToolTypes, ToolTypesNext
<1>2. TokensFresh'
  BY DEF TokensFresh, TokenFresh
<1> QED
  BY <1>1, <1>2, ToolUntouched DEF ToolInv

\* A message that goes on.
LEMMA MovedFields ==
    ASSUME NEW x \in MsgRec, NEW p \in {"processing", "crashed"}
    PROVE  LET y == [x EXCEPT !.pc = p]
           IN y \in MsgRec /\ y.pc = p /\ y.method = x.method /\ y.token = x.token
              /\ y.body = x.body
BY DEF MsgRec

LEMMA AnsweredFields ==
    ASSUME NEW x \in MsgRec
    PROVE  LET y == [x EXCEPT !.pc = "answered", !.code = 500]
           IN y \in MsgRec /\ y.pc = "answered" /\ y.method = x.method /\ y.token = x.token
<1>1. ASSUME NEW c \in 0..500
      PROVE  LET y == [x EXCEPT !.pc = "answered", !.code = c]
             IN y \in MsgRec /\ y.pc = "answered" /\ y.method = x.method /\ y.token = x.token
  BY DEF MsgRec
<1>2. 500 \in 0..500
  OBVIOUS
<1> HIDE DEF MsgRec
<1> QED
  BY <1>1, <1>2, Zenon

LEMMA RoutedFields ==
    ASSUME NEW x \in MsgRec, NEW code \in 0..500, NEW token \in Token
    PROVE  /\ Routed(x, code, token) \in MsgRec
           /\ Routed(x, code, token).method = x.method
           /\ Routed(x, code, token).token = token
           /\ Routed(x, code, token).body = x.body
<1> DEFINE p == IF code = 200 THEN "forwarded" ELSE "answered"
           y == [x EXCEPT !.pc = p, !.code = code, !.token = token]
<1>1. p \in {"forwarded", "answered"}
  OBVIOUS
<1>2. Routed(x, code, token) = y
  BY DEF Routed
<1> HIDE DEF p
<1>3. y \in MsgRec /\ y.method = x.method /\ y.token = token /\ y.body = x.body
  BY <1>1 DEF MsgRec
<1> HIDE DEF y
<1> QED
  BY <1>2, <1>3

LEMMA RoutedOn ==
    ASSUME NEW x \in MsgRec, NEW code \in 0..500, NEW token \in Token, code # 200
    PROVE  Routed(x, code, token).pc = "answered"
BY DEF Routed, MsgRec

LEMMA PostStep ==
    ASSUME ToolInv,
           \/ \E method \in {"tools/call", "tools/list"}, keyed \in BOOLEAN : Post(method, keyed)
           \/ Redeliver \/ Forget
    PROVE  ToolInv'
<1>1. UNCHANGED <<client, registry, lapsed, config, known, key, gateKey, toolKey, edits>>
  BY DEF Post, Redeliver, Forget
<1>2. msg' \in MsgRec /\ msg'.body = "none" /\ msg'.token = NoToken
      /\ \/ store' = NoRecord
         \/ store' = store /\ msg'.method \in {msg.method, "none"}
  <2>1. CASE \E method \in {"tools/call", "tools/list"}, keyed \in BOOLEAN : Post(method, keyed)
    <3>1. PICK method \in {"tools/call", "tools/list"}, keyed \in BOOLEAN : Post(method, keyed)
      BY <2>1
    <3> DEFINE m == [NoMsg EXCEPT !.pc = "received", !.method = method, !.keyed = keyed]
    <3>2. NoMsg \in MsgRec
      BY Nothing
    <3>3. m \in MsgRec /\ m.token = NoMsg.token /\ m.body = NoMsg.body
      BY <3>2 DEF MsgRec
    <3>4. msg' = m /\ store' = NoRecord
      BY <3>1 DEF Post
    <3> HIDE DEF m
    <3> QED
      BY <3>3, <3>4, Nothing
  <2>2. CASE Redeliver
    <3> DEFINE m == [NoMsg EXCEPT !.pc = "received", !.method = msg.method, !.keyed = TRUE]
    <3>1. msg.method \in {"none", "tools/call", "tools/list"} /\ TRUE \in BOOLEAN
      BY ToolTypes DEF MsgRec
    <3>2. NoMsg \in MsgRec
      BY Nothing
    <3>3. m \in MsgRec /\ m.token = NoMsg.token /\ m.body = NoMsg.body /\ m.method = msg.method
      BY <3>1, <3>2 DEF MsgRec
    <3>4. msg' = m /\ store' = store
      BY <2>2 DEF Redeliver
    <3> HIDE DEF m
    <3> QED
      BY <3>3, <3>4, Nothing
  <2>3. CASE Forget
    BY <2>3, Nothing DEF Forget
  <2> QED
    BY <2>1, <2>2, <2>3
<1>3. store' \in StoreRec /\ TokenFresh(store'.token)
  BY <1>2, Nothing, NothingFresh, ToolTypes DEF ToolInv, TokensFresh
<1>4. StoreFresh'
  BY <1>1, <1>2, Nothing, ToolUntouched DEF StoreFresh
<1>5. KnownFresh' /\ KeysFresh' /\ BodyOk' /\ TokenFresh(msg'.token)
  BY <1>1, <1>2, NothingFresh, ToolUntouched DEF BodyOk
<1> QED
  BY <1>1, <1>2, <1>3, <1>4, <1>5, CallKeeps, ToolTypes

LEMMA BeginStep ==
    ASSUME ToolInv, IdempotencyBegin \/ InterceptorCrash
    PROVE  ToolInv'
<1>1. /\ UNCHANGED <<client, registry, lapsed, config, known, key, gateKey, toolKey, edits>>
      /\ msg.pc \in {"received", "processing"}
  BY DEF IdempotencyBegin, InterceptorCrash, Interceptor
<1>2. msg \in MsgRec /\ store \in StoreRec /\ msg.body = "none"
  BY <1>1, ToolTypes DEF ToolInv, BodyOk
<1>3. TokenFresh(msg.token) /\ TokenFresh(store.token) /\ store.code \in 0..500 /\ store.token \in Token
  BY <1>2 DEF ToolInv, TokensFresh, StoreRec
<1>4. /\ msg' \in MsgRec /\ msg'.method = msg.method /\ BodyOk'
      /\ msg'.token \in {msg.token, store.token}
      /\ store' = store \/ store' = [NoRecord EXCEPT !.state = "INPROGRESS", !.ttl = TokenTtl]
  <2>1. ASSUME NEW p \in {"processing", "crashed"}, msg' = [msg EXCEPT !.pc = p]
        PROVE  msg' \in MsgRec /\ msg'.method = msg.method /\ BodyOk' /\ msg'.token = msg.token
    BY <1>2, <2>1, MovedFields DEF BodyOk
  <2>2. ASSUME msg' = [msg EXCEPT !.pc = "answered", !.code = 500]
        PROVE  msg' \in MsgRec /\ msg'.method = msg.method /\ BodyOk' /\ msg'.token = msg.token
    <3>1. msg' \in MsgRec /\ msg'.pc = "answered" /\ msg'.method = msg.method /\ msg'.token = msg.token
      BY <1>2, <2>2, AnsweredFields
    <3> QED
      BY <3>1 DEF BodyOk
  <2>3. ASSUME msg' = Routed(msg, store.code, store.token)
        PROVE  msg' \in MsgRec /\ msg'.method = msg.method /\ BodyOk' /\ msg'.token = store.token
    <3>1. msg' \in MsgRec /\ msg'.method = msg.method /\ msg'.token = store.token /\ msg'.body = msg.body
      <4> DEFINE c == store.code
                 t == store.token
                 y == Routed(msg, c, t)
      <4>1. c \in 0..500 /\ t \in Token
        BY <1>3
      <4> HIDE DEF c, t
      <4>2. y \in MsgRec /\ y.method = msg.method /\ y.token = t /\ y.body = msg.body
        BY <1>2, <4>1, RoutedFields
      <4> QED
        BY <2>3, <4>2 DEF c, t
    <3> QED
      BY <1>2, <3>1 DEF BodyOk
  <2>4. \/ msg' = [msg EXCEPT !.pc = "processing"] \/ msg' = [msg EXCEPT !.pc = "crashed"]
        \/ msg' = [msg EXCEPT !.pc = "answered", !.code = 500]
        \/ msg' = Routed(msg, store.code, store.token)
    BY DEF IdempotencyBegin, InterceptorCrash, Interceptor
  <2>5. store' = store \/ store' = [NoRecord EXCEPT !.state = "INPROGRESS", !.ttl = TokenTtl]
    BY DEF IdempotencyBegin, InterceptorCrash, Interceptor
  <2> QED
    BY <2>1, <2>2, <2>3, <2>4, <2>5
<1>5. LET r == [NoRecord EXCEPT !.state = "INPROGRESS", !.ttl = TokenTtl]
      IN r \in StoreRec /\ r.state = "INPROGRESS" /\ r.token = NoToken
  <2>1. ASSUME NEW x \in StoreRec, NEW t \in 0..TokenTtl
        PROVE  LET r == [x EXCEPT !.state = "INPROGRESS", !.ttl = t]
               IN r \in StoreRec /\ r.state = "INPROGRESS" /\ r.token = x.token
    BY DEF StoreRec
  <2>2. TokenTtl \in 0..TokenTtl
    BY ToolLifetimes
  <2> QED
    BY <2>1, <2>2, Nothing
<1>6. store' \in StoreRec /\ TokenFresh(store'.token)
  BY <1>2, <1>3, <1>4, <1>5, NothingFresh
<1>7. StoreFresh'
  <2>1. CASE store' = store
    BY <1>1, <1>4, <2>1, ToolUntouched
  <2>2. CASE store'.state = "INPROGRESS"
    BY <2>2 DEF StoreFresh
  <2> QED
    BY <1>4, <1>5, <2>1, <2>2
<1>8. KnownFresh' /\ KeysFresh' /\ TokenFresh(msg'.token)
  BY <1>1, <1>3, <1>4, ToolUntouched
<1> QED
  BY <1>1, <1>4, <1>6, <1>7, <1>8, CallKeeps, ToolTypes

\* fetch_policy: what it returns is no older than it says, and was read less than
\* its lifetime ago unless AppConfig is out.
LEMMA FetchedFresh ==
    ASSUME ToolInv
    PROVE  /\ Fetched \in KnownRec
           /\ Fetched.enabled /\ Fetched.ttl > 0 => config.off <= PolicyTtl - Fetched.ttl
           /\ Fetched.enabled => config.off < PolicyTtl \/ config.out = 0
<1>1. known \in KnownRec /\ config \in ConfigRec
  BY ToolTypes
<1>2. CASE known.ttl > 0
  <2>1. Fetched = known
    BY <1>2 DEF Fetched
  <2>2. known.enabled => config.off <= PolicyTtl - known.ttl
    BY <1>2 DEF ToolInv, KnownFresh
  <2>3. known.enabled => config.off < PolicyTtl
    BY <1>2, <2>2, ToolNumbers, ToolLifetimes
  <2> QED
    BY <1>1, <2>1, <2>2, <2>3
<1>3. CASE ~(known.ttl > 0) /\ ~config.up
  <2>1. Fetched = known /\ config.out = 0
    BY <1>3 DEF Fetched, ToolInv, AgesFresh
  <2> QED
    BY <1>1, <1>3, <2>1
<1>4. CASE ~(known.ttl > 0) /\ config.up
  <2> DEFINE f == [enabled |-> config.enabled, ttl |-> PolicyTtl]
  <2>1. PolicyTtl \in 0..PolicyTtl /\ PolicyTtl > 0 /\ 0 <= PolicyTtl - PolicyTtl
    BY ToolLifetimes
  <2>2. config.enabled \in BOOLEAN /\ (config.enabled => config.off = 0)
    BY <1>1 DEF ConfigRec, ToolInv, AgesFresh
  <2>3. Fetched = f
    BY <1>4 DEF Fetched
  <2>4. f \in KnownRec
    BY <2>1, <2>2 DEF KnownRec
  <2>5. f.enabled = config.enabled /\ f.ttl = PolicyTtl
    OBVIOUS
  <2> HIDE DEF f
  <2> QED
    BY <2>1, <2>2, <2>3, <2>4, <2>5
<1> QED
  BY <1>2, <1>3, <1>4

\* _get_scoped_token_signing_key: a key that was rotated was so less than two
\* lifetimes ago.
LEMMA GateKeysFresh ==
    ASSUME ToolInv, NEW k \in GateKeys
    PROVE  /\ k \in GateKeyRec
           /\ k.version # key.version =>
                 key.age <= (IF k.shared THEN KeyTtl ELSE 2 * KeyTtl) - k.ttl
           /\ k.version # key.version => key.age < 2 * KeyTtl
<1>1. gateKey \in GateKeyRec /\ key \in KeyRec
  BY ToolTypes
<1>2. gateKey.ttl >= 0 /\ gateKey.version # key.version =>
          key.age <= (IF gateKey.shared THEN KeyTtl ELSE 2 * KeyTtl) - gateKey.ttl
  BY DEF ToolInv, KeysFresh
<1>3. CASE gateKey.ttl > 0
  <2>1. k = gateKey
    BY <1>3 DEF GateKeys
  <2>2. gateKey.version # key.version => key.age < 2 * KeyTtl
    BY <1>2, <1>3, ToolNumbers, ToolLifetimes
  <2>3. gateKey.ttl >= 0
    BY <1>3, ToolNumbers
  <2> QED
    BY <1>1, <1>2, <2>1, <2>2, <2>3
<1>4. CASE ~(gateKey.ttl > 0) /\ k = [version |-> key.version, ttl |-> KeyTtl, shared |-> TRUE]
  <2>1. key.version \in -1..MaxEdits /\ KeyTtl \in -1..KeyTtl
    BY <1>1, ToolLifetimes DEF KeyRec
  <2>2. k \in GateKeyRec
    BY <1>4, <2>1 DEF GateKeyRec
  <2>3. k.version = key.version
    BY <1>4
  <2> QED
    BY <2>2, <2>3
<1>5. CASE gateKey.ttl = 0 /\ gateKey.shared /\ k = [gateKey EXCEPT !.ttl = KeyTtl, !.shared = FALSE]
  <2>1. KeyTtl \in -1..KeyTtl
    BY ToolLifetimes
  <2>2. k \in GateKeyRec /\ k.version = gateKey.version /\ k.ttl = KeyTtl /\ ~k.shared
    BY <1>1, <1>5, <2>1 DEF GateKeyRec
  <2>3. gateKey.version # key.version => key.age <= KeyTtl
    BY <1>2, <1>5, ToolLifetimes
  <2>4. gateKey.version # key.version => key.age <= 2 * KeyTtl - KeyTtl /\ key.age < 2 * KeyTtl
    BY <2>3, ToolNumbers, ToolLifetimes
  <2> QED
    BY <2>2, <2>4
<1> QED
  BY <1>3, <1>4, <1>5 DEF GateKeys

\* validate_tool_access lets a tool call pass only for an entitled caller, and by
\* the policy that fetch_policy returned.
LEMMA PassedIsEntitled ==
    ASSUME ToolInv, NEW readable \in BOOLEAN, NEW policy1,
           ValidateToolAccess(readable, policy1) = 200, msg.method = "tools/call"
    PROVE  lapsed = 0 /\ policy1.enabled /\ PolicyAsked(readable)
<1>1. Entitled(registry) /\ policy1.enabled /\ PolicyAsked(readable)
  BY DEF ValidateToolAccess, Entitled, PolicyAsked
<1> QED
  BY <1>1 DEF ToolInv, AgesFresh

\* What the wrapper stores of an answer.
LEMMA FinishKeeps ==
    ASSUME ToolInv, NEW code \in 0..500, NEW token \in Token, Finish(code, token),
           TokenFresh(token), msg.body = "none",
           code = 200 /\ msg.method = "tools/call" =>
               lapsed = 0 /\ (config.off < PolicyTtl \/ config.out = 0),
           known' \in KnownRec, KnownFresh', gateKey' \in GateKeyRec, KeysFresh'
    PROVE  ToolInv'
<1>1. UNCHANGED <<client, registry, lapsed, config, key, toolKey, edits>>
  BY DEF Finish, Interceptor
<1>2. msg' = Routed(msg, code, token)
  BY DEF Finish, Interceptor
<1>3. msg' \in MsgRec /\ msg'.method = msg.method /\ msg'.token = token /\ msg'.body = "none"
  BY <1>2, RoutedFields, ToolTypes
<1>4. CASE ~msg.keyed
  <2>1. store' = store
    BY <1>4 DEF Finish, Interceptor
  <2>2. store' \in StoreRec /\ TokenFresh(store'.token) /\ StoreFresh'
    BY <1>1, <1>3, <2>1, ToolTypes, ToolUntouched DEF ToolInv, TokensFresh
  <2> QED
    BY <1>1, <1>3, <2>2, CallKeeps, ToolTypes DEF BodyOk
<1>5. CASE msg.keyed
  <2>1. store' = [state |-> "COMPLETED", code |-> code, token |-> token, ttl |-> TokenTtl]
    BY <1>5 DEF Finish, Interceptor
  <2>2. TokenTtl \in 0..TokenTtl
    BY ToolLifetimes
  <2>3. store' \in StoreRec
    BY <2>1, <2>2 DEF StoreRec
  <2>4. store'.token = token /\ store'.ttl = TokenTtl /\ store'.code = code
    BY <2>1
  <2>5. StoreFresh'
    <3>1. SUFFICES ASSUME code = 200, msg.method = "tools/call"
                   PROVE  /\ lapsed <= TokenTtl - TokenTtl
                          /\ \/ config.off < PolicyTtl + TokenTtl - TokenTtl
                             \/ config.out <= TokenTtl - TokenTtl
      BY <1>1, <1>3, <2>4 DEF StoreFresh
    <3>2. lapsed = 0 /\ (config.off < PolicyTtl \/ config.out = 0)
      BY <3>1
    <3> QED
      BY <3>2, ToolNumbers, ToolLifetimes
  <2> QED
    BY <1>1, <1>3, <2>3, <2>4, <2>5, CallKeeps, ToolTypes DEF BodyOk
<1> QED
  BY <1>4, <1>5

\* So is a call that process_request answers with a token.
LEMMA AnswerIsEntitled ==
    ASSUME ToolInv, NEW bearer \in BearerOutcome, NEW readable \in BOOLEAN
    PROVE  LET policy1 == IF PolicyAsked(readable) THEN Fetched ELSE known
               code == IF bearer # "claims" THEN 401 ELSE ValidateToolAccess(readable, policy1)
           IN code = 200 /\ msg.method = "tools/call" =>
                 lapsed = 0 /\ (config.off < PolicyTtl \/ config.out = 0)
<1> DEFINE policy1 == IF PolicyAsked(readable) THEN Fetched ELSE known
           code == IF bearer # "claims" THEN 401 ELSE ValidateToolAccess(readable, policy1)
<1>1. SUFFICES ASSUME code = 200, msg.method = "tools/call"
               PROVE  lapsed = 0 /\ (config.off < PolicyTtl \/ config.out = 0)
  OBVIOUS
<1>2. ValidateToolAccess(readable, policy1) = 200
  BY <1>1
<1>3. lapsed = 0 /\ policy1.enabled /\ PolicyAsked(readable)
  <2> HIDE DEF policy1
  <2> QED
    BY <1>1, <1>2, PassedIsEntitled
<1>4. policy1 = Fetched
  BY <1>3
<1> HIDE DEF policy1
<1> QED
  BY <1>3, <1>4, FetchedFresh

LEMMA ProcessStep ==
    ASSUME ToolInv, NEW bearer \in BearerOutcome, NEW readable \in BOOLEAN,
           ProcessRequest(bearer, readable)
    PROVE  ToolInv'
<1> DEFINE policy1 == IF PolicyAsked(readable) THEN Fetched ELSE known
           code == IF bearer # "claims" THEN 401 ELSE ValidateToolAccess(readable, policy1)
<1>1. msg.pc = "processing" /\ known' = (IF bearer = "claims" THEN policy1 ELSE known)
  BY DEF ProcessRequest
<1>2. \/ code # 200 /\ Finish(code, NoToken) /\ UNCHANGED gateKey
      \/ /\ code = 200
         /\ \E k \in GateKeys : gateKey' = k /\ Finish(200, issue_scoped_token(k))
      \/ /\ Interceptor([msg EXCEPT !.pc = "answered", !.code = 500],
                        IF msg.keyed THEN NoRecord ELSE store)
         /\ UNCHANGED gateKey
  BY DEF ProcessRequest
<1>3. msg.body = "none" /\ msg \in MsgRec
  BY <1>1, ToolTypes DEF ToolInv, BodyOk
<1>4. code \in 0..500
  <2>1. 401 \in 0..500 /\ 200 \in 0..500 /\ 403 \in 0..500 /\ 500 \in 0..500
    OBVIOUS
  <2> QED
    BY <2>1 DEF ValidateToolAccess
<1>5. code = 200 /\ msg.method = "tools/call" =>
          lapsed = 0 /\ (config.off < PolicyTtl \/ config.out = 0)
  BY AnswerIsEntitled
<1>6. UNCHANGED <<client, registry, lapsed, config, key, toolKey, edits>>
  BY <1>2 DEF Finish, Interceptor
<1>7. known' \in KnownRec /\ KnownFresh'
  <2>1. known' \in {known, Fetched}
    BY <1>1
  <2>2. CASE known' = known
    BY <1>6, <2>2, ToolTypes, ToolUntouched
  <2>3. CASE known' = Fetched
    BY <1>6, <2>3, FetchedFresh DEF KnownFresh
  <2> QED
    BY <2>1, <2>2, <2>3
<1> HIDE DEF code, policy1
<1>8. CASE code # 200 /\ Finish(code, NoToken) /\ UNCHANGED gateKey
  <2>1. gateKey' \in GateKeyRec /\ KeysFresh'
    BY <1>6, <1>8, ToolTypes, ToolUntouched
  <2> QED
    BY <1>3, <1>4, <1>7, <1>8, <2>1, FinishKeeps, Nothing, NothingFresh
<1>9. CASE code = 200 /\ \E k \in GateKeys : gateKey' = k /\ Finish(200, issue_scoped_token(k))
  <2>1. PICK k \in GateKeys : gateKey' = k /\ Finish(code, issue_scoped_token(k))
    BY <1>9
  <2>2. /\ k \in GateKeyRec
        /\ k.version # key.version =>
              key.age <= (IF k.shared THEN KeyTtl ELSE 2 * KeyTtl) - k.ttl
        /\ k.version # key.version => key.age < 2 * KeyTtl
    BY GateKeysFresh
  <2>3. KeysFresh'
    BY <1>6, <2>1, <2>2 DEF ToolInv, KeysFresh
  <2> DEFINE tok == issue_scoped_token(k)
  <2>4. tok \in Token /\ tok.key = k.version /\ tok.life = TokenTtl
    <3>1. k.version \in -1..MaxEdits /\ TokenTtl \in 0..TokenTtl
      BY <2>2, ToolLifetimes DEF GateKeyRec
    <3> QED
      BY <3>1 DEF issue_scoped_token, Token
  <2> HIDE DEF tok
  <2>5. TokenFresh(tok)
    <3>1. 2 * KeyTtl + TokenTtl - TokenTtl = 2 * KeyTtl
      BY ToolLifetimes
    <3> QED
      BY <2>2, <2>4, <3>1 DEF TokenFresh
  <2>6. Finish(code, tok) /\ gateKey' \in GateKeyRec
    BY <2>1, <2>2 DEF tok
  <2> QED
    BY <1>3, <1>4, <1>5, <1>7, <2>3, <2>4, <2>5, <2>6, FinishKeeps
<1>10. CASE /\ Interceptor([msg EXCEPT !.pc = "answered", !.code = 500],
                           IF msg.keyed THEN NoRecord ELSE store)
            /\ UNCHANGED gateKey
  <2>1. msg' = [msg EXCEPT !.pc = "answered", !.code = 500] /\ store' \in {NoRecord, store}
    BY <1>10 DEF Interceptor
  <2>2. msg' \in MsgRec /\ msg'.pc = "answered" /\ msg'.method = msg.method /\ msg'.token = msg.token
    BY <1>3, <2>1, AnsweredFields
  <2>3. BodyOk' /\ TokenFresh(msg'.token)
    BY <2>2 DEF BodyOk, ToolInv, TokensFresh
  <2>4. store' \in StoreRec /\ TokenFresh(store'.token)
    BY <2>1, Nothing, NothingFresh, ToolTypes DEF ToolInv, TokensFresh
  <2>5. StoreFresh'
    BY <1>6, <2>1, <2>2, Nothing, ToolUntouched DEF StoreFresh
  <2>6. gateKey' \in GateKeyRec /\ KeysFresh'
    BY <1>6, <1>10, ToolTypes, ToolUntouched
  <2> QED
    BY <1>6, <1>7, <2>2, <2>3, <2>4, <2>5, <2>6, CallKeeps, ToolTypes
<1> QED
  BY <1>2, <1>8, <1>9, <1>10

\* The tool's answer, and the response interceptor's.
LEMMA AnswerKeeps ==
    ASSUME ToolInv, NEW m \in MsgRec, ToolAnswer(m), m.method = msg.method,
           m.pc \in {"responding", "answered"}, m.token \in {msg.token, NoToken},
           toolKey' \in ToolKeyRec, KeysFresh'
    PROVE  ToolInv'
<1>1. /\ UNCHANGED <<client, registry, lapsed, config, known, key, gateKey, store, edits>>
      /\ msg' = m
  BY DEF ToolAnswer
<1>2. TokenFresh(msg'.token) /\ TokenFresh(store'.token) /\ BodyOk'
  BY <1>1, NothingFresh DEF ToolInv, TokensFresh, BodyOk
<1>3. KnownFresh' /\ StoreFresh'
  BY <1>1, ToolUntouched
<1>4. /\ known' \in KnownRec /\ gateKey' \in GateKeyRec /\ store' \in StoreRec /\ msg' \in MsgRec
  BY <1>1, ToolTypes
<1> QED
  BY <1>1, <1>2, <1>3, <1>4, CallKeeps

LEMMA RespondingFields ==
    ASSUME NEW x \in MsgRec, NEW b \in Bodies
    PROVE  /\ LET y == [x EXCEPT !.pc = "responding", !.body = b]
              IN /\ y \in MsgRec /\ y.pc = "responding" /\ y.method = x.method
                 /\ y.token = x.token /\ y.body = b
BY DEF MsgRec

\* The tool's key: a copy that was rotated was so less than its lifetime ago.
LEMMA ToolKeyFresh ==
    ASSUME ToolInv
    PROVE  /\ ToolKeyNow.version \in Int
           /\ ~(ToolKeyNow.version < 0) => ToolKeyNow \in ToolKeyRec
           /\ ~(ToolKeyNow.version < 0) /\ ToolKeyNow.version # key.version =>
                 key.age <= KeyTtl - ToolKeyNow.ttl
           /\ key.up /\ ToolKeyNow.version # key.version => key.age < KeyTtl
<1>1. toolKey \in ToolKeyRec /\ key \in KeyRec
  BY ToolTypes
<1>2. CASE toolKey.ttl > 0
  <2>1. ToolKeyNow = toolKey
    BY <1>2 DEF ToolKeyNow
  <2>2. toolKey.version # key.version => key.age <= KeyTtl - toolKey.ttl
    BY <1>2 DEF ToolInv, KeysFresh
  <2>3. toolKey.version # key.version => key.age < KeyTtl
    BY <1>2, <2>2, ToolNumbers, ToolLifetimes
  <2> QED
    BY <1>1, <2>1, <2>2, <2>3, ToolNumbers
<1>3. CASE ~(toolKey.ttl > 0) /\ key.up
  <2> DEFINE k == [version |-> key.version, ttl |-> KeyTtl]
  <2>1. key.version \in -1..MaxEdits /\ KeyTtl \in 0..KeyTtl /\ key.version \in Int
    BY <1>1, ToolLifetimes DEF KeyRec
  <2>2. ToolKeyNow = k
    BY <1>3 DEF ToolKeyNow
  <2>3. k \in ToolKeyRec /\ k.version = key.version
    BY <2>1 DEF ToolKeyRec
  <2> HIDE DEF k
  <2> QED
    BY <2>1, <2>2, <2>3
<1>4. CASE ~(toolKey.ttl > 0) /\ ~key.up
  <2>1. ToolKeyNow.version = -1
    BY <1>4 DEF ToolKeyNow
  <2> QED
    BY <1>4, <2>1
<1> QED
  BY <1>2, <1>3, <1>4

LEMMA DiagnosticsStep ==
    ASSUME ToolInv, CallDiagnostics
    PROVE  ToolInv'
<1>1. PICK b \in Bodies : ToolAnswer([msg EXCEPT !.pc = "responding", !.body = b])
  <2>1. PICK outcome \in DiagnosticsOutcome :
            ToolAnswer([msg EXCEPT !.pc = "responding",
                                   !.body = IF TrustedPlatformContext(ToolKeyNow) THEN outcome
                                            ELSE "denied"])
    BY DEF CallDiagnostics
  <2>2. CASE TrustedPlatformContext(ToolKeyNow)
    BY <2>1, <2>2 DEF Bodies
  <2>3. CASE ~TrustedPlatformContext(ToolKeyNow)
    BY <2>1, <2>3 DEF Bodies
  <2> QED
    BY <2>2, <2>3
<1> DEFINE m == [msg EXCEPT !.pc = "responding", !.body = b]
<1>2. m \in MsgRec /\ m.pc = "responding" /\ m.method = msg.method /\ m.token = msg.token
  BY ToolTypes, RespondingFields
<1>3. ToolAnswer(m) /\ UNCHANGED <<key, gateKey>>
  BY <1>1 DEF ToolAnswer
<1> HIDE DEF m
<1>4. toolKey' = (IF ToolKeyNow.version < 0 THEN toolKey ELSE ToolKeyNow)
  BY DEF CallDiagnostics
<1>5. toolKey' \in ToolKeyRec /\ KeysFresh'
  <2>1. CASE ToolKeyNow.version < 0
    BY <1>3, <1>4, <2>1, ToolTypes, ToolUntouched DEF KeysFresh, ToolInv
  <2>2. CASE ~(ToolKeyNow.version < 0)
    <3>1. toolKey' = ToolKeyNow
      BY <1>4, <2>2
    <3> QED
      BY <1>3, <2>2, <3>1, ToolKeyFresh DEF KeysFresh, ToolInv
  <2> QED
    BY <2>1, <2>2
<1> QED
  BY <1>2, <1>3, <1>5, AnswerKeeps

LEMMA OtherStep ==
    ASSUME ToolInv, CallOther
    PROVE  ToolInv'
<1>1. PICK b \in Bodies : ToolAnswer([msg EXCEPT !.pc = "responding", !.body = b])
  <2> DEFINE c == IF msg.method = "tools/call" THEN "result" ELSE "listed"
  <2>1. ToolAnswer([msg EXCEPT !.pc = "responding", !.body = c])
    BY DEF CallOther
  <2>2. c \in Bodies
    BY DEF Bodies, DiagnosticsOutcome
  <2> HIDE DEF c
  <2> QED
    BY <2>1, <2>2
<1> DEFINE m == [msg EXCEPT !.pc = "responding", !.body = b]
<1>2. m \in MsgRec /\ m.pc = "responding" /\ m.method = msg.method /\ m.token = msg.token
  BY ToolTypes, RespondingFields
<1>3. ToolAnswer(m) /\ UNCHANGED <<key, gateKey, toolKey>>
  BY <1>1 DEF ToolAnswer, CallOther
<1> HIDE DEF m
<1>4. toolKey' \in ToolKeyRec /\ KeysFresh'
  BY <1>3, ToolTypes DEF KeysFresh, ToolInv
<1> QED
  BY <1>2, <1>3, <1>4, AnswerKeeps

LEMMA ResponseStep ==
    ASSUME ToolInv, NEW tagged \in BOOLEAN, NEW readable \in BOOLEAN,
           ResponseInterceptor(tagged, readable)
    PROVE  ToolInv'
<1> DEFINE b == IF ~tagged THEN "unchanged"
                ELSE IF msg.body = "listed" THEN FilterTools(readable) ELSE Redact(msg.body)
           m == [msg EXCEPT !.pc = "answered", !.token = NoToken, !.body = b]
<1>1. b \in Bodies
  BY DEF Bodies, FilterTools, Redact
<1>2. ToolAnswer(m) /\ UNCHANGED <<key, gateKey, toolKey>>
  <2>1. ToolAnswer([msg EXCEPT !.pc = "answered", !.token = NoToken,
                              !.body = IF ~tagged THEN "unchanged"
                                       ELSE IF @ = "listed" THEN FilterTools(readable)
                                       ELSE Redact(@)])
    BY DEF ResponseInterceptor
  <2>2. ToolAnswer(m)
    BY <2>1
  <2> QED
    BY <2>2 DEF ToolAnswer, ResponseInterceptor
<1> HIDE DEF b
<1>3. m \in MsgRec /\ m.pc = "answered" /\ m.method = msg.method /\ m.token = NoToken
  <2>1. msg \in MsgRec /\ NoToken \in Token
    BY ToolTypes, Nothing
  <2> QED
    BY <1>1, <2>1 DEF MsgRec
<1> HIDE DEF m
<1>4. toolKey' \in ToolKeyRec /\ KeysFresh'
  BY <1>2, ToolTypes DEF KeysFresh, ToolInv
<1> QED
  BY <1>2, <1>3, <1>4, AnswerKeeps

\* A tick: a lifetime goes down by one, or is over, as an age goes up by at most
\* one.
LEMMA DownFalls ==
    ASSUME NEW n \in Nat
    PROVE  /\ Down(n) \in Nat /\ Down(n) <= n
           /\ Down(n) > 0 => n > 0 /\ Down(n) = n - 1
BY DEF Down

LEMMA AgedRises ==
    ASSUME NEW cap \in Nat, NEW n \in 0..cap
    PROVE  Aged(n, cap) \in 0..cap /\ Aged(n, cap) <= n + 1
BY DEF Aged

LEMMA AgedTokenFields ==
    ASSUME NEW tok \in Token
    PROVE  /\ AgedToken(tok) \in Token /\ AgedToken(tok).key = tok.key
           /\ AgedToken(tok).life = Down(tok.life)
<1> DEFINE l == Down(tok.life)
<1>1. l \in 0..TokenTtl
  BY TokenNumbers, DownFalls, ToolLifetimes
<1> HIDE DEF l
<1>2. LET t == [tok EXCEPT !.life = l] IN t \in Token /\ t.key = tok.key /\ t.life = l
  BY <1>1 DEF Token
<1> QED
  BY <1>2 DEF l, AgedToken

\* What a tick makes of each variable.
LEMMA TickAges ==
    ASSUME ToolInv, ToolTick
    PROVE  /\ lapsed' \in 0..AnswerAge /\ lapsed' <= lapsed + 1
           /\ Entitled(registry) => lapsed' = 0
           /\ config' \in ConfigRec /\ config'.off <= config.off + 1 /\ config'.out <= config.out + 1
           /\ config'.enabled = config.enabled /\ config'.up = config.up
           /\ config.enabled => config'.off = 0
           /\ ~config.up => config'.out = 0
           /\ key' \in KeyRec /\ key'.age <= key.age + 1 /\ key'.version = key.version
<1>1. /\ lapsed \in 0..AnswerAge /\ config \in ConfigRec /\ key \in KeyRec
      /\ lapsed \in Nat /\ config.off \in Nat /\ config.out \in Nat
  BY ToolTypes, ToolNumbers
<1>2. /\ lapsed' \in 0..AnswerAge /\ lapsed' <= lapsed + 1
      /\ Entitled(registry) => lapsed' = 0
  <2>1. lapsed' = (IF Entitled(registry) THEN 0 ELSE Aged(lapsed, AnswerAge))
    BY DEF ToolTick
  <2>2. Aged(lapsed, AnswerAge) \in 0..AnswerAge /\ Aged(lapsed, AnswerAge) <= lapsed + 1
    BY <1>1, AgedRises, ToolLifetimes
  <2>3. 0 \in 0..AnswerAge /\ 0 <= lapsed + 1
    BY <1>1, ToolLifetimes
  <2> QED
    BY <2>1, <2>2, <2>3
<1>3. /\ config' \in ConfigRec /\ config'.off <= config.off + 1 /\ config'.out <= config.out + 1
      /\ config'.enabled = config.enabled /\ config'.up = config.up
      /\ config.enabled => config'.off = 0
      /\ ~config.up => config'.out = 0
  <2> DEFINE off == IF config.enabled THEN 0 ELSE Aged(config.off, PolicyAge)
             out == IF config.up THEN Aged(config.out, AnswerAge) ELSE 0
             c == [config EXCEPT !.off = off, !.out = out]
  <2>1. config' = c
    BY DEF ToolTick
  <2>2. config.off \in 0..PolicyAge /\ config.out \in 0..AnswerAge
    BY <1>1 DEF ConfigRec
  <2>3. off \in 0..PolicyAge /\ off <= config.off + 1 /\ (config.enabled => off = 0)
    <3>1. Aged(config.off, PolicyAge) \in 0..PolicyAge /\ Aged(config.off, PolicyAge) <= config.off + 1
      BY <2>2, AgedRises, ToolLifetimes
    <3>2. 0 \in 0..PolicyAge /\ 0 <= config.off + 1
      BY <1>1, ToolLifetimes
    <3> QED
      BY <3>1, <3>2
  <2>4. out \in 0..AnswerAge /\ out <= config.out + 1 /\ (~config.up => out = 0)
    <3>1. Aged(config.out, AnswerAge) \in 0..AnswerAge /\ Aged(config.out, AnswerAge) <= config.out + 1
      BY <2>2, AgedRises, ToolLifetimes
    <3>2. 0 \in 0..AnswerAge /\ 0 <= config.out + 1
      BY <1>1, ToolLifetimes
    <3> QED
      BY <3>1, <3>2
  <2> HIDE DEF off, out
  <2>5. /\ c \in ConfigRec /\ c.off = off /\ c.out = out /\ c.enabled = config.enabled
        /\ c.up = config.up
    BY <1>1, <2>3, <2>4 DEF ConfigRec
  <2> HIDE DEF c
  <2> QED
    BY <2>1, <2>3, <2>4, <2>5
<1>4. key' \in KeyRec /\ key'.age <= key.age + 1 /\ key'.version = key.version
  <2> DEFINE a == Aged(key.age, KeyAge)
             k == [key EXCEPT !.age = a]
  <2>1. key' = k
    BY DEF ToolTick
  <2>2. a \in 0..KeyAge /\ a <= key.age + 1
    <3>1. key.age \in 0..KeyAge
      BY <1>1 DEF KeyRec
    <3> QED
      BY <3>1, AgedRises, ToolLifetimes
  <2> HIDE DEF a
  <2>3. k \in KeyRec /\ k.age = a /\ k.version = key.version
    BY <1>1, <2>2 DEF KeyRec
  <2> HIDE DEF k
  <2> QED
    BY <2>1, <2>2, <2>3
<1> QED
  BY <1>2, <1>3, <1>4

LEMMA TickLifetimes ==
    ASSUME ToolInv, ToolTick
    PROVE  /\ known' \in KnownRec /\ known'.enabled = known.enabled /\ known'.ttl = Down(known.ttl)
           /\ gateKey' \in GateKeyRec /\ gateKey'.version = gateKey.version
           /\ gateKey'.shared = gateKey.shared
           /\ gateKey'.ttl >= 0 => gateKey.ttl >= 0 /\ gateKey'.ttl = gateKey.ttl - 1
           /\ toolKey' \in ToolKeyRec /\ toolKey'.version = toolKey.version
           /\ toolKey'.ttl = Down(toolKey.ttl)
           /\ msg' \in MsgRec /\ msg'.method = msg.method /\ msg'.pc = msg.pc /\ msg'.body = msg.body
           /\ msg'.token = AgedToken(msg.token)
           /\ store' = NoRecord \/ /\ store' \in StoreRec /\ store.ttl > 0
                                   /\ store'.ttl = store.ttl - 1 /\ store'.code = store.code
                                   /\ store'.state = store.state
                                   /\ store'.token = AgedToken(store.token)
<1>1. /\ known \in KnownRec /\ gateKey \in GateKeyRec /\ toolKey \in ToolKeyRec /\ msg \in MsgRec
      /\ store \in StoreRec
  BY ToolTypes
<1>2. known' \in KnownRec /\ known'.enabled = known.enabled /\ known'.ttl = Down(known.ttl)
  <2> DEFINE t == Down(known.ttl)
             k == [known EXCEPT !.ttl = t]
  <2>1. known' = k
    BY DEF ToolTick
  <2>2. t \in 0..PolicyTtl
    BY ToolNumbers, DownFalls, ToolLifetimes
  <2> HIDE DEF t
  <2>3. k \in KnownRec /\ k.enabled = known.enabled /\ k.ttl = t
    BY <1>1, <2>2 DEF KnownRec
  <2> HIDE DEF k
  <2> QED
    BY <2>1, <2>3 DEF t
<1>3. /\ gateKey' \in GateKeyRec /\ gateKey'.version = gateKey.version
      /\ gateKey'.shared = gateKey.shared
      /\ gateKey'.ttl >= 0 => gateKey.ttl >= 0 /\ gateKey'.ttl = gateKey.ttl - 1
  <2> DEFINE t == IF gateKey.ttl >= 0 THEN gateKey.ttl - 1 ELSE gateKey.ttl
             k == [gateKey EXCEPT !.ttl = t]
  <2>1. gateKey' = k
    BY DEF ToolTick
  <2>2. gateKey.ttl \in -1..KeyTtl
    BY <1>1 DEF GateKeyRec
  <2>3. t \in -1..KeyTtl /\ (t >= 0 => gateKey.ttl >= 0 /\ t = gateKey.ttl - 1)
    BY <2>2, ToolLifetimes
  <2> HIDE DEF t
  <2>4. k \in GateKeyRec /\ k.version = gateKey.version /\ k.shared = gateKey.shared /\ k.ttl = t
    BY <1>1, <2>3 DEF GateKeyRec
  <2> HIDE DEF k
  <2> QED
    BY <2>1, <2>3, <2>4
<1>4. /\ toolKey' \in ToolKeyRec /\ toolKey'.version = toolKey.version
      /\ toolKey'.ttl = Down(toolKey.ttl)
  <2> DEFINE t == Down(toolKey.ttl)
             k == [toolKey EXCEPT !.ttl = t]
  <2>1. toolKey' = k
    BY DEF ToolTick
  <2>2. t \in 0..KeyTtl
    BY ToolNumbers, DownFalls, ToolLifetimes
  <2> HIDE DEF t
  <2>3. k \in ToolKeyRec /\ k.version = toolKey.version /\ k.ttl = t
    BY <1>1, <2>2 DEF ToolKeyRec
  <2> HIDE DEF k
  <2> QED
    BY <2>1, <2>3 DEF t
<1>5. /\ msg' \in MsgRec /\ msg'.method = msg.method /\ msg'.pc = msg.pc /\ msg'.body = msg.body
      /\ msg'.token = AgedToken(msg.token)
  <2> DEFINE t == AgedToken(msg.token)
             m == [msg EXCEPT !.token = t]
  <2>1. msg' = m
    BY DEF ToolTick
  <2>2. t \in Token
    BY ToolNumbers, AgedTokenFields
  <2> HIDE DEF t
  <2>3. m \in MsgRec /\ m.method = msg.method /\ m.pc = msg.pc /\ m.body = msg.body /\ m.token = t
    BY <1>1, <2>2 DEF MsgRec
  <2> HIDE DEF m
  <2> QED
    BY <2>1, <2>3 DEF t
<1>6. store' = NoRecord \/ /\ store' \in StoreRec /\ store.ttl > 0
                           /\ store'.ttl = store.ttl - 1 /\ store'.code = store.code
                           /\ store'.state = store.state
                           /\ store'.token = AgedToken(store.token)
  <2>1. CASE store.ttl = 0
    BY <2>1 DEF ToolTick, AgedRecord
  <2>2. CASE store.ttl # 0
    <3> DEFINE t == AgedToken(store.token)
               l == store.ttl - 1
               s == [store EXCEPT !.ttl = l, !.token = t]
    <3>1. store' = s
      BY <2>2 DEF ToolTick, AgedRecord
    <3>2. t \in Token
      BY ToolNumbers, AgedTokenFields
    <3>3. l \in 0..TokenTtl /\ store.ttl > 0
      BY <2>2, ToolNumbers, ToolLifetimes
    <3> HIDE DEF t, l
    <3>4. s \in StoreRec /\ s.ttl = l /\ s.code = store.code /\ s.state = store.state /\ s.token = t
      BY <1>1, <3>2, <3>3 DEF StoreRec
    <3> HIDE DEF s
    <3> QED
      BY <3>1, <3>3, <3>4 DEF t, l
  <2> QED
    BY <2>1, <2>2
<1> QED
  BY <1>2, <1>3, <1>4, <1>5, <1>6

LEMMA AgedTokenFresh ==
    ASSUME ToolInv, ToolTick, NEW tok \in Token, TokenFresh(tok)
    PROVE  (AgedToken(tok).life > 0 /\ AgedToken(tok).key # key'.version) =>
              key'.age < 2 * KeyTtl + TokenTtl - AgedToken(tok).life
<1>1. /\ AgedToken(tok).life > 0 => tok.life > 0 /\ AgedToken(tok).life = tok.life - 1
      /\ AgedToken(tok).key = tok.key
  BY AgedTokenFields, TokenNumbers, DownFalls
<1>2. key'.version = key.version /\ key'.age <= key.age + 1 /\ key' \in KeyRec
  BY TickAges
<1>3. key'.age \in Nat
  BY <1>2, ToolLifetimes DEF KeyRec
<1> QED
  BY <1>1, <1>2, <1>3, TokenNumbers, ToolNumbers, ToolLifetimes DEF TokenFresh

LEMMA TickStep ==
    ASSUME ToolInv, ToolTick
    PROVE  ToolInv'
<1>1. UNCHANGED <<client, registry, edits>>
  BY DEF ToolTick
<1>2. store' \in StoreRec
  BY TickLifetimes, Nothing
<1>3. ToolTypeOK'
  BY <1>1, <1>2, TickAges, TickLifetimes, ToolTypes, ToolTypesNext
<1>4. /\ config'.off \in Nat /\ config'.out \in Nat /\ lapsed' \in Nat /\ key'.age \in Nat
  BY TickAges, ToolLifetimes DEF ConfigRec, KeyRec
<1>5. AgesFresh'
  <2>1. (Entitled(registry))' => Entitled(registry)
    BY <1>1 DEF Entitled, Available, TierAllowed, ToolRecord, Effective
  <2> QED
    BY <1>1, <2>1, TickAges DEF ToolInv, AgesFresh
<1>6. KnownFresh'
  <2>1. known'.enabled = known.enabled /\ known'.ttl = Down(known.ttl)
        /\ config'.off <= config.off + 1
    BY TickAges, TickLifetimes
  <2>2. Down(known.ttl) > 0 => known.ttl > 0 /\ Down(known.ttl) = known.ttl - 1
    BY ToolNumbers, DownFalls
  <2> QED
    BY <1>4, <2>1, <2>2, ToolNumbers, ToolLifetimes DEF ToolInv, KnownFresh
<1>7. StoreFresh'
  <2>1. CASE store' = NoRecord
    BY <2>1, Nothing DEF StoreFresh
  <2>2. CASE store' # NoRecord
    <3>1. /\ store'.ttl = store.ttl - 1 /\ store'.code = store.code /\ store'.state = store.state
          /\ msg'.method = msg.method
          /\ lapsed' <= lapsed + 1 /\ config'.off <= config.off + 1 /\ config'.out <= config.out + 1
      BY <2>2, TickAges, TickLifetimes
    <3> QED
      BY <1>4, <3>1, ToolNumbers, ToolLifetimes DEF ToolInv, StoreFresh
  <2> QED
    BY <2>1, <2>2
<1>8. KeysFresh'
  <2>1. key'.version = key.version /\ key'.age <= key.age + 1
    BY TickAges
  <2>2. /\ gateKey'.version = gateKey.version /\ gateKey'.shared = gateKey.shared
        /\ gateKey'.ttl >= 0 => gateKey.ttl >= 0 /\ gateKey'.ttl = gateKey.ttl - 1
        /\ toolKey'.version = toolKey.version
        /\ toolKey'.ttl > 0 => toolKey.ttl > 0 /\ toolKey'.ttl = toolKey.ttl - 1
    BY TickLifetimes, ToolNumbers, DownFalls
  <2>3. toolKey'.ttl > 0 /\ toolKey'.version # key'.version => key'.age <= KeyTtl - toolKey'.ttl
    BY <1>4, <2>1, <2>2, ToolNumbers, ToolLifetimes DEF ToolInv, KeysFresh
  <2>4. gateKey'.ttl >= 0 /\ gateKey'.version # key'.version =>
            key'.age <= (IF gateKey'.shared THEN KeyTtl ELSE 2 * KeyTtl) - gateKey'.ttl
    <3>1. CASE gateKey.shared
      BY <1>4, <2>1, <2>2, <3>1, ToolNumbers, ToolLifetimes DEF ToolInv, KeysFresh
    <3>2. CASE ~gateKey.shared
      BY <1>4, <2>1, <2>2, <3>2, ToolNumbers, ToolLifetimes DEF ToolInv, KeysFresh
    <3> QED
      BY <3>1, <3>2
  <2> QED
    BY <2>3, <2>4 DEF KeysFresh
<1>9. TokensFresh'
  <2>1. TokenFresh(msg.token) /\ TokenFresh(store.token) /\ msg.token \in Token /\ store.token \in Token
    BY ToolNumbers DEF ToolInv, TokensFresh
  <2>2. msg'.token = AgedToken(msg.token)
        /\ (store' = NoRecord \/ store'.token = AgedToken(store.token))
    BY TickLifetimes
  <2>3. TokenFresh(msg.token)'
    BY <2>1, <2>2, AgedTokenFresh DEF TokenFresh
  <2>4. TokenFresh(store.token)'
    <3>1. CASE store' = NoRecord
      BY <3>1, Nothing DEF TokenFresh
    <3>2. CASE store'.token = AgedToken(store.token)
      BY <2>1, <3>2, AgedTokenFresh DEF TokenFresh
    <3> QED
      BY <2>2, <3>1, <3>2
  <2> QED
    BY <2>3, <2>4 DEF TokensFresh
<1>10. BodyOk'
  BY TickLifetimes DEF ToolInv, BodyOk
<1> QED
  BY <1>3, <1>5, <1>6, <1>7, <1>8, <1>9, <1>10 DEF ToolInv

LEMMA ToolStep ==
    ASSUME ToolInv, ToolNext
    PROVE  ToolInv'
<1>1. CASE \E s \in DOMAIN registry, rec \in Record : EditRegistry(s, rec)
  BY <1>1, EditRegistryKeeps
<1>2. CASE EditPolicy \/ AppConfigOutage
  BY <1>2, ConfigStep
<1>3. CASE RotateKey \/ SecretsOutage
  BY <1>3, KeyStep
<1>4. CASE \/ \E method \in {"tools/call", "tools/list"}, keyed \in BOOLEAN : Post(method, keyed)
           \/ Redeliver \/ Forget
  BY <1>4, PostStep
<1>5. CASE IdempotencyBegin \/ InterceptorCrash
  BY <1>5, BeginStep
<1>6. CASE \E bearer \in BearerOutcome, readable \in BOOLEAN : ProcessRequest(bearer, readable)
  BY <1>6, ProcessStep
<1>7. CASE CallDiagnostics
  BY <1>7, DiagnosticsStep
<1>8. CASE CallOther
  BY <1>8, OtherStep
<1>9. CASE \E tagged, readable \in BOOLEAN : ResponseInterceptor(tagged, readable)
  BY <1>9, ResponseStep
<1>10. CASE ToolTick
  BY <1>10, TickStep
<1> QED
  BY <1>1, <1>2, <1>3, <1>4, <1>5, <1>6, <1>7, <1>8, <1>9, <1>10 DEF ToolNext

LEMMA ToolStutter ==
    ASSUME ToolInv, UNCHANGED toolVars
    PROVE  ToolInv'
<1>1. /\ UNCHANGED <<client, registry, lapsed, config, known, key, gateKey, toolKey, store, msg>>
      /\ UNCHANGED edits
  BY DEF toolVars
<1>2. ToolTypeOK'
  BY <1>1, ToolTypes, ToolTypesNext
<1> QED
  BY <1>1, <1>2, ToolUntouched DEF ToolInv

LEMMA ToolStart ==
    ASSUME ToolInit
    PROVE  ToolInv
<1>1. /\ 0 \in 0..AnswerAge /\ AnswerAge \in 0..AnswerAge /\ 0 \in 0..PolicyAge
      /\ 0 \in 0..PolicyTtl /\ 0 \in 0..MaxEdits /\ KeyAge \in 0..KeyAge /\ 0 \in 0..KeyTtl
      /\ -1 \in -1..MaxEdits /\ -1 \in -1..KeyTtl
  BY ToolLifetimes
<1>2. client \in Clients /\ lapsed = 0 /\ edits = 0 /\ store = NoRecord /\ msg = NoMsg
  BY DEF ToolInit
<1>3. registry \in [Scopes -> Record]
  BY DEF ToolInit, Record, Tiers
<1>4. config \in ConfigRec /\ config.off = 0 /\ config.up
  BY <1>1 DEF ToolInit, ConfigRec
<1>5. known \in KnownRec /\ known.ttl = 0
  BY <1>1 DEF ToolInit, KnownRec
<1>6. key \in KeyRec /\ key.version = 0
  BY <1>1 DEF ToolInit, KeyRec
<1>7. gateKey \in GateKeyRec /\ gateKey.ttl = -1
  BY <1>1 DEF ToolInit, GateKeyRec
<1>8. toolKey \in ToolKeyRec /\ toolKey.ttl = 0
  BY <1>1 DEF ToolInit, ToolKeyRec
<1>9. ToolTypeOK
  BY <1>1, <1>2, <1>3, <1>4, <1>5, <1>6, <1>7, <1>8, Nothing
     DEF ToolTypeOK, ConfigRec, KnownRec, KeyRec, GateKeyRec, ToolKeyRec, StoreRec, MsgRec, Bodies
<1>10. AgesFresh /\ KnownFresh /\ StoreFresh /\ KeysFresh
  BY <1>2, <1>4, <1>5, <1>6, <1>7, <1>8, Nothing DEF AgesFresh, KnownFresh, StoreFresh, KeysFresh
<1>11. TokensFresh /\ BodyOk
  BY <1>2, Nothing, NothingFresh DEF TokensFresh, BodyOk
<1> QED
  BY <1>9, <1>10, <1>11 DEF ToolInv

-----------------------------------------------------------------------------
(* Both planes. *)

LEMMA Step ==
    ASSUME Inv, [Next]_vars
    PROVE  Inv'
<1>1. ApiInv /\ ToolInv /\ plane \in {"rest", "tools"}
  BY DEF Inv
<1>2. CASE plane = "rest" /\ ApiNext /\ UNCHANGED <<plane, toolVars>>
  BY <1>1, <1>2, ApiStep, ToolStutter DEF Inv
<1>3. CASE plane = "tools" /\ ToolNext /\ UNCHANGED <<plane, apiVars>>
  BY <1>1, <1>3, ApiStutter, ToolStep DEF Inv
<1>4. CASE UNCHANGED vars
  BY <1>1, <1>4, ApiStutter, ToolStutter DEF Inv, vars
<1> QED
  BY <1>2, <1>3, <1>4 DEF Next

\* The inductive invariant holds.
THEOREM Invariant == Spec => []Inv
<1>1. Init => Inv
  BY ApiStart, ToolStart DEF Init, Inv
<1>2. Inv /\ [Next]_vars => Inv'
  BY Step
<1> QED
  BY <1>1, <1>2, PTL DEF Spec

\* Every cache, age and record keeps its type, so no lifetime runs below zero
\* and no age beyond what a memory can reach back (ApiAccess, ToolGateway).
THEOREM TypeCorrect == Spec => []TypeOK
<1>1. Inv => TypeOK
  BY DEF Inv, ApiInv, ToolInv, TypeOK
<1> QED
  BY <1>1, Invariant, PTL

\* handler.py of the authoriser, auth.py and db_factory.py: whatever answers and
\* bindings are cached, a call reaches no tenant but its caller's, and a
\* platform route runs for platform roles only.
THEOREM TenantsIsolated == Spec => []IsolationHeld
<1>1. Inv => IsolationHeld
  BY RoutesAreGuarded DEF Inv, ApiInv, IsolationHeld
<1> QED
  BY <1>1, Invariant, PTL

\* resultsCacheTtl of platform-api.ts: a suspension, an expired token and a role
\* that was taken away are noticed within the lifetimes of the caches.
THEOREM RevocationsBounded == Spec => RevocationBounded
<1>1. ASSUME Inv, [Next]_vars, call.pc = "sent", call'.pc = "admitted"
      PROVE  LET t == call'.context.tenant
             IN /\ tenants[t].idle < CacheTtl
                /\ actor.kind = "user" => cred > 1 - CacheTtl
                /\ actor.kind = "machine" => tenants[t].loose < CacheTtl + BindingTtl - 1
  <2>1. [ApiNext]_apiVars
    BY <1>1 DEF Next, vars
  <2> QED
    BY <1>1, <2>1, AdmittedFresh DEF Inv
<1>2. Inv /\ [Next]_vars =>
         [call.pc = "sent" /\ call'.pc = "admitted" =>
             LET t == call'.context.tenant
             IN /\ tenants[t].idle < CacheTtl
                /\ actor.kind = "user" => cred > 1 - CacheTtl
                /\ actor.kind = "machine" => tenants[t].loose < CacheTtl + BindingTtl - 1]_vars
  BY <1>1
<1> QED
  BY <1>2, Invariant, PTL DEF Spec, RevocationBounded

\* What each step of the tools plane makes of the message.
LEMMA MsgChanges ==
    ASSUME ToolInv, [ToolNext]_toolVars
    PROVE  \/ msg'.pc = msg.pc /\ msg'.body = msg.body
           \/ msg'.pc \in {"idle", "received", "crashed"} /\ msg'.body = "none"
           \/ IdempotencyBegin
           \/ \E bearer \in BearerOutcome, readable \in BOOLEAN : ProcessRequest(bearer, readable)
           \/ CallDiagnostics \/ CallOther
           \/ \E tagged, readable \in BOOLEAN : ResponseInterceptor(tagged, readable)
<1>1. CASE UNCHANGED toolVars
  BY <1>1 DEF toolVars
<1>2. CASE \/ \E s \in DOMAIN registry, rec \in Record : EditRegistry(s, rec)
           \/ EditPolicy \/ AppConfigOutage \/ RotateKey \/ SecretsOutage
  <2>1. msg' = msg
    BY <1>2 DEF EditRegistry, EditPolicy, AppConfigOutage, EditConfig, RotateKey, SecretsOutage, EditKey
  <2> QED
    BY <2>1
<1>3. CASE \/ \E method \in {"tools/call", "tools/list"}, keyed \in BOOLEAN : Post(method, keyed)
           \/ Redeliver \/ Forget
  <2>1. NoMsg \in MsgRec /\ NoMsg.body = "none" /\ NoMsg.pc = "idle"
    BY Nothing
  <2>2. ASSUME NEW method, NEW keyed,
               msg' = [NoMsg EXCEPT !.pc = "received", !.method = method, !.keyed = keyed]
        PROVE  msg'.pc = "received" /\ msg'.body = "none"
    BY <2>1, <2>2 DEF MsgRec
  <2>3. CASE \E method \in {"tools/call", "tools/list"}, keyed \in BOOLEAN : Post(method, keyed)
    <3>1. PICK method, keyed : Post(method, keyed)
      BY <2>3
    <3> QED
      BY <2>2, <3>1 DEF Post
  <2>4. CASE Redeliver
    BY <2>2, <2>4, Zenon DEF Redeliver
  <2>5. CASE Forget
    BY <2>1, <2>5 DEF Forget
  <2> QED
    BY <1>3, <2>3, <2>4, <2>5
<1>4. CASE InterceptorCrash
  <2>1. msg' = [msg EXCEPT !.pc = "crashed"] /\ msg.body = "none"
    BY <1>4 DEF InterceptorCrash, Interceptor, ToolInv, BodyOk
  <2> QED
    BY <2>1, MovedFields, ToolTypes
<1>5. CASE ToolTick
  BY <1>5, TickLifetimes
<1> QED
  BY <1>1, <1>2, <1>3, <1>4, <1>5 DEF ToolNext

\* A tool call is forwarded with a token of now, or with a stored one.
LEMMA ForwardedEntitled ==
    ASSUME ToolInv, [ToolNext]_toolVars, msg'.pc = "forwarded", msg.pc # "forwarded",
           msg.method = "tools/call"
    PROVE  /\ lapsed <= TokenTtl
           /\ config.off < TokenTtl + PolicyTtl \/ config.out <= TokenTtl
<1>1. msg \in MsgRec /\ store \in StoreRec /\ store.code \in 0..500 /\ store.token \in Token
  BY ToolTypes DEF StoreRec
<1>2. CASE IdempotencyBegin
  <2>1. CASE store.state = "COMPLETED" /\ msg' = Routed(msg, store.code, store.token)
    <3> DEFINE c == store.code
               t == store.token
    <3>1. c \in 0..500 /\ t \in Token /\ msg' = Routed(msg, c, t)
      BY <1>1, <2>1
    <3> HIDE DEF c, t
    <3>2. c # 200 => msg'.pc = "answered"
      BY <1>1, <3>1, RoutedOn
    <3>3. store.code = 200
      BY <3>2 DEF c
    <3>4. /\ lapsed <= TokenTtl - store.ttl
          /\ \/ config.off < PolicyTtl + TokenTtl - store.ttl
             \/ config.out <= TokenTtl - store.ttl
      BY <2>1, <3>3 DEF ToolInv, StoreFresh
    <3> QED
      BY <3>4, ToolNumbers, ToolLifetimes
  <2>2. CASE msg' = [msg EXCEPT !.pc = "processing"]
    BY <1>1, <2>2, MovedFields
  <2>3. CASE msg' = [msg EXCEPT !.pc = "answered", !.code = 500]
    <3>1. msg'.pc = "answered"
      BY <1>1, <2>3, AnsweredFields
    <3> QED
      BY <3>1
  <2> QED
    BY <1>2, <2>1, <2>2, <2>3 DEF IdempotencyBegin, Interceptor
<1>3. ASSUME NEW bearer \in BearerOutcome, NEW readable \in BOOLEAN, ProcessRequest(bearer, readable)
      PROVE  /\ lapsed <= TokenTtl
             /\ config.off < TokenTtl + PolicyTtl \/ config.out <= TokenTtl
  <2> DEFINE policy1 == IF PolicyAsked(readable) THEN Fetched ELSE known
             code == IF bearer # "claims" THEN 401 ELSE ValidateToolAccess(readable, policy1)
  <2>1. \/ code # 200 /\ Finish(code, NoToken)
        \/ code = 200
        \/ msg' = [msg EXCEPT !.pc = "answered", !.code = 500]
    BY <1>3 DEF ProcessRequest, Interceptor
  <2>2. code = 200 =>
           lapsed = 0 /\ (config.off < PolicyTtl \/ config.out = 0)
    BY AnswerIsEntitled
  <2>3. code \in 0..500
    <3>1. 401 \in 0..500 /\ 200 \in 0..500 /\ 403 \in 0..500 /\ 500 \in 0..500
      OBVIOUS
    <3> QED
      BY <3>1 DEF ValidateToolAccess
  <2> HIDE DEF code
  <2>4. CASE code # 200 /\ Finish(code, NoToken)
    <3>1. msg' = Routed(msg, code, NoToken)
      BY <2>4 DEF Finish, Interceptor
    <3>2. Routed(msg, code, NoToken).pc = "answered"
      BY <1>1, <2>3, <2>4, RoutedOn, Nothing
    <3> QED
      BY <2>4, <3>1, <3>2
  <2>5. CASE msg' = [msg EXCEPT !.pc = "answered", !.code = 500]
    <3>1. msg'.pc = "answered"
      BY <1>1, <2>5, AnsweredFields
    <3> QED
      BY <3>1
  <2>6. CASE code = 200
    BY <2>2, <2>6, ToolNumbers, ToolLifetimes
  <2> QED
    BY <2>1, <2>4, <2>5, <2>6
<1>4. ~CallDiagnostics /\ ~CallOther
  BY DEF CallDiagnostics, CallOther
<1>5. ASSUME NEW tagged \in BOOLEAN, NEW readable \in BOOLEAN, ResponseInterceptor(tagged, readable)
      PROVE  FALSE
  <2>1. msg'.pc = "answered"
    BY <1>1, <1>5 DEF ResponseInterceptor, ToolAnswer, MsgRec
  <2> QED
    BY <2>1
<1> QED
  BY <1>2, <1>3, <1>4, <1>5, MsgChanges

\* The list hides a tool only from a caller who may not call it.
LEMMA HiddenIsRefused ==
    ASSUME ToolInv, [ToolNext]_toolVars, msg.body = "listed", msg'.body = "hidden",
           Effective = client.tenant
    PROVE  ~Entitled(registry)
<1>1. msg \in MsgRec /\ msg.pc \in {"responding", "answered"}
  BY ToolTypes DEF ToolInv, BodyOk, MsgRec
<1>2. ~IdempotencyBegin /\ ~CallDiagnostics /\ ~CallOther
  BY <1>1 DEF IdempotencyBegin, CallDiagnostics, CallOther
<1>3. ~\E bearer \in BearerOutcome, readable \in BOOLEAN : ProcessRequest(bearer, readable)
  BY <1>1 DEF ProcessRequest
<1>4. PICK tagged \in BOOLEAN, readable \in BOOLEAN : ResponseInterceptor(tagged, readable)
  BY <1>2, <1>3, MsgChanges
<1>5. msg'.body = (IF ~tagged THEN "unchanged"
                   ELSE IF msg.body = "listed" THEN FilterTools(readable) ELSE Redact(msg.body))
  BY <1>1, <1>4 DEF ResponseInterceptor, ToolAnswer, MsgRec
<1>6. FilterTools(readable) = "hidden"
  BY <1>5
<1>7. ~(Available(registry, client.tenant) /\ TierAllowed(registry, client.tenant))
  BY <1>6 DEF FilterTools
<1> QED
  BY <1>7 DEF Entitled

\* The diagnostics refuse a token in its life only soon after a rotation.
LEMMA DeniedIsStale ==
    ASSUME ToolInv, [ToolNext]_toolVars, msg.pc = "forwarded", msg'.body = "denied"
    PROVE  msg.token.life = 0 \/ Effective # PlatformId \/ ~key.up \/ key.age < KeyAge
<1>1. msg \in MsgRec /\ msg.body = "none" /\ msg.token \in Token
  BY ToolTypes, ToolNumbers DEF ToolInv, BodyOk
<1>2. ~IdempotencyBegin
  BY DEF IdempotencyBegin
<1>3. ~\E bearer \in BearerOutcome, readable \in BOOLEAN : ProcessRequest(bearer, readable)
  BY DEF ProcessRequest
<1>4. ~\E tagged, readable \in BOOLEAN : ResponseInterceptor(tagged, readable)
  BY DEF ResponseInterceptor
<1>5. ~CallOther
  <2>1. SUFFICES ASSUME CallOther PROVE FALSE
    OBVIOUS
  <2>2. msg'.body = (IF msg.method = "tools/call" THEN "result" ELSE "listed")
    BY <1>1, <2>1 DEF CallOther, ToolAnswer, MsgRec
  <2> QED
    BY <2>2
<1>6. CallDiagnostics
  BY <1>1, <1>2, <1>3, <1>4, <1>5, MsgChanges
<1>7. ~TrustedPlatformContext(ToolKeyNow)
  <2>1. PICK outcome \in DiagnosticsOutcome :
            msg' = [msg EXCEPT !.pc = "responding",
                               !.body = IF TrustedPlatformContext(ToolKeyNow) THEN outcome
                                        ELSE "denied"]
    BY <1>6 DEF CallDiagnostics, ToolAnswer
  <2>2. msg'.body = (IF TrustedPlatformContext(ToolKeyNow) THEN outcome ELSE "denied")
    BY <1>1, <2>1 DEF MsgRec
  <2> QED
    BY <2>2 DEF DiagnosticsOutcome
<1>8. SUFFICES ASSUME msg.token.life # 0, Effective = PlatformId, key.up, ~(key.age < KeyAge)
               PROVE  FALSE
  OBVIOUS
<1>9. msg.token.life > 0 /\ msg.token.life \in Nat
  BY <1>1, <1>8, TokenNumbers
<1>10. ToolKeyNow.version = key.version
  BY <1>8, ToolKeyFresh, ToolNumbers, ToolLifetimes
<1>11. msg.token.key = key.version
  <2>1. msg.token.key # key.version => key.age < 2 * KeyTtl + TokenTtl - msg.token.life
    BY <1>9 DEF ToolInv, TokensFresh, TokenFresh
  <2> QED
    BY <1>8, <1>9, <2>1, ToolNumbers, ToolLifetimes
<1> QED
  BY <1>7, <1>8, <1>9, <1>10, <1>11 DEF TrustedPlatformContext

\* request_interceptor.py: whatever answers, policies and keys are kept, a tool
\* call goes on only if the registry and the policy allowed it recently enough.
THEOREM ToolCallsEntitled == Spec => ToolCallEntitled
<1>1. Inv /\ [Next]_vars => ToolInv /\ [ToolNext]_toolVars
  BY DEF Inv, Next, vars
<1>2. Inv /\ [Next]_vars =>
         [/\ msg'.pc = "forwarded" /\ msg.pc # "forwarded" /\ msg.method = "tools/call" =>
                 /\ lapsed <= TokenTtl
                 /\ config.off < TokenTtl + PolicyTtl \/ config.out <= TokenTtl
          /\ msg.body = "listed" /\ msg'.body = "hidden" /\ Effective = client.tenant
                 => ~Entitled(registry)]_vars
  BY <1>1, ForwardedEntitled, HiddenIsRefused
<1> QED
  BY <1>2, Invariant, PTL DEF Spec, ToolCallEntitled

\* diagnostics_handler.py: the two sides of a scoped token agree on its key again
\* within two lifetimes of a key and one of a token.
THEOREM TokensHonoured == Spec => ScopedTokenHonoured
<1>1. Inv /\ [Next]_vars => ToolInv /\ [ToolNext]_toolVars
  BY DEF Inv, Next, vars
<1>2. Inv /\ [Next]_vars =>
         [msg.pc = "forwarded" /\ msg'.body = "denied" =>
             \/ msg.token.life = 0 \/ Effective # PlatformId
             \/ ~key.up \/ key.age < KeyAge]_vars
  BY <1>1, DeniedIsStale
<1> QED
  BY <1>2, Invariant, PTL DEF Spec, ScopedTokenHonoured
=============================================================================
