----------------------------- MODULE ToolGateway -----------------------------
(***************************************************************************)
(* A tool call through AgentCore Gateway: the request interceptor          *)
(* (gateway/interceptors), which checks the tool registry and the tenant's *)
(* capability policy and replaces the user's token by one scoped to the    *)
(* tool; the tool, here the platform diagnostics                           *)
(* (src/platform_tools/diagnostics_handler.py) or a tenant's own; and the  *)
(* response interceptor.  The gateway delivers a request again when it got *)
(* no answer, and the interceptor keeps its answers to recognise that.     *)
(*                                                                         *)
(* The interceptor, the tool and the idempotency store each remember       *)
(* something for five minutes (TokenTtl, KeyTtl): those memories overlap.  *)
(***************************************************************************)
EXTENDS Integers, FiniteSets

CONSTANTS Clients,     \* SUBSET Client, the users and the tool they call
          PlatformId,  \* the reserved tenant "platform"
          TokenTtl,    \* SCOPED_TOKEN_TTL_SECONDS, of tokens and stored answers
          KeyTtl,      \* of a signing key kept by a Lambda, 300 seconds
          PolicyTtl,   \* of the capability policy, 60 seconds
          MaxEdits     \* bound: changes of registry, policy, key and outages

VARIABLES client,    \* who calls which tool, fixed
          registry,  \* the tool's records: by tenant, and the GLOBAL one
          lapsed,    \* ticks since the registry last entitled the call
          config,    \* AppConfig: the tool's capability, reachable or not
          known,     \* the interceptor's capability policy
          key,       \* the signing key in Secrets Manager
          gateKey,   \* the key as the interceptor keeps it
          toolKey,   \* the key as the tool keeps it
          store,     \* the idempotency record of the request id in use
          msg,       \* the request in flight
          edits      \* changes so far

toolVars == <<client, registry, lapsed, config, known, key, gateKey, toolKey, store, msg, edits>>

Global == "GLOBAL"
Tiers == {"basic", "premium"}
Rank(tier) == IF tier = "premium" THEN 2 ELSE 0
Record == {"absent", "disabled"} \cup Tiers   \* an enabled record is its tier_minimum

\* diagnostics: the tool is one of PLATFORM_DIAGNOSTICS_TOOLS.
Client == [tenant : STRING, operator : BOOLEAN, tier : Tiers, diagnostics : BOOLEAN]

\* _effective_tenant_id
Effective == IF client.diagnostics /\ client.operator THEN PlatformId ELSE client.tenant

\* The records of the tool that are read for this caller.
Scopes == {client.tenant, Effective, Global}

\* Ages are counted as far as a memory can reach back: a stored answer, a
\* policy behind it, the two copies of a key and a token made with the last.
AnswerAge == TokenTtl + 1
PolicyAge == TokenTtl + PolicyTtl
KeyAge == 2 * KeyTtl + TokenTtl - 1
Aged(n, cap) == IF n < cap THEN n + 1 ELSE cap

NoToken == [key |-> -1, life |-> 0]
NoRecord == [state |-> "none", code |-> 0, token |-> NoToken, ttl |-> 0]
NoMsg == [pc |-> "idle", method |-> "none", keyed |-> FALSE, code |-> 0, token |-> NoToken,
          body |-> "none"]

ASSUME GatewayAssumption == /\ {TokenTtl, KeyTtl, PolicyTtl} \subseteq Nat \ {0}
                            /\ MaxEdits \in Nat

ToolInit == /\ client \in Clients
            /\ registry = [s \in Scopes |->
                              IF s = Global THEN "basic" ELSE "absent"]
            /\ lapsed = 0
            /\ config = [enabled |-> TRUE, off |-> 0, up |-> TRUE, out |-> AnswerAge]
            /\ known = [enabled |-> FALSE, ttl |-> 0]   \* safe_fallback
            /\ key = [version |-> 0, age |-> KeyAge, up |-> TRUE]
            /\ gateKey = [version |-> -1, ttl |-> -1, shared |-> FALSE]
            /\ toolKey = [version |-> -1, ttl |-> 0]
            /\ store = NoRecord
            /\ msg = NoMsg
            /\ edits = 0
-----------------------------------------------------------------------------
\* get_tool_record: the tenant's record, else the GLOBAL one, is the authority.
ToolRecord(reg, tenant) == IF reg[tenant] # "absent" THEN reg[tenant] ELSE reg[Global]

Available(reg, tenant) == ToolRecord(reg, tenant) \in Tiers

\* is_tier_allowed, is_tier_sufficient
TierAllowed(reg, tenant) == Rank(client.tier) >= Rank(ToolRecord(reg, tenant))

Entitled(reg) == Available(reg, Effective) /\ TierAllowed(reg, Effective)

\* Operators edit the registry, the capability policy and the key; AppConfig
\* and Secrets Manager become unreachable and come back.
Edit == edits < MaxEdits /\ edits' = edits + 1
Toggle(up) == IF up THEN Edit ELSE UNCHANGED edits   \* a recovery is not counted

EditRegistry(s, rec) ==
    /\ Edit /\ rec # registry[s]
    /\ registry' = [registry EXCEPT ![s] = rec]
    /\ lapsed' = IF Entitled(registry) \/ Entitled(registry') THEN 0 ELSE lapsed
    /\ UNCHANGED <<client, config, known, key, gateKey, toolKey, store, msg>>

EditConfig(c) == /\ config' = c
                 /\ UNCHANGED <<client, registry, lapsed, known, key, gateKey, toolKey, store, msg>>

EditPolicy == Edit /\ EditConfig([config EXCEPT !.enabled = ~@, !.off = 0])
AppConfigOutage == Toggle(config.up) /\ EditConfig([config EXCEPT !.up = ~@, !.out = 0])

EditKey(k) == /\ key' = k
              /\ UNCHANGED <<client, registry, lapsed, config, known, gateKey, toolKey, store, msg>>

RotateKey == Edit /\ EditKey([key EXCEPT !.version = @ + 1, !.age = 0])
SecretsOutage == Toggle(key.up) /\ EditKey([key EXCEPT !.up = ~@])
-----------------------------------------------------------------------------
\* The MCP client posts a request with a new id, or the same one again.
Post(method, keyed) ==
    /\ msg = NoMsg
    /\ msg' = [NoMsg EXCEPT !.pc = "received", !.method = method, !.keyed = keyed]
    /\ store' = NoRecord
    /\ UNCHANGED <<client, registry, lapsed, config, known, key, gateKey, toolKey, edits>>

\* The gateway or the client repeats a request it has no answer of.
Redeliver ==
    /\ msg.pc \in {"crashed", "answered"} /\ msg.keyed
    /\ msg' = [NoMsg EXCEPT !.pc = "received", !.method = msg.method, !.keyed = TRUE]
    /\ UNCHANGED <<client, registry, lapsed, config, known, key, gateKey, toolKey, store, edits>>

Forget == /\ msg.pc \in {"crashed", "answered"}
          /\ msg' = NoMsg
          /\ UNCHANGED <<client, registry, lapsed, config, known, key, gateKey, toolKey, store, edits>>

Interceptor(m, rec) == /\ msg' = m
                       /\ store' = rec
                       /\ UNCHANGED <<client, registry, lapsed, config, key, toolKey, edits>>

\* What the request interceptor answered goes on to the tool, or back.
Routed(m, code, token) ==
    [m EXCEPT !.pc = IF code = 200 THEN "forwarded" ELSE "answered",
              !.code = code, !.token = token]

\* The idempotent wrapper (Powertools): a first delivery is recorded as in
\* progress, a repeated one gets the recorded answer, or an error while there
\* is none.
IdempotencyBegin ==
    /\ msg.pc = "received"
    /\ UNCHANGED <<known, gateKey>>
    /\ \/ /\ ~msg.keyed
          /\ Interceptor([msg EXCEPT !.pc = "processing"], store)
       \/ /\ msg.keyed /\ store.state = "none"
          /\ Interceptor([msg EXCEPT !.pc = "processing"],
                         [NoRecord EXCEPT !.state = "INPROGRESS", !.ttl = TokenTtl])
       \/ /\ store.state = "INPROGRESS" /\ msg.keyed
          /\ Interceptor([msg EXCEPT !.pc = "answered", !.code = 500], store)
       \/ /\ store.state = "COMPLETED" /\ msg.keyed
          /\ Interceptor(Routed(msg, store.code, store.token), store)

\* fetch_policy: for max_age the last document, then a new one, and the last
\* known good one when AppConfig fails.
Fetched == IF known.ttl > 0 \/ ~config.up THEN known
           ELSE [enabled |-> config.enabled, ttl |-> PolicyTtl]

\* The keys _get_scoped_token_signing_key may return, as it then keeps them.
\* get_secret has a five-minute memory of its own that ends just after the
\* interceptor's: a call between the two ends keeps the old key once more.
GateKeys ==
    IF gateKey.ttl > 0 THEN {gateKey}
    ELSE (IF key.up THEN {[version |-> key.version, ttl |-> KeyTtl, shared |-> TRUE]} ELSE {})
         \cup (IF gateKey.ttl = 0 /\ gateKey.shared
               THEN {[gateKey EXCEPT !.ttl = KeyTtl, !.shared = FALSE]} ELSE {})

\* Mutant: a registry that cannot be read is no reason to refuse.
AccessFailOpen(readable, policy) ==
    IF msg.method # "tools/call" \/ ~readable \/ ~Available(registry, client.tenant) THEN 200
    ELSE IF ~policy.enabled \/ ~TierAllowed(registry, Effective) THEN 403 ELSE 200

\* validate_tool_access: the registry, then the policy, then the tier.
ValidateToolAccess(readable, policy) ==
    IF msg.method # "tools/call" THEN 200
    ELSE IF ~readable THEN 500
    ELSE IF ~Available(registry, Effective) THEN 403
    ELSE IF ~policy.enabled \/ ~TierAllowed(registry, Effective) THEN 403 ELSE 200

\* The policy is looked at for an available tool only.
PolicyAsked(readable) == msg.method = "tools/call" /\ readable /\ Available(registry, Effective)

\* The wrapper stores what process_request returned, refusals too, and drops
\* its record when it raised.
Finish(code, token) ==
    Interceptor(Routed(msg, code, token),
                IF msg.keyed THEN [state |-> "COMPLETED", code |-> code, token |-> token,
                                   ttl |-> TokenTtl]
                ELSE store)

issue_scoped_token(k) == [key |-> k.version, life |-> TokenTtl]

\* validate_bearer_token: the claims, or none when Entra is not configured.  A
\* token that does not verify raises, which process_request answers alike.
BearerOutcome == {"claims", "none"}

\* process_request, for each outcome of the bearer token.
ProcessRequest(bearer, readable) ==
    /\ msg.pc = "processing"
    /\ LET policy == IF PolicyAsked(readable) THEN Fetched ELSE known
           code == IF bearer # "claims" THEN 401 ELSE ValidateToolAccess(readable, policy)
       IN /\ known' = IF bearer = "claims" THEN policy ELSE known
          /\ IF code # 200 THEN Finish(code, NoToken) /\ UNCHANGED gateKey
             ELSE IF GateKeys # {}
             THEN \E k \in GateKeys : gateKey' = k /\ Finish(200, issue_scoped_token(k))
             ELSE /\ Interceptor([msg EXCEPT !.pc = "answered", !.code = 500],
                                 IF msg.keyed THEN NoRecord ELSE store)
                  /\ UNCHANGED gateKey

\* The interceptor's Lambda stops before it answers: its record stays.
InterceptorCrash == /\ msg.pc = "processing"
                    /\ Interceptor([msg EXCEPT !.pc = "crashed"], store)
                    /\ UNCHANGED <<known, gateKey>>
-----------------------------------------------------------------------------
\* Mutant: a key once fetched is never fetched again.
KeyKeptForever == IF toolKey.version >= 0 THEN toolKey
                  ELSE IF key.up THEN [version |-> key.version, ttl |-> KeyTtl]
                  ELSE [version |-> -1, ttl |-> 0]

\* The tool's own copy of the key: five minutes, then Secrets Manager again.
ToolKeyNow == IF toolKey.ttl > 0 THEN toolKey
              ELSE IF key.up THEN [version |-> key.version, ttl |-> KeyTtl]
              ELSE [version |-> -1, ttl |-> 0]

\* _trusted_platform_context: signature, expiry, audience and tenant.
TrustedPlatformContext(k) == /\ k.version = msg.token.key
                             /\ msg.token.life > 0
                             /\ Effective = PlatformId

ToolAnswer(m) == /\ msg' = m
                 /\ UNCHANGED <<client, registry, lapsed, config, known, key, gateKey, store, edits>>

\* The diagnostics only read.  Health and recent errors report a table that
\* cannot be read as a signal, a tenant's status or a bad argument as an error.
DiagnosticsOutcome == {"result", "signalUnavailable", "error"}

CallDiagnostics ==
    /\ msg.pc = "forwarded" /\ msg.method = "tools/call" /\ client.diagnostics
    /\ toolKey' = IF ToolKeyNow.version < 0 THEN toolKey ELSE ToolKeyNow
    /\ \E outcome \in DiagnosticsOutcome :
          ToolAnswer([msg EXCEPT !.pc = "responding",
                                 !.body = IF TrustedPlatformContext(ToolKeyNow) THEN outcome
                                          ELSE "denied"])

\* Another tool, or the gateway's list of tools.
CallOther == /\ msg.pc = "forwarded" /\ ~(msg.method = "tools/call" /\ client.diagnostics)
             /\ ToolAnswer([msg EXCEPT !.pc = "responding",
                                       !.body = IF msg.method = "tools/call" THEN "result"
                                                ELSE "listed"])
             /\ UNCHANGED toolKey

\* resolve_tool_minimum_tier and filter_tools: hidden when the record of the
\* caller's tenant is disabled or above its tier; by the tool's own payload
\* when the registry cannot be read or does not know it.
FilterTools(readable) ==
    IF ~readable \/ ToolRecord(registry, client.tenant) = "absent" THEN "byPayload"
    ELSE IF Available(registry, client.tenant) /\ TierAllowed(registry, client.tenant)
         THEN "listed" ELSE "hidden"

\* redact_pii with the configured patterns, or the built-in ones when they cannot
\* be had: every text of the body is rewritten.  A refusal has nothing to hide.
Redact(body) == IF body = "denied" THEN "denied" ELSE "redacted"

\* The response interceptor: without tenant headers the body passes as it is;
\* a list is filtered, everything else redacted.
ResponseInterceptor(tagged, readable) ==
    /\ msg.pc = "responding"
    /\ ToolAnswer([msg EXCEPT !.pc = "answered", !.token = NoToken,
                              !.body = IF ~tagged THEN "unchanged"
                                       ELSE IF @ = "listed" THEN FilterTools(readable)
                                       ELSE Redact(@)])
    /\ UNCHANGED toolKey
-----------------------------------------------------------------------------
Down(n) == IF n > 0 THEN n - 1 ELSE 0
AgedToken(tok) == [tok EXCEPT !.life = Down(@)]

\* A stored answer is valid up to and including its last moment.
AgedRecord == IF store.ttl = 0 THEN NoRecord
              ELSE [store EXCEPT !.ttl = @ - 1, !.token = AgedToken(@)]

ToolTick == /\ lapsed' = IF Entitled(registry) THEN 0 ELSE Aged(lapsed, AnswerAge)
            /\ config' = [config EXCEPT !.off = IF config.enabled THEN 0 ELSE Aged(@, PolicyAge),
                                        !.out = IF config.up THEN Aged(@, AnswerAge) ELSE 0]
            /\ known' = [known EXCEPT !.ttl = Down(@)]
            /\ key' = [key EXCEPT !.age = Aged(@, KeyAge)]
            /\ gateKey' = [gateKey EXCEPT !.ttl = IF @ >= 0 THEN @ - 1 ELSE @]
            /\ toolKey' = [toolKey EXCEPT !.ttl = Down(@)]
            /\ store' = AgedRecord
            /\ msg' = [msg EXCEPT !.token = AgedToken(@)]
            /\ UNCHANGED <<client, registry, edits>>

ToolNext == \/ \E s \in DOMAIN registry, rec \in Record : EditRegistry(s, rec)
            \/ EditPolicy \/ AppConfigOutage \/ RotateKey \/ SecretsOutage
            \/ \E method \in {"tools/call", "tools/list"}, keyed \in BOOLEAN : Post(method, keyed)
            \/ Redeliver \/ Forget \/ IdempotencyBegin \/ InterceptorCrash
            \/ \E bearer \in BearerOutcome, readable \in BOOLEAN : ProcessRequest(bearer, readable)
            \/ CallDiagnostics \/ CallOther
            \/ \E tagged, readable \in BOOLEAN : ResponseInterceptor(tagged, readable)
            \/ ToolTick
-----------------------------------------------------------------------------
Token == [key : -1..MaxEdits, life : 0..TokenTtl]

ToolTypeOK ==
    /\ client \in Clients
    /\ registry \in [Scopes -> Record]
    /\ lapsed \in 0..AnswerAge
    /\ config \in [enabled : BOOLEAN, off : 0..PolicyAge, up : BOOLEAN, out : 0..AnswerAge]
    /\ known \in [enabled : BOOLEAN, ttl : 0..PolicyTtl]
    /\ key \in [version : 0..MaxEdits, age : 0..KeyAge, up : BOOLEAN]
    /\ gateKey \in [version : -1..MaxEdits, ttl : -1..KeyTtl, shared : BOOLEAN]
    /\ toolKey \in [version : -1..MaxEdits, ttl : 0..KeyTtl]
    /\ store \in [state : {"none", "INPROGRESS", "COMPLETED"}, code : 0..500, token : Token,
                  ttl : 0..TokenTtl]
    /\ msg \in [pc : {"idle", "received", "processing", "crashed", "forwarded", "responding",
                      "answered"},
                method : {"none", "tools/call", "tools/list"}, keyed : BOOLEAN, code : 0..500,
                token : Token,
                body : DiagnosticsOutcome \cup {"none", "denied", "listed", "hidden", "byPayload",
                                               "redacted", "unchanged"}]
    /\ edits \in 0..MaxEdits
=============================================================================
