------------------------------ MODULE MCAccess ------------------------------
(* Two tenants, one caller of each kind: users with no role, each role the   *)
(* checks name, in a tenant and in the platform's; machines with both shapes *)
(* of authoriser event.                                                      *)
EXTENDS Access

User(t, roles) == [kind |-> "user", tenant |-> t, roles |-> roles, event |-> "TOKEN"]
Machine(event) == [kind |-> "machine", tenant |-> NoTenant, roles |-> {}, event |-> event]

MCActors == {User("t1", roles) : roles \in {{}, {"SelfService.Admin"}, {"Platform.Operator"},
                                            {"Platform.Admin"}}}
            \cup {User(Platform, {"Platform.Operator"}), User(Platform, {"Platform.Admin"}),
                  User(NoTenant, {"Platform.Admin"}),
                  Machine("TOKEN"), Machine("REQUEST")}

MCRoutes == [op : {"list", "quota", "failover", "ops", "registerAgent", "tokenRefresh",
                   "keepalive"}, target : {NoTenant}]
            \cup [op : {"rotate"}, target : Tenants]
            \cup [op : {"update"}, target : {"t2"}]
            \cup [op : {"auditExport", "listInvites"}, target : {"t1"}]
            \cup [op : {"read"}, target : {Platform}]

Caller(t, operator, tier, diagnostics) ==
    [tenant |-> t, operator |-> operator, tier |-> tier, diagnostics |-> diagnostics]

MCClients == {Caller("t1", TRUE, "premium", TRUE), Caller("t1", FALSE, "basic", FALSE)}
=============================================================================
