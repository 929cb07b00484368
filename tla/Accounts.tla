------------------------------ MODULE Accounts ------------------------------
(***************************************************************************)
(* Organizations, their tenants and a tenant's environment: the rows whose *)
(* status decides whether a credential of the tenant is accepted.          *)
(*                                                                         *)
(* Every operation is one UPDATE with its conditions in the WHERE clause;  *)
(* when no row matches, the service answers NotFound and nothing changes.  *)
(* Names, tags and the other descriptive columns are left out, and with    *)
(* them the updates that touch nothing else.                               *)
(***************************************************************************)
CONSTANTS
    Orgs, Tenants,
    OrgOf,     \* the organization of each tenant
    Platform   \* the caller of an admin route: not scoped to an organization

VARIABLES
    org,       \* the organizations table
    tenant,    \* the tenants table
    env        \* status of each tenant's environment

accounts == <<org, tenant, env>>

Statuses == {"none", "active", "suspended", "inactive"}
AccountRows == [status: Statuses, deleted: BOOLEAN]
NoAccount == [status |-> "none", deleted |-> FALSE]
NewAccount == [status |-> "active", deleted |-> FALSE]

Listed(r) == r.status # "none" /\ ~r.deleted
\* A scoped statement matches only rows of the caller's own organization.
InScope(caller, o) == caller \in {Platform, o}

AccountsTypeOK ==
    /\ org \in [Orgs -> AccountRows]
    /\ tenant \in [Tenants -> AccountRows]
    /\ env \in [Tenants -> {"none", "active", "disabled"}]

AccountsInit ==
    /\ org = [o \in Orgs |-> NoAccount]
    /\ tenant = [t \in Tenants |-> NoAccount]
    /\ env = [t \in Tenants |-> "none"]

\* The first three INSERTs of the bootstrap transaction.
BootstrapAccounts(t) ==
    /\ org[OrgOf[t]].status = "none" /\ tenant[t].status = "none"
    /\ org' = [org EXCEPT ![OrgOf[t]] = NewAccount]
    /\ tenant' = [tenant EXCEPT ![t] = NewAccount]
    /\ env' = [env EXCEPT ![t] = "active"]

SetOrg(o, r) == org' = [org EXCEPT ![o] = r] /\ UNCHANGED <<tenant, env>>
SetTenant(t, r) == tenant' = [tenant EXCEPT ![t] = r] /\ UNCHANGED <<org, env>>
SetEnv(t, s) == env' = [env EXCEPT ![t] = s] /\ UNCHANGED <<org, tenant>>

\* organizations
DeletedOrg(r) == [status |-> "inactive", deleted |-> TRUE]
DeleteOrg(o) == Listed(org[o]) /\ SetOrg(o, DeletedOrg(org[o]))

Suspends(caller, o) == InScope(caller, o) /\ org[o].status = "active" /\ ~org[o].deleted
SuspendOrg(caller, o) == Suspends(caller, o) /\ SetOrg(o, [org[o] EXCEPT !.status = "suspended"])

\* No condition but the id: a suspended organization is restored as well.
RestoredOrg(r) == [status |-> "active", deleted |-> FALSE]
RestoreOrg(o) == org[o].status # "none" /\ SetOrg(o, RestoredOrg(org[o]))

\* tenants
CreateTenant(t) == org[OrgOf[t]].status # "none" /\ tenant[t].status = "none" /\ SetTenant(t, NewAccount)

DeletedTenant(r) == [status |-> "inactive", deleted |-> TRUE]
DeleteTenant(t) == Listed(tenant[t]) /\ SetTenant(t, DeletedTenant(tenant[t]))

SuspendsTenant(caller, t) == InScope(caller, OrgOf[t]) /\ tenant[t].status = "active" /\ ~tenant[t].deleted
SuspendTenant(caller, t) ==
    SuspendsTenant(caller, t) /\ SetTenant(t, [tenant[t] EXCEPT !.status = "suspended"])

Reactivates(caller, t) == InScope(caller, OrgOf[t]) /\ tenant[t].status = "suspended" /\ ~tenant[t].deleted
ReactivateTenant(caller, t) ==
    Reactivates(caller, t) /\ SetTenant(t, [tenant[t] EXCEPT !.status = "active"])

\* environments; set_status has no condition either
CreateEnvironment(t) == tenant[t].status # "none" /\ env[t] = "none" /\ SetEnv(t, "active")
WithEnvStatus(t, s) == env[t] # "none" /\ SetEnv(t, s)
EnableEnvironment(t) == WithEnvStatus(t, "active")
DisableEnvironment(t) == WithEnvStatus(t, "disabled")

AccountStep ==
    \/ \E o \in Orgs : DeleteOrg(o) \/ RestoreOrg(o) \/ \E c \in Orgs \cup {Platform} : SuspendOrg(c, o)
    \/ \E t \in Tenants : CreateTenant(t) \/ DeleteTenant(t)
    \/ \E t \in Tenants, c \in Orgs \cup {Platform} : SuspendTenant(c, t) \/ ReactivateTenant(c, t)
    \/ \E t \in Tenants : CreateEnvironment(t) \/ EnableEnvironment(t) \/ DisableEnvironment(t)
=============================================================================
