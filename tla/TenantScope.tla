----------------------------- MODULE TenantScope -----------------------------
(***************************************************************************)
(* What a tenant sees and owns (app/db/tenant_filter.py, db/mixins.py).    *)
(*                                                                         *)
(* A hook adds the tenant to each SELECT of a session, a guard does the    *)
(* same for rows a session has cached, and new rows are stamped when they  *)
(* are flushed.  Rows from before there were tenants have none.            *)
(***************************************************************************)
CONSTANTS
    Tenants,
    NoTenant        \* NULL: no tenant bound, or a row of none

ASSUME TenantAssumption == NoTenant \notin Tenants

\* _apply_tenant and the guard of Session.get.  Without a tenant (migrations,
\* the worker before it binds a job) everything is seen.
Visible(tenant, rows) ==
    IF tenant = NoTenant THEN rows ELSE {r \in rows : r.tenant = tenant}

\* _stamp_tenant.
Stamped(tenant, row) ==
    IF row.tenant = NoTenant THEN [row EXCEPT !.tenant = tenant] ELSE row

\* assign_legacy: the rows without a tenant get one.
Assigned(tenant, rows) == {Stamped(tenant, r) : r \in rows}

=============================================================================
