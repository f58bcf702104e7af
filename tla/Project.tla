------------------------------ MODULE Project ------------------------------
(***************************************************************************)
(* The layout of a bundle, src/project/: tenants and teams, their access    *)
(* maps, and the manifests made from them.  A scope is <<tenant>> or        *)
(* <<tenant, team>>.                                                        *)
(***************************************************************************)
EXTENDS Gmap

None == "none"
DefaultTeam == "default"

Tenant(s) == <<s[1]>>

(* The directories on the way to a scope's own are made with it. *)
WithDir(ds, s) == ds \union {s, Tenant(s)}

(* scan_tenants and resolve: a manifest for each team, and for a tenant that has none. *)
TeamsOf(t, ds) == {s \in ds : Len(s) = 2 /\ Tenant(s) = t}

ManifestScopes(ds) == {s \in ds : Len(s) = 2 \/ TeamsOf(s, ds) = {}}

(* Manifests of scopes that are gone are left where they are. *)
sync_project(staged, ds) == staged \union ManifestScopes(ds)

(* canonical_team: `default`, blank and no team at all are one place in the store. *)
canonical_team(s) == IF Len(s) = 2 /\ s[2] = DefaultTeam THEN Tenant(s) ELSE s

=============================================================================
