---------------------------- MODULE BundleFiles ----------------------------
(***************************************************************************)
(* What the requests and commands that set a bundle up share: the access    *)
(* maps of its tenants and teams, the manifests made from them, and the     *)
(* secrets.  A stored value is named by the process that stored it.         *)
(***************************************************************************)
EXTENDS Project

CONSTANTS Scopes,     \* the tenants and teams there may be
          Providers   \* the provider packs there may be

Old == "old"                   \* stored before the processes of the model began

VARIABLES dirs,      \* the scopes that have a directory under tenants/
          files,     \* those of them that have a gmap file
          gmap,      \* gmap[s]: what is in the file (nothing, if there is none)
          staged,    \* the scopes with a manifest in state/resolved/
          resolved,  \* the scopes with a manifest in resolved/
          secrets    \* secrets[<<s, provider>>]: who stored the values in the dev store

fileVars == <<dirs, files, gmap, staged, resolved, secrets>>

SecretKeys == {canonical_team(s) : s \in Scopes} \X Providers

=============================================================================
