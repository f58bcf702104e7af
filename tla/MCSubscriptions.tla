-------------------------- MODULE MCSubscriptions --------------------------
EXTENDS Subscriptions, TLC

C(ops, tenants, bindings, users) == [op : ops, tenant : tenants, binding : bindings, user : users]

(* Two bindings are set up, then renewals and a deletion run against each   *)
(* other and against another ensure.                                        *)
MixedCommands ==
    "setup1" :> C({"ensure"}, {"acme"}, {"b1"}, {"alice"}) @@
    "setup2" :> C({"ensure"}, {"beta"}, {"b1", "b2"}, {"bob", None}) @@
    "pass" :> C({"renew_due"}, {"acme"}, {"b1"}, {None}) @@
    "manual" :> (C({"renew_one"}, {"beta"}, {"b2"}, {None}) \cup C({"delete", "ensure"}, {"acme"}, {"b1"}, {None}))
=============================================================================
