---------------------------- MODULE MCOpPipeline ----------------------------
(* A bundle with a token validator that needs setup, a card capability,     *)
(* two pre-hooks and two post-hooks, a capability with two offers, and a    *)
(* capability and a provider operation named like the validator's.          *)
EXTENDS OpPipeline

MCTenants == {"acme", "beta"}
MCOpNames == {"send", "auth", "resolve", "cap:x", "cap:token", "cap:token2", "cap:card", "cap:broker",
              "cap:pre", "cap:post"}
MCCaps == {"x", "token", "token2", "card", "broker", "pre", "post"}
MCCapOpName == [c \in MCCaps |-> CHOOSE n \in MCOpNames :
                 <<c, n>> \in {<<"x", "cap:x">>, <<"token", "cap:token">>, <<"token2", "cap:token2">>,
                               <<"card", "cap:card">>,
                               <<"broker", "cap:broker">>, <<"pre", "cap:pre">>, <<"post", "cap:post">>}]

O(c, p, s, n, ts, ops, setup) ==
    [cap |-> c, priority |-> p, stable_id |-> s, pos |-> n, tenants |-> ts, ops |-> ops,
     requires_setup |-> setup]

MCOfferSeq == << O("token", 0, 1, 1, {"acme"}, {}, TRUE),
                 O("card", 0, 2, 2, {}, {"resolve"}, FALSE),
                 O("pre", 1, 3, 3, {}, {}, FALSE),
                 O("pre", 0, 4, 4, {}, {"send"}, FALSE),
                 O("post", 0, 5, 5, {}, {"send"}, FALSE),
                 O("post", 0, 6, 6, {}, {"cap:x"}, FALSE),
                 O("x", 0, 7, 7, {"acme"}, {}, TRUE),
                 O("x", 0, 7, 8, {}, {}, FALSE),
                 O("broker", 0, 8, 9, {}, {}, FALSE),
                 O("token2", 0, 9, 10, {}, {}, FALSE) >>
MCOffers == DOMAIN MCOfferSeq
MCOffer == MCOfferSeq

MCRewrites == {[op_name |-> "send", status |-> "ok", tenant |-> "beta"]}

MCMarkCommands == {"acme"} \X {"token", "x"} \X {"ready", "failed"}

MCRequests ==
    [kind : {"provider"}, cap : {"x"}, op : {"send"}, tenant : {"acme"}, bearer : BOOLEAN,
     route : {"flow", "card_flow", "component", "absent"}]
    \cup [kind : {"provider"}, cap : {"x"}, op : {"cap:token2"}, tenant : {"acme"}, bearer : {TRUE},
          route : {"component"}]
    \cup [kind : {"capability"}, cap : {"x", "token", "token2"}, op : {"", "auth"}, tenant : {"acme", "beta"},
          bearer : BOOLEAN, route : {"component"}]
    \cup [kind : {"capability"}, cap : {"broker"}, op : {"", "auth", "send"}, tenant : {"beta"},
          bearer : {FALSE}, route : {"component"}]
=============================================================================
