----------------------------- MODULE MCHttpServer -----------------------------
EXTENDS HttpServer

Offer(id, kind, priority) ==
    [id |-> id, kind |-> kind, cap_id |-> FALSE, op |-> TRUE, priority |-> priority,
     stage |-> "post_ingress", contract |-> "control"]

(* Two packs with hooks, one of them with other offers too, a third file    *)
(* with the pack id of the first, and a malformed one.  The others have     *)
(* mounts and no offers.                                                    *)
ThePacks ==
    <<[pack_id |-> "p", offers |-> <<Offer(1, "hook", NoCode)>>],
      [pack_id |-> "q", offers |-> <<Offer(2, "hook", 100), Offer(3, "hook", 5), Offer(4, "subs", 1),
                                     [Offer(5, None, 1) EXCEPT !.cap_id = TRUE]>>],
      [pack_id |-> "p", offers |-> <<Offer(1, "hook", 7)>>],
      [pack_id |-> "r", offers |-> <<Offer(1, "hook", 7), Offer(1, "subs", 7)>>]>>
    \o [f \in 1..11 |-> [pack_id |-> <<"a", "b", "c", "d", "e", "f", "g", "h", "i", "j", "k">>[f], offers |-> <<>>]]

Mounted(path, tenant, team) ==
    [path |-> path, tenant |-> tenant, team |-> team, index |-> <<"index">>, fallback |-> <<>>]
One(route) == [ok |-> TRUE, routes |-> <<route>>]
NoStatics == [ok |-> TRUE, routes |-> <<>>]

TheStatics ==
    [f \in 1..4 |-> NoStatics] \o
    <<One(Mounted(<<"docs", "acme">>, FALSE, FALSE)),
      One([Mounted(<<"docs", "{tenant}">>, TRUE, FALSE) EXCEPT !.fallback = <<"app">>]),
      One(Mounted(<<"{tenant}">>, TRUE, FALSE)),
      One(Mounted(<<"docs", "{tenant}", "{team}">>, TRUE, TRUE)),
      [ok |-> TRUE, routes |-> <<[Mounted(<<"docs", "", "beta">>, FALSE, FALSE) EXCEPT !.index = <<>>]>>],
      One(Mounted(<<"docs">>, TRUE, FALSE)),
      One(Mounted(<<"api", "onboard", "ui">>, FALSE, FALSE)),
      [ok |-> FALSE, routes |-> <<>>],
      One(Mounted(<<"messaging">>, FALSE, FALSE)),
      One(Mounted(<<"docs", "", "{tenant}">>, TRUE, FALSE)),
      One(Mounted(<<"docs", "~new">>, FALSE, FALSE))>>

TheFiles == [f \in 1..15 |-> {<<"index">>, <<"app">>, <<"app", "index">>}]

TheRank ==
    [s \in {"", "..", "acme", "api", "app", "beta", "docs", "messaging", "onboard", "ui", "{team}", "{tenant}",
          "~new"} |->
       CASE s = "" -> 0 [] s = ".." -> 1 [] s = "acme" -> 2 [] s = "api" -> 3 [] s = "app" -> 4 [] s = "beta" -> 5
         [] s = "docs" -> 6 [] s = "messaging" -> 7 [] s = "onboard" -> 8 [] s = "ui" -> 9
         [] s = "{team}" -> 10 [] s = "{tenant}" -> 11 [] s = "~new" -> 12]

On(via, domain, es) == [via : {via}, domain : {domain}, entries : es]

Cli == On("cli", "messaging", {<<"message">>, <<"event", "message">>})
Events == On("server", "events", {<<"event", "event">>})
Messages == On("server", "messaging", {<<"message">>})

Req(method, path, dir, client) == [method |-> method, path |-> path, dir |-> dir, client |-> client]
Hook(domain, provider) == Req("POST", <<"v1", domain, "ingress", provider, "acme">>, FALSE, "remote")

Process(serves, posts, https, packs, event_hooks) ==
    [serves |-> serves, posts |-> posts, https |-> https, refs |-> packs, hooks |-> TRUE, event_hooks |-> event_hooks,
     domains |-> {"messaging", "events"}, providers |-> {<<"messaging", "slack">>, <<"events", "slack">>}]

(* Two webhooks, while packs of which two share an id come and go.          *)
Racing ==
    Process(TRUE, [r \in Reqs |-> IF r = "r1" THEN Events \cup Messages ELSE Messages],
            [r \in Reqs |-> IF r = "r1" THEN {Hook("events", "slack"), Hook("messaging", "slack")}
                            ELSE {Hook("messaging", "slack")}], {1, 2, 3}, TRUE)

(* With a malformed pack, and with hooks switched off for events.           *)
Malformed ==
    Process(TRUE, [r \in Reqs |-> Events \cup Messages],
            [r \in Reqs |-> {Hook("events", "slack"), Hook("messaging", "slack")}], {2, 4}, FALSE)

(* One request of the command line.                                         *)
Command ==
    Process(FALSE, [r \in Reqs |-> IF r = "r1" THEN Cli ELSE {}], [r \in Reqs |-> {}], {1, 2, 3, 4}, TRUE)

(* Requests of every kind, one after the other, to packs with mounts.       *)
Paths ==
    {<<>>, <<"acme">>, <<"docs">>, <<"docs", "acme">>, <<"docs", "acme", "app">>, <<"docs", "beta", "app">>,
     <<"docs", "beta", "ui">>, <<"docs", "beta", "..">>, <<"docs", "beta", "app", "..">>,
     <<"docs", "~new">>}

Browsing ==
    Process(TRUE, [r \in Reqs |-> {}],
            [r \in Reqs |-> IF r = "r1" THEN [method : {"GET"}, path : Paths, dir : BOOLEAN, client : {"remote"}] ELSE {}],
            {5, 6, 7, 8, 9, 10, 11, 12, 14, 15}, TRUE)

Control ==
    Process(TRUE, [r \in Reqs |-> Messages],
            [r \in Reqs |-> IF r = "r1"
               THEN {Req("OPTIONS", <<"docs">>, FALSE, "page"), Req("PUT", <<"docs">>, FALSE, "local"),
                     Req("GET", <<"api", "onboard", "status">>, FALSE, "remote"),
                     Req("GET", <<"api", "onboarding">>, FALSE, "remote"),
                     Hook("messaging", "teams"), Hook("oauth", "slack"), Hook("messaging", "slack")}
               ELSE [method : {"GET", "POST"}, client : Clients, dir : {FALSE},
                     path : {<<"deployments", "stage">>, <<"deployments", "stages">>, <<"deployments-ui">>}]], {7}, TRUE)

AllCasts == {Racing, Malformed, Command, Browsing, Control}

OneMessage ==
    {Process(TRUE, [r \in Reqs |-> Messages], [r \in Reqs |-> {Hook("messaging", "slack")}], {1}, FALSE)}

(* A pack with the mount /messaging. *)
OneMount ==
    {Process(TRUE, [r \in Reqs |-> Messages],
             [r \in Reqs |-> {Req("POST", <<"messaging", "ingress", "slack", "acme">>, FALSE, "remote")}], {13}, FALSE)}
=============================================================================
