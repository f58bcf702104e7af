------------------------- MODULE MCMessagingIngress -------------------------
EXTENDS MessagingIngress, TLC

Msg(text, form_reply, action, card) ==
    [from |-> "user", chat |-> "c1", to |-> "c1", text |-> text, form_reply |-> form_reply, action |-> action,
     card |-> card, token |-> None]
Plain(text) == Msg(text, FALSE, None, None)
OfBot == [Plain("hi") EXCEPT !.from = "bot"]
NoChatId(e) == [e EXCEPT !.chat = None]
Saved(text) == [Msg(None, FALSE, "save_token", None) EXCEPT !.token = text]

On(provider, t, es) == [tenant : {t}, provider : {provider}, envelopes : es]
Telegram == "messaging-telegram"

(* acme has an app flow and cards, beta has no pack, gamma a welcome card;  *)
(* all talk to one chat.                                                    *)
ThreeTenants ==
    "acme" :> [pack |-> TRUE, flow |-> TRUE, welcome |-> FALSE, cards |-> TRUE] @@
    "beta" :> [pack |-> FALSE, flow |-> FALSE, welcome |-> FALSE, cards |-> FALSE] @@
    "gamma" :> [pack |-> TRUE, flow |-> FALSE, welcome |-> TRUE, cards |-> FALSE]

Nothing == [r \in Reqs |-> {}]

(* A form is asked for, and two messages race to answer it.                 *)
Racing ==
    [token |-> FALSE,
     posts |-> [Nothing EXCEPT
       !["r1"] = On(Telegram, "acme", {<<NoChatId(Msg(None, FALSE, None, "GH-oauth-personal")), OfBot>>,
                                      <<Msg("hi", FALSE, None, "other")>>}),
       !["r2"] = On(Telegram, "acme", {<<Plain("t1"), Msg(None, FALSE, "mcp", None)>>,
                                      <<Msg(None, TRUE, None, "GH-connected")>>}),
       !["r3"] = On(Telegram, "beta", {<<Msg("t2", TRUE, None, None)>>, <<Saved("t1")>>})
                 \cup On("messaging-webchat", "gamma", {<<Plain("hi")>>})]]

(* Two threads, several messages each. *)
Long ==
    [token |-> TRUE,
     posts |-> [Nothing EXCEPT
       !["r1"] = On(Telegram, "acme", {<<Msg("hi", FALSE, None, "other"), Plain("hi")>>}),
       !["r2"] = On(Telegram, "acme", {<<Plain("t1"), OfBot, Msg(None, TRUE, "mcp", None)>>})]]

AllCasts == {Racing, Long}
=============================================================================
