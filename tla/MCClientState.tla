---------------------------- MODULE MCClientState ----------------------------
EXTENDS ClientState, TLC

(* Two jobs, one in each of two sessions.                                   *)
JobOwners == [j \in Jobs |-> IF j = "j1" THEN "s1" ELSE "s2"]

(* The models of the provider p alone, or with those of a relay, of which   *)
(* two have one bare name; one model lists no tiers of its own.             *)
Bare == [id \in {"pro", "x/pro", "y/pro", "flash"} |-> IF id = "flash" THEN id ELSE "pro"]
Own == <<[provider |-> "p", id |-> "pro", tiers |-> <<"off", "high", "max">>],
         [provider |-> "p", id |-> "flash", tiers |-> <<"off", "high">>]>>
Relayed == Own \o <<[provider |-> "relay", id |-> "x/pro", tiers |-> <<>>],
                    [provider |-> "relay", id |-> "y/pro", tiers |-> <<"max">>]>>
Has(model, tier) == [provider |-> "p", model |-> model, effort |-> tier, preset |-> "code", auto |-> FALSE]
Says(s, busy, current, catalog) ==
  [session |-> s, connected |-> TRUE, busy |-> busy, current |-> current, catalog |-> catalog,
   presets |-> <<"code", "plan">>, broken |-> {}, experimental |-> FALSE]
Said == [
  full |-> Says("a", FALSE, Has("pro", "high"), Relayed),
  running |-> Says("a", TRUE, Has("pro", "high"), Relayed),
  maximal |-> Says("a", FALSE, Has("pro", "max"), Relayed),
  own |-> Says("a", FALSE, Has("pro", "high"), Own),
  loading |-> Says("a", FALSE, Has("pro", "high"), <<>>),
  away |-> [Says("a", FALSE, Has("pro", "high"), Relayed) EXCEPT !.connected = FALSE],
  broken |-> [Says("a", FALSE, Has("pro", "high"), Own) EXCEPT !.broken = {"plan"}],
  automatic |-> [Says("a", FALSE, Has("flash", "high"), Own) EXCEPT !.experimental = TRUE],
  other |-> Says("b", FALSE, Has("flash", "off"), Own) ]
SourceList == <<"p", "relay">>
FirstModels == <<"flash", "pro">>
AllTiers == <<"off", "high", "max">>
Searched == {DOMAIN Bare, {"pro", "flash"}}
=============================================================================
