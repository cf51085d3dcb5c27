---------------------------- MODULE MCDecisions ----------------------------
(***************************************************************************)
(* The repositories on which the pure decisions of ACKit are compared with *)
(* their reference definitions.                                            *)
(***************************************************************************)
EXTENDS PolicyLayers, RulePacks

MCPolicyFiles == {"ackit-policy", "team", "org"}
MCDefaultFile == "ackit-policy"
MCRuleIds == {"r", "s", "t", "u", "b"}

NoRules == [r \in {} |-> 0]
Rule(severity, enabled, locked) ==
  [r \in {"r"} |-> [severity |-> severity, enabled |-> enabled, locked |-> locked]]

Document(extends, rules) ==
  [extends |-> extends, named |-> FALSE, rules |-> rules, threshold |-> Unset, scopes |-> {},
   suppressions |-> {}, forbidden |-> {}, tier2 |-> Unset, required |-> {}, blocking |-> {}]

MCDocuments ==
  {Document(<<"team", "org">>, Rule("low", Unset, FALSE)),
   [Document(<<"team", "ackit-policy">>, Rule("low", Unset, FALSE)) EXCEPT !.tier2 = "allow"],
   [Document(<<>>, Rule("high", Unset, TRUE)) EXCEPT
      !.tier2 = "deny", !.blocking = {"critical"}],
   [Document(<<"org">>, Rule(Unset, "no", FALSE)) EXCEPT
      !.scopes = {"x"}, !.suppressions = {[rule |-> "r", paths |-> {"x", "y"}, expired |-> FALSE]},
      !.required = {"tests"}],
   [Document(<<>>, Rule("critical", "yes", FALSE)) EXCEPT
      !.suppressions = {[rule |-> "r", paths |-> {"x", "y"}, expired |-> TRUE]},
      !.tier2 = "ask", !.blocking = {"medium"}],
   [Document(<<>>, NoRules) EXCEPT !.named = TRUE, !.tier2 = "deny"]}

MCConfigurations ==
  {[extends |-> <<>>, tier2 |-> "allow", required |-> {}, blocking |-> {}],
   [extends |-> <<"org", "team">>, tier2 |-> Unset, required |-> {"tests"}, blocking |-> {}]}

MCReviewFindings ==
  {[covers |-> {"tests"}, severity |-> "info"], [covers |-> {}, severity |-> "warning"],
   [covers |-> {"tests"}, severity |-> "blocking"]}

Check(type, asks, severity, locked) ==
  [type |-> type, glob |-> {"x", "y"}, scope |-> {"x"}, asks |-> asks,
   severity |-> severity, enabled |-> Unset, locked |-> locked]
Globless(type) == [Check(type, Unset, Unset, FALSE) EXCEPT !.glob = NoGlob]
Override(namespace, severity, enabled, locked) ==
  [namespace |-> namespace, rule |-> "r", severity |-> severity, enabled |-> enabled, locked |-> locked]
Pack(extends, severity, rules, overrides) ==
  [packId |-> "pack", namespace |-> "ns", extends |-> extends, severity |-> severity,
   rules |-> rules, overrides |-> overrides]

MCPackFiles == 1 .. 3
MCPacks ==
  {Pack(<<2, 3>>, "low", [r |-> Check("presence", "p", Unset, FALSE)], <<>>),
   Pack(<<3, 1>>, "medium",
        [r |-> Check("presence", "p", "high", TRUE), s |-> Check("absence", "p", Unset, FALSE)],
        <<>>),
   Pack(<<>>, "high", [r |-> Check("pattern", "p", Unset, FALSE), t |-> Globless("presence")],
        <<Override(Unset, "low", Unset, "yes"), Override("ns", Unset, "no", Unset)>>),
   Pack(<<>>, "high",
        [s |-> Check("absence", "p", Unset, FALSE), b |-> Check("config", "p", Unset, FALSE),
         u |-> Globless("absence")],
        <<Override("other", "critical", "no", "no")>>),
   [Pack(<<1>>, "medium",
         [r |-> Check("dependency", "p", Unset, FALSE), t |-> Check("instruction", "p", Unset, FALSE)],
         <<Override("ns", "critical", Unset, "no")>>) EXCEPT !.namespace = "other"],
   [Pack(<<1>>, "medium", [s |-> Check("presence", "p", Unset, FALSE)], <<>>) EXCEPT !.packId = "other"]}
MCPackEntries == {<<>>, <<1, 2>>, <<3, 2, 1>>}
MCBuiltinIds == {"b"}
MCRepositories ==
  {[files |-> files, manifest |-> "valid", dependencies |-> {}, assertions |-> {"p"},
    graph |-> "built", nodes |-> {}] :
     files \in {[p \in {} |-> {}], [p \in {"y"} |-> {"p"}], [p \in {"x", "y"} |-> {"p"}]}}

=============================================================================
