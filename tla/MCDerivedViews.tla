--------------------------- MODULE MCDerivedViews ---------------------------
(* Two messages that one key may connect, and three configurations: the    *)
(* second has other rules and a view of threads before the view of the     *)
(* account, the third another name for that.                               *)
EXTENDS DerivedViews
MCConfigs ==
  {[rules |-> "linked", scopes |-> <<"account">>, names |-> [account |-> "all"]],
   [rules |-> "marked", scopes |-> <<"thread", "account">>,
    names |-> [thread |-> "threads", account |-> "all"]],
   [rules |-> "linked", scopes |-> <<"account">>, names |-> [account |-> "other"]]}
MCExtracted == {{<<1, "k">>, <<2, "mark">>}}
MCClaimable == {<<2, "k">>}
=============================================================================
