---------------------------- MODULE MCRefreshFlow ----------------------------
(* Everything that refreshes meets on one account; a batch has two items; two *)
(* recoveries ask for the one permit.                                         *)
EXTENDS RefreshFlow

SmallLoads == {{"loop", "batch", "recover", "again"} \X {"a1"},
               {<<"batch", "a1">>, <<"batch", "a2">>, <<"recover", "a1">>},
               {<<"recover", "a1">>, <<"recover", "a2">>, <<"loop", "a2">>}}
=============================================================================
