--------------------------- MODULE MCSendPipeline ---------------------------
(* Bodies for TLC: the .cfg files choose among them by name. *)
EXTENDS SendPipeline, TLC

WsText    == {<<"text">>}
WsMedia   == {<<"image">>}
CardLists == {<<"mini_program", "text">>, <<"mini_program", "bad_card">>}
NoBodies  == {}
=============================================================================
