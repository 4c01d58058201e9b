--------------------------- MODULE MCMcpManager ---------------------------
(* Instances of McpManager for TLC. *)
EXTENDS McpManager

\* "__" is also part of a name: a's tool b__x and a__b's tool x have the same one.
MCServers == <<<<"a">>, <<"a", "__", "b">>>>

MCOffers == {{<<"x">>}, {<<"x">>, <<"b", "__", "x">>}}
=============================================================================
