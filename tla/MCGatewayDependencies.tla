----------------------- MODULE MCGatewayDependencies -----------------------
(* GatewayDependencies for TLC: two callers, who both claim the key. *)
EXTENDS GatewayDependencies, TLC

CONSTANTS c1, c2

MCCallers == {c1, c2}
MCUses == c1 :> {"set", "hgetall", "opa"} @@ c2 :> {"set", "lrange", "lua"}
=============================================================================
