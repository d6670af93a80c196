----------------------------- MODULE MCBuilders -----------------------------
(* Addresses of both families, one with an octet like 010 and two with a    *)
(* prefix that does not fit; peers that one of the two checks refuses.      *)
EXTENDS Builders

Address(family, prefix, lax) == [family |-> family, prefix |-> prefix, lax |-> lax]
MCAddresses ==
    {Address("ipv4", 24, FALSE), Address("ipv4", 24, TRUE), Address("ipv4", 33, FALSE),
     Address("ipv4", None, FALSE), Address("ipv6", 64, FALSE)}
MCServers ==
    {[family |-> "ipv4", lax |-> FALSE], [family |-> "ipv4", lax |-> TRUE],
     [family |-> "ipv6", lax |-> FALSE]}
Peer(key, gateway, allowed, keepalive) ==
    [key |-> key, gateway |-> gateway, allowed |-> allowed, keepalive |-> keepalive]
MCPeers ==
    {Peer("exact", "host:51820", <<Address("ipv4", 0, FALSE)>>, 25),
     Peer("exact", "[v6]:51820", <<Address("ipv6", 0, FALSE), Address("ipv4", 8, TRUE)>>, None),
     Peer("near", "host:51820", <<Address("ipv4", 0, FALSE)>>, None),
     Peer("exact", "host:0", <<Address("ipv4", 0, FALSE)>>, None),
     Peer("exact", "host:51820", <<>>, None),
     Peer("exact", "host:51820", <<Address("ipv4", 33, FALSE)>>, 0)}
=============================================================================
