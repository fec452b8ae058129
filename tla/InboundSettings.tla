-------------------------- MODULE InboundSettings --------------------------
(***************************************************************************)
(* The classes of an inbound's settings and of its clients, one for each   *)
(* protocol (web/assets/js/model/inbound.js).                              *)
(***************************************************************************)
EXTENDS FormFields

\* ClientBase: what every client has after the fields of its own protocol.
ClientBase ==
    <<"email", "limitIp", "totalGB", "expiryTime", "enable", "tgId", "subId",
      "comment", "reset", "created_at", "updated_at">>

ClientClass(own, full) == Plain(own \o ClientBase, full \cup {"email", "enable", "subId"})

VmessSettings == Class(<<"vmesses">>, [vmesses |-> "clients"], {"vmesses"})

VMESS == [ClientClass(<<"id", "security">>, {"id", "security"}) EXCEPT !.texts = {"id"}]

\* The seed is written only when a client has a flow.
VLESSSettings ==
    [Class(<<"vlesses", "decryption", "encryption", "fallbacks", "selectedAuth",
             "testseed">>,
           [vlesses |-> "clients"], {"vlesses", "decryption", "encryption", "testseed"})
        EXCEPT !.ifSet = {"decryption", "encryption", "fallbacks", "selectedAuth"},
               !.gated = {"testseed"}]

VLESS ==
    [Class(<<"id", "flow", "reverseTag">> \o ClientBase, [reverseTag |-> "reverse.tag"],
           {"id", "email", "enable", "subId"})
        EXCEPT !.ifSet = {"reverseTag"}, !.texts = {"id"}]

VLESSFallback == Plain(<<"name", "alpn", "path", "dest", "xver">>, {})

TrojanSettings == Class(<<"trojans", "fallbacks">>, [trojans |-> "clients"], {"trojans"})

Trojan == [ClientClass(<<"password">>, {"password"}) EXCEPT !.texts = {"password"}]

TrojanFallback == Plain(<<"name", "alpn", "path", "dest", "xver">>, {})

ShadowsocksSettings ==
    [Class(<<"method", "password", "network", "shadowsockses", "ivCheck">>,
           [shadowsockses |-> "clients"], {"method", "password", "network", "shadowsockses"})
        EXCEPT !.texts = {"password"}]

Shadowsocks ==
    [ClientClass(<<"method", "password">>, {"password"}) EXCEPT !.texts = {"password"}]

HysteriaSettings == Class(<<"version", "hysterias">>, [hysterias |-> "clients"],
                          {"version", "hysterias"})

HysteriaClient == [ClientClass(<<"auth">>, {"auth"}) EXCEPT !.texts = {"auth"}]

TunnelSettings ==
    [Plain(<<"address", "port", "portMap", "network", "followRedirect">>, {"network"})
        EXCEPT !.headers = {"portMap"}, !.maps = {"portMap"}]

\* MixedSettings and HttpSettings also read the accounts of rows that have not been
\* migrated; the panel migrates them when it starts.
MixedSettings ==
    [Plain(<<"clients", "auth", "udp", "ip">>, {"clients", "auth", "ip"})
        EXCEPT !.orElse = {"auth", "ip"}]

MixedClient ==
    Plain(<<"email", "password">> \o Tail(ClientBase), {"email", "password", "enable", "subId"})

HttpSettings == Plain(<<"clients", "allowTransparent">>, {"clients"})

HttpClient ==
    Plain(<<"email", "password">> \o Tail(ClientBase), {"email", "password", "enable", "subId"})

\* pubKey is computed from secretKey.
WireguardSettings ==
    [Plain(<<"mtu", "secretKey", "peers", "noKernelTun">>, {"mtu", "secretKey", "peers"})
        EXCEPT !.ifNull = {"mtu"}]

\* Without a public key the constructor draws a new pair.  An address without a mask
\* gets one; that is not told apart here.
WireguardPeer ==
    [Class(<<"privateKey", "publicKey", "psk", "allowedIPs", "keepAlive">>,
           [psk |-> "preSharedKey"], {"privateKey", "publicKey", "allowedIPs"})
        EXCEPT !.lead = {"publicKey"}, !.pair = {"publicKey", "privateKey"},
               !.ifSet = {"psk", "keepAlive"}]

TunSettings ==
    [Plain(<<"name", "mtu", "gateway", "dns", "userLevel", "autoSystemRoutingTable",
             "autoOutboundsInterface">>, {"name", "mtu", "autoOutboundsInterface"})
        EXCEPT !.orElse = {"name", "mtu"}]

\* The tag is written only with routeThroughXray.
MtprotoSettings ==
    [Plain(<<"clients", "fakeTlsDomain", "routeThroughXray", "outboundTag">>,
           {"clients", "fakeTlsDomain"}) EXCEPT !.gated = {"outboundTag"}]

\* id is no parameter of the constructor: fromJson sets it afterwards.
MtprotoClient == ClientClass(<<"secret", "id">>, {})
===========================================================================
