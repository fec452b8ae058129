-------------------------- MODULE OutboundClasses --------------------------
(***************************************************************************)
(* The classes of an outbound (web/assets/js/model/outbound.js), which     *)
(* have the names of those of an inbound but other fields in another order.*)
(***************************************************************************)
EXTENDS FormFields

\* TcpStreamSettings: host and path are written with a header of type http only; an
\* empty path, also that of a new object, is written as the default, "/".
Tcp ==
    [Class(<<"type", "host", "path">>,
           [type |-> "header.type", host |-> "header.Host", path |-> "header.path"],
           {"type", "path"}) EXCEPT !.gated = {"host", "path"}, !.orElse = {"path"}]

Kcp ==
    Class(<<"mtu", "tti", "upCap", "downCap", "cwndMultiplier", "maxSendingWindow">>,
          [upCap |-> "uplinkCapacity", downCap |-> "downlinkCapacity"],
          {"mtu", "tti", "upCap", "downCap", "cwndMultiplier", "maxSendingWindow"})

Ws == Plain(<<"path", "host", "heartbeatPeriod">>, {"path"})

Grpc == Plain(<<"serviceName", "authority", "multiMode">>, {})

HttpUpgrade == Plain(<<"path", "host">>, {"path"})

XHTTP ==
    Plain(<<"path", "host", "mode", "noGRPCHeader", "scMinPostsIntervalMs", "xmux">>,
          {"path", "scMinPostsIntervalMs", "xmux"})

\* A bug: fromJson passes the fingerprint where the constructor has the ALPN.
TlsMisread ==
    [Plain(<<"serverName", "alpn", "fingerprint", "echConfigList", "verifyPeerCertByName",
             "pinnedPeerCertSha256">>, {})
        EXCEPT !.reads = <<"serverName", "fingerprint", "alpn", "echConfigList",
                           "verifyPeerCertByName", "pinnedPeerCertSha256">>]

Tls ==
    Plain(<<"serverName", "alpn", "fingerprint", "echConfigList", "verifyPeerCertByName",
            "pinnedPeerCertSha256">>, {})

Reality ==
    Plain(<<"publicKey", "fingerprint", "serverName", "shortId", "spiderX",
            "mldsa65Verify">>, {})

\* HysteriaStreamSettings: the hop is one object, written when it has a port.
Hysteria ==
    [Class(<<"version", "auth", "congestion", "up", "down", "udphopPort",
             "udphopIntervalMin", "udphopIntervalMax",
             "initStreamReceiveWindow", "maxStreamReceiveWindow",
             "initConnectionReceiveWindow", "maxConnectionReceiveWindow",
             "maxIdleTimeout", "keepAlivePeriod", "disablePathMTUDiscovery">>,
           [udphopPort        |-> "udphop.port",
            udphopIntervalMin |-> "udphop.intervalMin",
            udphopIntervalMax |-> "udphop.intervalMax"],
           {"version", "up", "down", "udphopIntervalMin", "udphopIntervalMax",
            "initStreamReceiveWindow", "maxStreamReceiveWindow",
            "initConnectionReceiveWindow", "maxConnectionReceiveWindow",
            "maxIdleTimeout", "keepAlivePeriod"})
        EXCEPT !.gated = {"udphopIntervalMin", "udphopIntervalMax"},
               !.orElse = {"udphopIntervalMin", "udphopIntervalMax"},
               !.ifSet = {"udphopPort"}]

Sockopt ==
    [Plain(<<"dialerProxy", "tcpFastOpen", "tcpKeepAliveInterval", "tcpMptcp", "penetrate",
             "addressPortStrategy", "trustedXForwardedFor">>, {"addressPortStrategy"})
        EXCEPT !.ifSet = {"trustedXForwardedFor"}]

\* Mux, which toJson writes whole, and only when it is enabled.
Mux ==
    [Plain(<<"enabled", "concurrency", "xudpConcurrency", "xudpProxyUDP443">>,
           {"concurrency", "xudpConcurrency", "xudpProxyUDP443"}) EXCEPT !.needs = {"enabled"}]

FreedomSettings ==
    [Plain(<<"domainStrategy", "redirect", "fragment", "noises", "finalRules">>, {})
        EXCEPT !.ifSet = {"domainStrategy", "redirect", "fragment", "noises", "finalRules"}]

Fragment == Plain(<<"packets", "length", "interval", "maxSplit">>, {"packets"})

Noise == Plain(<<"type", "packet", "delay", "applyTo">>, {"type", "packet", "delay", "applyTo"})

\* FinalRule: the delay is written only with the action block.
FinalRule ==
    [Plain(<<"action", "network", "port", "ip", "blockDelay">>, {"action"})
        EXCEPT !.ifSet = {"network", "port", "ip", "blockDelay"}, !.gated = {"blockDelay"},
               !.orElse = {"action"}]

BlackholeSettings ==
    [Class(<<"type">>, [type |-> "response.type"], {}) EXCEPT !.ifSet = {"type"}]

DNSRule ==
    [Plain(<<"action", "qtype", "domain">>, {"action"})
        EXCEPT !.ifSet = {"qtype", "domain"}, !.orElse = {"action"}]

DNSSettings ==
    [Plain(<<"network", "address", "port", "rules">>, {"network", "port"})
        EXCEPT !.ifSet = {"rules"}]

VmessSettings == Plain(<<"address", "port", "id", "security">>, {})

\* VLESSSettings is a new one when there is no address or no port; the fields of
\* Vision are written with a flow only.
VLESSSettings ==
    [Class(<<"address", "port", "id", "flow", "encryption", "reverseTag", "testpre",
             "testseed">>, [reverseTag |-> "reverse.tag"], {"testseed"})
        EXCEPT !.needs = {"address", "port"}, !.ifSet = {"reverseTag", "testpre"},
               !.gated = {"testpre", "testseed"}]

TrojanSettings == Plain(<<"address", "port", "password">>, {})

ShadowsocksSettings ==
    Plain(<<"address", "port", "password", "method", "uot", "UoTVersion">>, {})

\* SocksSettings and HttpSettings: without a user the password is not written.
SocksSettings ==
    [Plain(<<"address", "port", "user", "pass">>, {}) EXCEPT !.gated = {"pass"}]

HttpSettings ==
    [Plain(<<"address", "port", "user", "pass">>, {}) EXCEPT !.gated = {"pass"}]

\* A strategy that is none of WireguardDomainStrategy is not written.
WireguardSettings ==
    [Plain(<<"mtu", "secretKey", "address", "workers", "domainStrategy", "reserved",
             "peers", "noKernelTun">>, {"mtu", "workers", "peers"})
        EXCEPT !.ifSet = {"mtu", "workers", "domainStrategy", "reserved"}]

WireguardPeer ==
    [Class(<<"publicKey", "psk", "allowedIPs", "endpoint", "keepAlive">>,
           [psk |-> "preSharedKey"], {"allowedIPs"}) EXCEPT !.ifSet = {"psk", "keepAlive"}]

HysteriaSettings == Plain(<<"address", "port", "version">>, {"port", "version"})

Table ==
    [Tcp |-> Tcp, Kcp |-> Kcp, Ws |-> Ws, Grpc |-> Grpc, HttpUpgrade |-> HttpUpgrade,
     XHTTP |-> XHTTP, Tls |-> Tls, Reality |-> Reality, Hysteria |-> Hysteria,
     Sockopt |-> Sockopt, Mux |-> Mux, FreedomSettings |-> FreedomSettings,
     Fragment |-> Fragment, Noise |-> Noise, FinalRule |-> FinalRule,
     BlackholeSettings |-> BlackholeSettings, DNSRule |-> DNSRule,
     DNSSettings |-> DNSSettings, VmessSettings |-> VmessSettings,
     VLESSSettings |-> VLESSSettings, TrojanSettings |-> TrojanSettings,
     ShadowsocksSettings |-> ShadowsocksSettings, SocksSettings |-> SocksSettings,
     HttpSettings |-> HttpSettings, WireguardSettings |-> WireguardSettings,
     WireguardPeer |-> WireguardPeer, HysteriaSettings |-> HysteriaSettings]

\* The conditions on which toJson writes the gated fields of a form of class c.
Gate(c, form) ==
    CASE c = "Tcp"           -> form.type # "default"
      [] c = "Hysteria"      -> form.udphopPort # "empty"
      [] c = "FinalRule"     -> form.action = "default"
      [] c = "VLESSSettings" -> form.flow # "empty"
      [] c \in {"SocksSettings", "HttpSettings"} -> form.user # "empty"
      [] OTHER -> FALSE
===========================================================================
