--------------------------- MODULE InboundClasses ---------------------------
(***************************************************************************)
(* The classes of an inbound's stream settings (web/assets/js/model/       *)
(* inbound.js), one definition each: which field is read from which key,   *)
(* written to which, and what it is when it was not there.                 *)
(***************************************************************************)
EXTENDS FormFields

\* TcpStreamSettings; header.type decides whether request and response are written.
Tcp == Class(<<"acceptProxyProtocol", "type">>, [type |-> "header.type"], {"type"})

\* The headers of both keep every value of a name.
TcpRequest ==
    [Plain(<<"version", "method", "path", "headers">>, {"version", "method", "path"})
        EXCEPT !.orElse = {"path"}, !.headers = {"headers"}]

TcpResponse ==
    [Plain(<<"version", "status", "reason", "headers">>, {"version", "status", "reason"})
        EXCEPT !.headers = {"headers"}]

Kcp == Class(<<"mtu", "tti", "upCap", "downCap", "cwndMultiplier", "maxSendingWindow">>,
             [upCap |-> "uplinkCapacity", downCap |-> "downlinkCapacity"],
             {"mtu", "tti", "upCap", "downCap", "cwndMultiplier", "maxSendingWindow"})

\* A bug: fromJson passes host and path in the wrong order.
WsMisread ==
    [Plain(<<"acceptProxyProtocol", "path", "host", "headers", "heartbeatPeriod">>,
           {"path"})
        EXCEPT !.reads = <<"acceptProxyProtocol", "host", "path", "headers", "heartbeatPeriod">>,
               !.headers = {"headers"}, !.maps = {"headers"}]

Ws ==
    [Plain(<<"acceptProxyProtocol", "path", "host", "headers", "heartbeatPeriod">>,
           {"path"}) EXCEPT !.headers = {"headers"}, !.maps = {"headers"}]

Grpc == Plain(<<"serviceName", "authority", "multiMode">>, {})

HTTPUpgrade ==
    [Plain(<<"acceptProxyProtocol", "path", "host", "headers">>, {"path"})
        EXCEPT !.headers = {"headers"}, !.maps = {"headers"}]

XHTTP ==
    [Plain(<<"path", "host", "headers", "scMaxBufferedPosts",
             "scMaxEachPostBytes", "scStreamUpServerSecs", "noSSEHeader",
             "xPaddingBytes", "mode", "xPaddingObfsMode", "xPaddingKey",
             "xPaddingHeader", "xPaddingPlacement", "xPaddingMethod",
             "uplinkHTTPMethod", "sessionPlacement", "sessionKey",
             "seqPlacement", "seqKey", "uplinkDataPlacement",
             "uplinkDataKey", "uplinkChunkSize">>,
           {"path", "scMaxBufferedPosts", "scMaxEachPostBytes",
            "scStreamUpServerSecs", "xPaddingBytes", "mode"})
        EXCEPT !.headers = {"headers"}, !.maps = {"headers"}]

\* HysteriaStreamSettings: the constructor hands protocol to super(), which keeps
\* nothing, so it is read and never written.
Hysteria ==
    [Plain(<<"protocol", "version", "auth", "udpIdleTimeout">>,
           {"version", "udpIdleTimeout"})
        EXCEPT !.unwritten = {"protocol"}, !.unread = {"protocol"},
               !.ifNull = {"udpIdleTimeout"}, !.texts = {"auth"}]

HysteriaMasquerade ==
    [Plain(<<"type", "dir", "url", "rewriteHost", "insecure", "content",
             "headers", "statusCode">>, {"type"})
        EXCEPT !.headers = {"headers"}, !.maps = {"headers"}]

\* TlsStreamSettings: a list of certificates that is empty becomes one blank one.
Tls ==
    [Class(<<"sni", "minVersion", "maxVersion", "cipherSuites",
             "rejectUnknownSni", "disableSystemRoot", "enableSessionResumption",
             "certs", "alpn", "echServerKeys">>,
           [sni |-> "serverName", certs |-> "certificates"],
           {"minVersion", "maxVersion", "certs", "alpn"}) EXCEPT !.orElse = {"certs"}]

\* Cert, which has either the files or the contents: useFile is not written, the
\* presence of the keys of the files says which one it was.
CertFiles ==
    Class(<<"certFile", "keyFile", "oneTimeLoading", "usage", "buildChain">>,
          [certFile |-> "certificateFile"], {"usage"})

CertContents ==
    Class(<<"cert", "key", "oneTimeLoading", "usage", "buildChain">>,
          [cert |-> "certificate"], {"usage"})

TlsSettings == Plain(<<"fingerprint", "echConfigList">>, {"fingerprint"})

\* RealityStreamSettings: the default of target and serverNames is drawn at random.
Reality ==
    Plain(<<"show", "xver", "target", "serverNames", "privateKey", "minClientVer",
            "maxClientVer", "maxTimediff", "shortIds", "mldsa65Seed">>,
          {"target", "serverNames", "shortIds"})

RealitySettings ==
    Plain(<<"publicKey", "fingerprint", "serverName", "spiderX", "mldsa65Verify">>,
          {"fingerprint", "spiderX"})

Sockopt ==
    [Class(<<"acceptProxyProtocol", "tcpFastOpen", "mark", "tproxy", "tcpMptcp",
             "penetrate", "domainStrategy", "tcpMaxSeg", "dialerProxy",
             "tcpKeepAliveInterval", "tcpKeepAliveIdle", "tcpUserTimeout",
             "tcpcongestion", "V6Only", "tcpWindowClamp", "interfaceName",
             "trustedXForwardedFor">>,
           [interfaceName |-> "interface"],
           {"tproxy", "domainStrategy", "tcpMaxSeg", "tcpKeepAliveIdle",
            "tcpUserTimeout", "tcpcongestion", "tcpWindowClamp"})
        EXCEPT !.ifSet = {"trustedXForwardedFor"}]

\* UdpMask and TcpMask: settings depend on the type, and none at all are not
\* written.
UdpMask ==
    [Plain(<<"type", "settings">>, {"type"})
        EXCEPT !.orElse = {"type", "settings"}, !.ifSet = {"settings"}]

TcpMask ==
    [Plain(<<"type", "settings">>, {"type"})
        EXCEPT !.orElse = {"type", "settings"}, !.ifSet = {"settings"}]

\* QuicParams: zero is not written, so a zero comes back as the default, and the
\* rates are written only for a brutal congestion control.
QuicParams ==
    LET positive == {"initStreamReceiveWindow", "maxStreamReceiveWindow",
                     "initConnectionReceiveWindow", "maxConnectionReceiveWindow",
                     "maxIdleTimeout", "keepAlivePeriod", "maxIncomingStreams"}
    IN  [Plain(<<"congestion", "debug", "brutalUp", "brutalDown", "udpHop",
                 "initStreamReceiveWindow", "maxStreamReceiveWindow",
                 "initConnectionReceiveWindow", "maxConnectionReceiveWindow",
                 "maxIdleTimeout", "keepAlivePeriod", "disablePathMTUDiscovery",
                 "maxIncomingStreams">>,
               positive \cup {"congestion", "brutalUp", "brutalDown"})
            EXCEPT !.ifSet = positive \cup {"debug", "brutalUp", "brutalDown", "udpHop",
                                            "disablePathMTUDiscovery"},
                   !.ifNew = {"maxIdleTimeout"},
                   !.gated = {"brutalUp", "brutalDown"}]

FinalMask ==
    [Plain(<<"tcp", "udp", "quicParams">>, {})
        EXCEPT !.ifSet = {"tcp", "udp", "quicParams"}]

\* Sniffing: no destination comes back as the list of all.
Sniffing ==
    [Plain(<<"enabled", "destOverride", "metadataOnly", "routeOnly",
             "ipsExcluded", "domainsExcluded">>, {"destOverride"})
        EXCEPT !.orElse = {"destOverride"}, !.ifSet = {"ipsExcluded", "domainsExcluded"}]
===========================================================================
