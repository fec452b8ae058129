----------------------------- MODULE ShareLinks -----------------------------
(***************************************************************************)
(* The links an inbound has for its clients (genLink in inbound.js) and    *)
(* the outbound the panel makes of one (Outbound.fromLink in outbound.js,  *)
(* convertLink in modals/xray_outbound_modal.html).  A link is a record of *)
(* its parameters.  The address, the port, the remark, the xPadding and fm *)
(* parameters, which the outbound has no field for, are left out.          *)
(***************************************************************************)
EXTENDS InboundDialog

Out == INSTANCE OutboundClasses

Linked == {"vmess", "vless", "trojan", "shadowsocks", "hysteria"}

\* The inbound with the objects of its classes.
WithForms(d) ==
    [protocol |-> d.protocol, network |-> d.network, security |-> d.security,
     method |-> d.method,
     forms |-> [c \in Written(d) |-> FormOf(InboundTable, d.entered, c)]]

NoParams ==
    [k \in {"user", "flow", "encryption", "method", "headerType", "path", "host", "mtu",
            "tti", "serviceName", "authority", "mode", "type", "alpn", "fp", "sni", "ech",
            "pbk", "sid", "spx", "pqv"} |-> "absent"]

\* "absent" for what is empty: the parameters that are set only when there is a value.
IfAny(v) == IF v = "empty" THEN "absent" ELSE v

\* getHeader.
HostIn(headers) == IF headers = "hosted" THEN "other" ELSE "empty"

\* The host of a transport: its field, or else a header of that name.
HostOf(d, c) ==
    IF d.forms[c].host # "empty" THEN d.forms[c].host ELSE HostIn(d.forms[c].headers)

HttpHeader(d) == d.network = "tcp" /\ d.forms.Tcp.type = "other"

\* What the four functions for TLS-like protocols do for each network.
NetworkParams(d) ==
    CASE d.network = "tcp" ->
            IF HttpHeader(d)
              THEN [NoParams EXCEPT !.headerType = "other",
                        !.path = d.forms.TcpRequest.path,
                        !.host = IfAny(HostIn(d.forms.TcpRequest.headers))]
              ELSE NoParams
      [] d.network = "kcp" ->
            [NoParams EXCEPT !.mtu = d.forms.Kcp.mtu, !.tti = d.forms.Kcp.tti]
      [] d.network = "ws" ->
            [NoParams EXCEPT !.path = d.forms.Ws.path, !.host = HostOf(d, "Ws")]
      [] d.network = "grpc" ->
            [NoParams EXCEPT !.serviceName = d.forms.Grpc.serviceName,
                             !.authority = d.forms.Grpc.authority,
                             !.mode = IfAny(d.forms.Grpc.multiMode)]
      [] d.network = "httpupgrade" ->
            [NoParams EXCEPT !.path = d.forms.HTTPUpgrade.path,
                             !.host = HostOf(d, "HTTPUpgrade")]
      [] d.network = "xhttp" ->
            [NoParams EXCEPT !.path = d.forms.XHTTP.path, !.host = HostOf(d, "XHTTP"),
                             !.mode = d.forms.XHTTP.mode]

\* security is written, but by genSSLink only when it is tls; the outbound has none
\* then.
SecurityParams(d) ==
    LET net == NetworkParams(d)
    IN  CASE d.security = "tls" ->
                [net EXCEPT !.fp = d.forms.TlsSettings.fingerprint,
                            !.alpn = d.forms.Tls.alpn,
                            !.sni = IfAny(d.forms.Tls.sni),
                            !.ech = IfAny(d.forms.TlsSettings.echConfigList)]
          [] d.security = "reality" ->
                [net EXCEPT !.pbk = d.forms.RealitySettings.publicKey,
                            !.fp = d.forms.RealitySettings.fingerprint,
                            !.sni = d.forms.Reality.serverNames,
                            !.sid = IfAny(d.forms.Reality.shortIds),
                            !.spx = IfAny(d.forms.RealitySettings.spiderX),
                            !.pqv = IfAny(d.forms.RealitySettings.mldsa65Verify)]
          [] OTHER -> net

\* new URL(link).toString() escapes what stands in front of the address.
Quoted(v) == IF v = "special" THEN "encoded" ELSE v

GenVLESSLink(d) ==
    [SecurityParams(d) EXCEPT
        !.user = Quoted(d.forms.VLESS.id),
        !.encryption = d.forms.VLESSSettings.encryption,
        !.flow = IF d.network = "tcp" /\ d.security \in {"tls", "reality"}
                   THEN IfAny(d.forms.VLESS.flow) ELSE "absent"]

GenTrojanLink(d) == [SecurityParams(d) EXCEPT !.user = Quoted(d.forms.Trojan.password)]

\* The password: that of the inbound, that of the client, or both and a colon.
SSPassword(d) ==
    CASE d.method = "one"    -> d.forms.ShadowsocksSettings.password
      [] d.method = "legacy" -> d.forms.Shadowsocks.password
      [] d.method = "many"   ->
            IF "special" \in {d.forms.ShadowsocksSettings.password, d.forms.Shadowsocks.password}
              THEN "special" ELSE "given"

\* The method and the password are in Base64.
GenSSLink(d) == [SecurityParams(d) EXCEPT !.method = "given", !.user = SSPassword(d)]

\* A JSON object with other names: type is the type of a header, "multi" or the mode.
GenVmessLink(d) ==
    LET p == SecurityParams(d)
    IN  [p EXCEPT !.user = d.forms.VMESS.id, !.method = d.forms.VMESS.security,
                  !.headerType = "absent", !.serviceName = "absent", !.mode = "absent",
                  !.ech = "absent", !.fp = IfAny(@), !.alpn = IfAny(@),
                  !.path = IF d.network = "grpc" THEN p.serviceName ELSE @,
                  !.type = IF d.network = "tcp" THEN d.forms.Tcp.type ELSE p.mode]

HysteriaAuth(d) ==
    IF d.forms.HysteriaClient.auth # "empty" THEN d.forms.HysteriaClient.auth
    ELSE d.forms.Hysteria.auth

GenHysteriaLink(d) == [NoParams EXCEPT !.user = Quoted(HysteriaAuth(d))]

GenLink(d) ==
    CASE d.protocol = "vmess"       -> GenVmessLink(d)
      [] d.protocol = "vless"       -> GenVLESSLink(d)
      [] d.protocol = "trojan"      -> GenTrojanLink(d)
      [] d.protocol = "shadowsocks" -> GenSSLink(d)
      [] d.protocol = "hysteria"    -> GenHysteriaLink(d)

-----------------------------------------------------------------------------
(* The outbound: its protocol, network, security and a form for each class. *)

Made(c, args) == Construct(Out!Table[c], args)

OrEmpty(v) == IF v = "absent" THEN "empty" ELSE v

\* A number that is not positive leaves the default.
ImportedKcp(link) ==
    LET new == Made("Kcp", <<>>)
    IN  [new EXCEPT !.mtu = IF link.mtu \in {"absent", "empty"} THEN @ ELSE link.mtu,
                    !.tti = IF link.tti \in {"absent", "empty"} THEN @ ELSE link.tti]

\* A bug: the mode is an argument again, one place too early.
XHTTPByPosition(link) ==
    Made("XHTTP", <<link.path, link.host, "absent", OrEmpty(link.mode)>>)

\* The mode is set on the new object, "passing `mode` as the 3rd positional arg put
\* it into the `headers` slot".
ImportedXHTTP(link) ==
    LET new == Made("XHTTP", <<link.path, link.host>>)
    IN  IF link.mode \in {"absent", "empty"} THEN new ELSE [new EXCEPT !.mode = link.mode]

\* The arguments of the constructors, each with the parameters it is given.
FormOfLink(c, link) ==
    CASE c = "VmessSettings"  -> Made(c, <<"given", "given", link.user, link.method>>)
      [] c = "VLESSSettings"  ->
            Made(c, <<"given", "given", link.user, OrEmpty(link.flow), link.encryption>>)
      [] c = "TrojanSettings" -> Made(c, <<"given", "given", link.user>>)
      [] c = "ShadowsocksSettings" ->
            Made(c, <<"given", "given", link.user, link.method, "other">>)
      [] c = "HysteriaSettings" -> Made(c, <<"given", "given", "default">>)
      [] c = "Tcp"  -> Made(c, <<link.headerType, link.host, link.path>>)
      [] c = "Kcp"  -> ImportedKcp(link)
      [] c \in {"Ws", "HttpUpgrade"} -> Made(c, <<link.path, link.host>>)
      [] c = "Grpc" -> Made(c, <<OrEmpty(link.serviceName), OrEmpty(link.authority),
                                 OrEmpty(link.mode)>>)
      [] c = "XHTTP"    -> ImportedXHTTP(link)
      [] c = "Hysteria" -> [Made(c, <<>>) EXCEPT !.auth = link.user]
      [] c = "Tls"      -> Made(c, <<OrEmpty(link.sni), OrEmpty(link.alpn), link.fp,
                                     OrEmpty(link.ech)>>)
      [] c = "Reality"  -> Made(c, <<link.pbk, link.fp, OrEmpty(link.sni), OrEmpty(link.sid),
                                     OrEmpty(link.spx), OrEmpty(link.pqv)>>)

OutboundClass ==
    [vmess |-> "VmessSettings", vless |-> "VLESSSettings", trojan |-> "TrojanSettings",
     shadowsocks |-> "ShadowsocksSettings", hysteria |-> "HysteriaSettings"]

NetworkClass ==
    [tcp |-> "Tcp", kcp |-> "Kcp", ws |-> "Ws", grpc |-> "Grpc",
     httpupgrade |-> "HttpUpgrade", xhttp |-> "XHTTP", hysteria |-> "Hysteria"]

SecurityClass == [tls |-> {"Tls"}, reality |-> {"Reality"}, none |-> {}]

FromParamLink(protocol, network, security, link) ==
    [protocol |-> protocol, network |-> network, security |-> security,
     forms |-> [c \in {OutboundClass[protocol], NetworkClass[network]}
                        \cup SecurityClass[security] |-> FormOfLink(c, link)]]

\* The same with the other names; a mode is looked for that the link does not have.
FromVmessLink(network, security, link) ==
    FromParamLink("vmess", network, security,
        [link EXCEPT !.headerType = link.type,
                     !.serviceName = IF network = "grpc" THEN link.path ELSE @,
                     !.mode = IF network = "grpc" THEN link.type ELSE link.mode])

\* Of the parameters of TLS it takes none.
FromHysteriaLink(link) == FromParamLink("hysteria", "hysteria", "none", link)

FromLink(d, link) ==
    CASE d.protocol = "vmess"    -> FromVmessLink(d.network, d.security, link)
      [] d.protocol = "hysteria" -> FromHysteriaLink(link)
      [] OTHER -> FromParamLink(d.protocol, d.network, d.security, link)

\* A form of an outbound that was saved and opened again.
Reread(c, form) == FromJson(Out!Table[c], ToJson(Out!Table[c], form, Out!Gate(c, form)))

\* addOutbound saves the outbound, editOutbound opens it again.
Edited(o) == [o EXCEPT !.forms = [c \in DOMAIN @ |-> Reread(c, @[c])]]

\* The regular expressions of fromParamLink and fromHysteriaLink want a user, and atob
\* rejects the - and _ that genSSLink writes for + and /.
Importable(d) ==
    CASE d.protocol = "vmess"       -> TRUE
      [] d.protocol = "shadowsocks" -> SSPassword(d) # "special"
      [] OTHER -> GenLink(d).user # "empty"

\* convertLink with the link of an inbound, then addOutbound.
Imported(d) == Edited(FromLink(d, GenLink(d)))

-----------------------------------------------------------------------------
(* Properties. *)

\* What the outbound says: a class and a field of it, and the value.  Of serverNames
\* and shortIds it is the first.  Three things differ from what the inbound expects.
\* A user is as the link spells it; the VMess link loses the mode of xHTTP, which
\* outbound.js:1223 claims to keep, and the ECH list; a Hysteria link loses all of TLS.
NetworkWanted(d) ==
    CASE HttpHeader(d) -> {<<"Tcp", "type", "other">>,
                           <<"Tcp", "path", d.forms.TcpRequest.path>>,
                           <<"Tcp", "host", HostIn(d.forms.TcpRequest.headers)>>}
      [] d.network = "kcp" -> {<<"Kcp", f, d.forms.Kcp[f]>> :
                                    f \in {g \in {"mtu", "tti"} : d.forms.Kcp[g] # "empty"}}
      [] d.network = "ws" -> {<<"Ws", "path", d.forms.Ws.path>>,
                              <<"Ws", "host", HostOf(d, "Ws")>>}
      [] d.network = "grpc" -> {<<"Grpc", f, d.forms.Grpc[f]>> : f \in FieldsOf(Grpc)}
      [] d.network = "httpupgrade" ->
            {<<"HttpUpgrade", "path", d.forms.HTTPUpgrade.path>>,
             <<"HttpUpgrade", "host", HostOf(d, "HTTPUpgrade")>>}
      [] d.network = "xhttp" ->
            {<<"XHTTP", "path", d.forms.XHTTP.path>>,
             <<"XHTTP", "host", HostOf(d, "XHTTP")>>,
             <<"XHTTP", "mode",
               IF d.protocol = "vmess" THEN "empty" ELSE d.forms.XHTTP.mode>>}
      [] d.network = "hysteria" -> {<<"Hysteria", "auth", Quoted(HysteriaAuth(d))>>}
      [] OTHER -> {}

SecurityWanted(d) ==
    CASE d.protocol = "hysteria" -> {}
      [] d.protocol # "hysteria" /\ d.security = "tls" ->
            {<<"Tls", "serverName", d.forms.Tls.sni>>,
             <<"Tls", "alpn", d.forms.Tls.alpn>>,
             <<"Tls", "fingerprint", d.forms.TlsSettings.fingerprint>>,
             <<"Tls", "echConfigList",
               IF d.protocol = "vmess" THEN "empty" ELSE d.forms.TlsSettings.echConfigList>>}
      [] d.protocol # "hysteria" /\ d.security = "reality" ->
            {<<"Reality", "publicKey", d.forms.RealitySettings.publicKey>>,
             <<"Reality", "fingerprint", d.forms.RealitySettings.fingerprint>>,
             <<"Reality", "serverName", d.forms.Reality.serverNames>>,
             <<"Reality", "shortId", d.forms.Reality.shortIds>>,
             <<"Reality", "spiderX", d.forms.RealitySettings.spiderX>>,
             <<"Reality", "mldsa65Verify", d.forms.RealitySettings.mldsa65Verify>>}
      [] OTHER -> {}

SettingsWanted(d) ==
    CASE d.protocol = "vmess"  -> {<<"VmessSettings", "id", d.forms.VMESS.id>>,
                                   <<"VmessSettings", "security", d.forms.VMESS.security>>}
      [] d.protocol = "vless"  ->
            {<<"VLESSSettings", "id", Quoted(d.forms.VLESS.id)>>,
             <<"VLESSSettings", "flow", d.forms.VLESS.flow>>,
             <<"VLESSSettings", "encryption", d.forms.VLESSSettings.encryption>>}
      [] d.protocol = "trojan" ->
            {<<"TrojanSettings", "password", Quoted(d.forms.Trojan.password)>>}
      [] d.protocol = "shadowsocks" ->
            {<<"ShadowsocksSettings", "method", "given">>,
             <<"ShadowsocksSettings", "password", SSPassword(d)>>}
      [] d.protocol = "hysteria" -> {<<"HysteriaSettings", "version", "default">>}

\* The outbound o says what the link of the inbound d can tell it.
Says(o, d) ==
    /\ o.protocol = d.protocol /\ o.network = d.network
    /\ o.security = IF d.protocol = "hysteria" THEN "none" ELSE d.security
    /\ \A w \in NetworkWanted(d) \cup SecurityWanted(d) \cup SettingsWanted(d) :
            o.forms[w[1]][w[2]] = w[3]

\* An outbound made of the link of an inbound, saved and opened again, has the network,
\* the security and the values of the inbound, but for the three differences above,
\* whatever was entered in the inbound's dialog; a link without a user, or with a
\* Shadowsocks password that atob rejects, makes none (genLink, fromLink, convertLink,
\* addOutbound, editOutbound).  (A singleton bound by \A is a strict LET.)
LinkCarries ==
    row.protocol \in Linked =>
        \A d \in {WithForms(Opened(row))} : Importable(d) => Says(Imported(d), d)

\* A form of an outbound with one field entered is the same when it is read again,
\* but for a field that was emptied and has a default (the classes of outbound.js).
OutboundsReread ==
    \A c \in DOMAIN Out!Table : \A f \in FieldsOf(Out!Table[c]) : \A v \in {"empty", "other"} :
        LET k    == Out!Table[c]
            base == [g \in FieldsOf(k) |-> IF g \in k.needs THEN "given" ELSE DefaultOf(k, g)]
            form == [base EXCEPT ![f] = v]
        IN  \/ f \in k.needs \/ (v = "empty" /\ f \in k.full) \/ (f \in k.gated /\ ~Out!Gate(c, base))
            \/ Reread(c, form) = form

\* An outbound made of a link that was saved once is not changed by being opened and
\* saved again, nor is what is then entered in it (addOutbound and editOutbound,
\* fromJson and toJson of outbound.js).
OutboundKept ==
    row.protocol \in Linked =>
        /\ OutboundsReread
        /\ \A d \in {WithForms(Opened(row))} : Importable(d) =>
              \A o \in {Imported(d)} : Edited(o) = o
===========================================================================
