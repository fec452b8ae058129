--------------------------- MODULE InboundDialog ---------------------------
(***************************************************************************)
(* The dialog that adds and edits an inbound (modals/inbound_modal.html    *)
(* and its forms, web/assets/js/model/inbound.js): what is entered in it,  *)
(* what choosing a protocol, a network or a security changes, what is sent *)
(* to the panel, and what the dialog shows when it is opened again.        *)
(* One inbound is followed: it is in the dialog, or in the row it was      *)
(* saved to.  A dialog that is cancelled changes no row, so what becomes   *)
(* of one after a dialog is opened is what became of it before.  Saving is *)
(* one step, and a refused one leaves everything as it was.                *)
(***************************************************************************)
EXTENDS InboundClasses, InboundSettings

CONSTANT MaxEdits          \* how many fields are entered, those of Controls aside

ASSUME MaxEditsAssumption == MaxEdits \in Nat

VARIABLES
    dialog,     \* inModal: shown, isEdit and the inbound it holds
    row,        \* the inbound saved last, until a dialog is opened
    meant,      \* what the dialog held when row was saved
    asked,      \* a request for a key pair that has not been answered
    strayed,    \* row, or the row it is a clone of, was saved by an OK pressed in another dialog
    edits       \* fields entered so far

dialogVars == <<dialog, row, meant, asked, strayed, edits>>

-----------------------------------------------------------------------------
Networks == {"tcp", "kcp", "ws", "grpc", "httpupgrade", "xhttp"}

\* "many": a 2022 cipher for many users; "one": 2022-blake3-chacha20-poly1305.
Methods == {"many", "one", "legacy"}

SettingsClasses ==
    [vmess       |-> {"VmessSettings", "VMESS"},
     vless       |-> {"VLESSSettings", "VLESS", "VLESSFallback"},
     trojan      |-> {"TrojanSettings", "Trojan", "TrojanFallback"},
     shadowsocks |-> {"ShadowsocksSettings", "Shadowsocks"},
     hysteria    |-> {"HysteriaSettings", "HysteriaClient"},
     tunnel      |-> {"TunnelSettings"},
     mixed       |-> {"MixedSettings", "MixedClient"},
     http        |-> {"HttpSettings", "HttpClient"},
     wireguard   |-> {"WireguardSettings", "WireguardPeer"},
     tun         |-> {"TunSettings"},
     mtproto     |-> {"MtprotoSettings", "MtprotoClient"},
     amneziawg   |-> {},        \* their clients are kept in tables of their own
     nativewg    |-> {}]

Protocols == DOMAIN SettingsClasses

ClientClasses == {"VMESS", "VLESS", "Trojan", "Shadowsocks", "HysteriaClient",
                  "MixedClient", "HttpClient", "MtprotoClient"}

InboundTable ==
    [Tcp |-> Tcp, TcpRequest |-> TcpRequest, TcpResponse |-> TcpResponse, Kcp |-> Kcp,
     Ws |-> Ws, Grpc |-> Grpc, HTTPUpgrade |-> HTTPUpgrade, XHTTP |-> XHTTP,
     Hysteria |-> Hysteria, HysteriaMasquerade |-> HysteriaMasquerade, Tls |-> Tls,
     TlsSettings |-> TlsSettings, CertFiles |-> CertFiles, CertContents |-> CertContents,
     Reality |-> Reality, RealitySettings |-> RealitySettings, Sockopt |-> Sockopt,
     TcpMask |-> TcpMask, UdpMask |-> UdpMask, QuicParams |-> QuicParams,
     Sniffing |-> Sniffing,
     VmessSettings |-> VmessSettings, VMESS |-> VMESS,
     VLESSSettings |-> VLESSSettings, VLESS |-> VLESS, VLESSFallback |-> VLESSFallback,
     TrojanSettings |-> TrojanSettings, Trojan |-> Trojan,
     TrojanFallback |-> TrojanFallback,
     ShadowsocksSettings |-> ShadowsocksSettings, Shadowsocks |-> Shadowsocks,
     HysteriaSettings |-> HysteriaSettings, HysteriaClient |-> HysteriaClient,
     TunnelSettings |-> TunnelSettings, MixedSettings |-> MixedSettings,
     MixedClient |-> MixedClient, HttpSettings |-> HttpSettings, HttpClient |-> HttpClient,
     WireguardSettings |-> WireguardSettings, WireguardPeer |-> WireguardPeer,
     TunSettings |-> TunSettings, MtprotoSettings |-> MtprotoSettings,
     MtprotoClient |-> MtprotoClient]

Pairs == UNION {{<<c, f>> : f \in FieldsOf(InboundTable[c])} : c \in DOMAIN InboundTable}

Field(d, c, f) == At(InboundTable, d.entered, c, f)
With(d, more) == [d EXCEPT !.entered = Setting(InboundTable, @, more)]

\* What can be combined (Inbound.canEnableTls and the like).
CanEnableStream(d) == d.protocol \in {"vmess", "vless", "trojan", "shadowsocks", "hysteria"}

CanEnableTls(d) ==
    \/ d.protocol = "hysteria"
    \/ /\ d.protocol \in {"vmess", "vless", "trojan", "shadowsocks"}
       /\ d.network \in {"tcp", "ws", "grpc", "httpupgrade", "xhttp"}

CanEnableReality(d) ==
    d.protocol \in {"vless", "trojan"} /\ d.network \in {"tcp", "grpc", "xhttp"}

CanEnableTlsFlow(d) ==
    d.security \in {"tls", "reality"} /\ d.network = "tcp" /\ d.protocol = "vless"

\* The conditions on which toJson writes a gated field.
Gate(d, c) ==
    CASE c = "VLESSSettings"   -> Field(d, "VLESS", "flow") # "empty"
      [] c = "QuicParams"      -> Field(d, "QuicParams", "congestion") = "other"
      [] c = "MtprotoSettings" -> Field(d, "MtprotoSettings", "routeThroughXray") = "other"
      [] OTHER -> FALSE

\* What StreamSettings.toJson writes.
NetworkClasses(d) ==
    CASE d.network = "tcp" ->
            {"Tcp"} \cup IF Field(d, "Tcp", "type") = "other"
                           THEN {"TcpRequest", "TcpResponse"} ELSE {}
      [] d.network = "kcp"         -> {"Kcp"}
      [] d.network = "ws"          -> {"Ws"}
      [] d.network = "grpc"        -> {"Grpc"}
      [] d.network = "httpupgrade" -> {"HTTPUpgrade"}
      [] d.network = "xhttp"       -> {"XHTTP"}
      [] d.network = "hysteria"    -> {"Hysteria", "HysteriaMasquerade"}

SecurityClasses(d) ==
    CASE d.security = "tls"     -> {"Tls", "TlsSettings", "CertFiles", "CertContents"}
      [] d.security = "reality" -> {"Reality", "RealitySettings"}
      [] OTHER -> {}

StreamClasses(d) ==
    NetworkClasses(d) \cup SecurityClasses(d) \cup {"Sockopt", "TcpMask", "UdpMask", "QuicParams"}

Written(d) ==
    {"Sniffing"}
        \cup (SettingsClasses[d.protocol]
                \ IF d.protocol = "shadowsocks" /\ d.method = "one" THEN {"Shadowsocks"} ELSE {})
        \cup IF CanEnableStream(d) THEN StreamClasses(d) ELSE {}

\* The fields a save writes.
Saved(d, c, f) == c \in Written(d) /\ (f \in InboundTable[c].gated => Gate(d, c))

-----------------------------------------------------------------------------
(* The row, and the dialog opened on it. *)

NoRow == [protocol |-> "none", network |-> "tcp", security |-> "none", method |-> "many",
          json |-> [c \in {} |-> {}]]

\* addInbound and updateInbound; the classes in which nothing was entered are left
\* out, NewFormsReread says that they need no more.
RowOf(d) ==
    [protocol |-> d.protocol, network |-> d.network, security |-> d.security,
     method |-> d.method,
     json |-> [c \in {p[1] : p \in DOMAIN d.entered} \cap Written(d) |->
                 ToJson(InboundTable[c], FormOf(InboundTable, d.entered, c), Gate(d, c))]]

\* DBInbound.toInbound and Inbound.fromJson.
Loaded(r) ==
    [shown |-> TRUE, isEdit |-> TRUE, protocol |-> r.protocol, network |-> r.network,
     security |-> r.security, method |-> r.method,
     entered |-> Held([c \in DOMAIN r.json |-> FromJson(InboundTable[c], r.json[c])],
                      InboundTable)]

\* inModal.show makes a copy through JSON of the inbound it is given.
Opened(r) == Loaded(RowOf(Loaded(r)))

NewDialog ==
    [shown |-> TRUE, isEdit |-> FALSE, protocol |-> "vless", network |-> "tcp",
     security |-> "none", method |-> "many", entered |-> Nothing]

Closed == [NewDialog EXCEPT !.shown = FALSE]

NotAsked == [by |-> "nobody", same |-> TRUE, keyed |-> FALSE]

HasKey(d) == Field(d, "Reality", "privateKey") # "empty"

-----------------------------------------------------------------------------
InboundInit ==
    /\ dialog = Closed
    /\ row = NoRow
    /\ meant = Closed
    /\ asked = NotAsked
    /\ strayed = FALSE
    /\ edits = 0

\* inModal.show puts another inbound into the dialog; the OK that waits for a key
\* pair keeps the one it was pressed on.
Show(d) ==
    /\ ~dialog.shown
    /\ dialog' = d
    /\ asked' = IF asked.by = "ok" /\ asked.same
                  THEN [asked EXCEPT !.same = FALSE, !.keyed = HasKey(dialog)]
                  ELSE asked
    /\ row' = NoRow /\ meant' = Closed /\ strayed' = FALSE
    /\ UNCHANGED edits

OpenAddInbound == Show(NewDialog)

OpenEditInbound == row # NoRow /\ Show(Opened(row))

\* Cancel hides the dialog; while a request is out what it holds still matters.
Cancel ==
    /\ dialog.shown
    /\ dialog' = IF asked = NotAsked THEN Closed ELSE [dialog EXCEPT !.shown = FALSE]
    /\ UNCHANGED <<row, meant, asked, strayed, edits>>

Change(d) ==
    /\ dialog.shown
    /\ dialog' = d
    /\ UNCHANGED <<row, meant, asked, strayed>>

\* The setter of protocol: new settings and a new stream.
ChooseProtocol(p) ==
    /\ dialog.shown /\ ~dialog.isEdit /\ p # dialog.protocol
    /\ Change(LET new == [NewDialog EXCEPT
                            !.protocol = p,
                            !.entered = [q \in {e \in DOMAIN dialog.entered : e[1] = "Sniffing"}
                                            |-> dialog.entered[q]]]
              IN  IF p = "hysteria"
                    THEN With([new EXCEPT !.network = "hysteria", !.security = "tls"],
                              Only("Tls", "alpn", "given"))
                    ELSE new)
    /\ UNCHANGED edits

\* A bug: the flows stay.
KeepingFlow(d) == d

\* Only vision flows are taken from the clients, when the stream cannot carry them.
WithoutFlow(d) ==
    IF d.protocol = "vless" /\ ~CanEnableTlsFlow(d) THEN With(d, Only("VLESS", "flow", "empty"))
    ELSE d

\* A bug: the security stays.
ChooseNetworkOnly(n) ==
    /\ CanEnableStream(dialog) /\ dialog.protocol # "hysteria" /\ n # dialog.network
    /\ Change(WithoutFlow([dialog EXCEPT !.network = n]))
    /\ UNCHANGED edits

\* streamNetworkChange; it does not take Reality from a network without it
\* (inbound_modal.html:249 sets a property that nothing reads).
ChooseNetwork(n) ==
    LET on  == [dialog EXCEPT !.network = n]
        tls == IF CanEnableTls(on) THEN on ELSE [on EXCEPT !.security = "none"]
        udp == IF n = "kcp" THEN tls ELSE [tls EXCEPT !.entered = Without(@, {"UdpMask"})]
    IN  /\ CanEnableStream(dialog) /\ dialog.protocol # "hysteria" /\ n # dialog.network
        /\ Change(WithoutFlow(udp))
        /\ UNCHANGED edits

\* The radio buttons of security, and its watcher.
ChooseSecurity(s) ==
    /\ CanEnableTls(dialog) /\ dialog.protocol # "hysteria" /\ s # dialog.security
    /\ s = "reality" => CanEnableReality(dialog)
    /\ Change(WithoutFlow([dialog EXCEPT !.security = s]))
    /\ UNCHANGED edits

\* SSMethodChange: other passwords, and clients that fit the method.
ChooseMethod(m) ==
    LET drawn == [dialog EXCEPT !.method = m, !.entered =
                    [p \in DOMAIN @ \ {<<"ShadowsocksSettings", "password">>,
                                       <<"Shadowsocks", "password">>} |-> @[p]]]
        list  == Field(dialog, "ShadowsocksSettings", "shadowsockses")
        blank == list = "empty" \/ m = "one"
        base  == IF blank THEN [drawn EXCEPT !.entered = Without(@, {"Shadowsocks"})] ELSE drawn
        users == IF m = "one" THEN "empty" ELSE IF blank THEN "default" ELSE list
    IN  /\ dialog.protocol = "shadowsocks"
        /\ Change(With(With(base, Only("ShadowsocksSettings", "shadowsockses", users)),
                       Only("Shadowsocks", "method", IF m = "legacy" THEN "given" ELSE "empty")))
        /\ UNCHANGED edits

\* Entering a field that the form shows.  The controls decide which others it shows.
Controls == {<<"Tcp", "type">>, <<"VLESS", "flow">>, <<"QuicParams", "congestion">>,
             <<"MtprotoSettings", "routeThroughXray">>}

Offered(d, c, f) ==
    /\ Saved(d, c, f)
    /\ c \in ClientClasses => ~d.isEdit
    /\ c = "Sniffing" => d.protocol \notin {"mtproto", "amneziawg", "nativewg"}
    /\ c = "QuicParams" => d.network \in {"xhttp", "hysteria"}
    /\ c = "UdpMask" => d.network \in {"kcp", "hysteria"}
    /\ c = "TcpMask" => d.network \notin {"kcp", "hysteria"}
    /\ <<c, f>> = <<"VLESS", "flow">> => CanEnableTlsFlow(d)
    /\ f \notin InboundTable[c].unwritten
    /\ <<c, f>> \notin {<<"Shadowsocks", "method">>, <<"ShadowsocksSettings", "method">>,
                        <<"ShadowsocksSettings", "shadowsockses">>}

Enter(c, f) ==
    /\ dialog.shown /\ (edits < MaxEdits \/ <<c, f>> \in Controls)
    /\ Offered(dialog, c, f)
    /\ \E v \in Enterable(InboundTable[c], f) :
        /\ v # Field(dialog, c, f)
        /\ <<c, f>> \in Controls => v = IF Field(dialog, c, f) = "other"
                                          THEN DefaultOf(InboundTable[c], f) ELSE "other"
        /\ Change(With(dialog, Only(c, f, v)))
    /\ edits' = IF <<c, f>> \in Controls THEN edits ELSE edits + 1

-----------------------------------------------------------------------------
\* The confirm of the dialog, which takes the inbound the dialog holds now.
Confirm(d, elsewhere) ==
    /\ row' = RowOf(d)
    /\ meant' = [d EXCEPT !.shown = TRUE, !.isEdit = TRUE, !.entered =
                    [p \in {q \in DOMAIN @ : Saved(d, q[1], q[2])} |-> @[p]]]
    /\ strayed' = elsewhere
    /\ dialog' = Closed

\* A bug: a failed request for a key pair is not looked at.
OkUnkeyed ==
    /\ dialog.shown /\ asked = NotAsked
    /\ Confirm(dialog, FALSE)
    /\ UNCHANGED <<asked, edits>>

\* inModal.ok; while the button is loading it cannot be pressed.
Ok ==
    /\ dialog.shown /\ asked = NotAsked
    /\ IF dialog.security = "reality" /\ ~HasKey(dialog)
         THEN /\ asked' = [by |-> "ok", same |-> TRUE, keyed |-> FALSE]
              /\ UNCHANGED <<dialog, row, meant, strayed>>
         ELSE /\ Confirm(dialog, FALSE)
              /\ UNCHANGED asked
    /\ UNCHANGED edits

\* The buttons of the key pair.
GetNewX25519Cert ==
    /\ dialog.shown /\ dialog.security = "reality" /\ asked = NotAsked
    /\ asked' = [by |-> "button", same |-> TRUE, keyed |-> FALSE]
    /\ UNCHANGED <<dialog, row, meant, strayed, edits>>

\* A bug: the public key goes into reality and not into its settings.
KeysInReality(v) == [p \in {"Reality"} \X {"privateKey", "publicKey"} |-> v]

Keys(v) == [p \in {<<"Reality", "privateKey">>, <<"RealitySettings", "publicKey">>} |-> v]

ClearX25519Cert ==
    /\ dialog.security = "reality"
    /\ Change(With(dialog, Keys("empty")))
    /\ UNCHANGED edits

\* The answer: the pair goes into the inbound the dialog holds now, the OK goes on
\* when the inbound it was pressed on has a key.
KeyAnswer(success) ==
    LET d     == IF success THEN With(dialog, Keys("given")) ELSE dialog
        keyed == IF asked.same THEN HasKey(d) ELSE asked.keyed
    IN  /\ asked # NotAsked
        /\ asked' = NotAsked
        /\ IF asked.by = "ok" /\ keyed
             THEN Confirm(d, ~asked.same)
             ELSE /\ dialog' = IF d.shown THEN d ELSE Closed
                  /\ UNCHANGED <<row, meant, strayed>>
        /\ UNCHANGED edits

\* cloneInbound: the stream and the sniffing of a row with new settings.
CloneInbound ==
    LET base == Loaded(row)
        copy == [base EXCEPT !.method = "many", !.entered =
                    [p \in {q \in DOMAIN @ : q[1] \in StreamClasses(base) \cup {"Sniffing"}}
                        |-> @[p]]]
    IN  /\ ~dialog.shown /\ asked = NotAsked /\ row # NoRow
        /\ Confirm(copy, strayed)
        /\ UNCHANGED <<asked, edits>>

InboundNext ==
    \/ OpenAddInbound
    \/ OpenEditInbound
    \/ Cancel
    \/ \E p \in Protocols : ChooseProtocol(p)
    \/ \E n \in Networks : ChooseNetwork(n)
    \/ \E s \in {"none", "tls", "reality"} : ChooseSecurity(s)
    \/ \E m \in Methods : ChooseMethod(m)
    \/ \E p \in (IF edits < MaxEdits THEN Pairs ELSE Controls) : Enter(p[1], p[2])
    \/ Ok
    \/ GetNewX25519Cert
    \/ ClearX25519Cert
    \/ \E success \in BOOLEAN : KeyAnswer(success)
    \/ CloneInbound

InboundSpec == InboundInit /\ [][InboundNext]_dialogVars

-----------------------------------------------------------------------------
(* Properties. *)

\* The code keeps to the values a field can have and to the combinations its forms
\* offer (StreamSettings, the options of the selects in form/stream and form/tls).
DialogTypeOK ==
    /\ \A d \in {dialog, row, meant} : /\ d.network \in Networks \cup {"hysteria"}
                                       /\ d.security \in {"none", "tls", "reality"}
                                       /\ d.method \in Methods
    /\ \A d \in {dialog, meant} : /\ d.protocol \in Protocols
                                  /\ DOMAIN d.entered \subseteq Pairs
                                  /\ \A p \in DOMAIN d.entered : d.entered[p] \in Value
    /\ row.protocol \in Protocols \cup {"none"}
    /\ asked.by \in {"nobody", "ok", "button"} /\ {asked.same, asked.keyed, strayed} \subseteq BOOLEAN
    /\ edits \in 0..MaxEdits

\* A new object of a class is what reading it again gives (the constructors against
\* fromJson and toJson of each class of inbound.js).
NewFormsReread ==
    \A c \in DOMAIN InboundTable : \A gate \in BOOLEAN :
        LET new == NewForm(InboundTable[c])
        IN  FromJson(InboundTable[c], ToJson(InboundTable[c], new, gate)) = new

\* What the classes of inbound.js give up of what an inbound holds: a field that was
\* emptied and comes back with its default, headers without a name or a value, the
\* second of two headers of one name, and both keys of a peer without a public key.
Lost(d, c, f) ==
    LET k == InboundTable[c]
        v == Field(d, c, f)
    IN  \/ v = "empty" /\ f \in k.full /\ f \in k.orElse \cup k.ifSet
        \/ v = "cleared" /\ f \in k.ifNull
        \/ v \in {"blank", "partly"} /\ f \in k.headers
        \/ v = "twice" /\ f \in k.maps
        \/ f \in k.pair /\ \E g \in k.lead : Field(d, c, g) = "empty"

\* An inbound that is opened again shows what was saved: the protocol, the network,
\* the security and every field but what the classes give up, whatever was chosen,
\* entered, dropped and cloned before, and nothing that was not (inbound.js,
\* dbinbound.js, inbound_modal.html).
KeptSettings ==
    row # NoRow =>
        LET d == Opened(row)
        IN  /\ NewFormsReread
            /\ <<d.protocol, d.network, d.security, d.method>>
                 = <<meant.protocol, meant.network, meant.security, meant.method>>
            /\ \A p \in DOMAIN d.entered \cup DOMAIN meant.entered :
                \/ Field(d, p[1], p[2]) = Field(meant, p[1], p[2])
                \/ Lost(meant, p[1], p[2])

\* An inbound whose client has a flow has a stream that can carry it, however the
\* network and the security were changed after the flow was chosen
\* (streamNetworkChange and the watcher of security in inbound_modal.html).
FlowCarried ==
    row.protocol = "vless" /\ Field(Opened(row), "VLESS", "flow") # "empty"
        => row.network = "tcp" /\ row.security \in {"tls", "reality"}

\* An inbound is saved with a security only where the stream can have one.
SecurityFits ==
    row.protocol # "none" /\ row.security # "none" => CanEnableTls(Opened(row))

\* "An empty privateKey makes Xray refuse to start" (inbound_modal.html:31): no OK of
\* the dialog saves Reality without one, if it was pressed in the dialog it saves.
RealityKeyed ==
    row.security = "reality" /\ ~strayed => HasKey(Opened(row))
===========================================================================
