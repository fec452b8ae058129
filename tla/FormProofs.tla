------------------------------ MODULE FormProofs ------------------------------
(***************************************************************************)
(* The properties of the inbound dialog and of the links made of what it   *)
(* saves, for any number of entered fields.                                *)
(*                                                                         *)
(* The classes of inbound.js: what one field becomes when a form is        *)
(* written and read again (Back), for any class that is well formed, and   *)
(* that every class of inbound.js is.  Then the row of the inbound.  Then  *)
(* the classes of outbound.js in the same way, and what becomes of each    *)
(* value of the inbound in its link and in the outbound: one that was      *)
(* saved once is not changed by being opened and saved again, and one made *)
(* of a link says what the link can tell it of the inbound.                *)
(***************************************************************************)
EXTENDS ShareLinks, TLAPS


\* fromJson passes as many values as the constructor has parameters, in their order,
\* each from the key toJson writes, no two fields share a key, and what is left out
\* as the default is not empty.  No list of headers has a default, and a key that is
\* drawn anew is always written.
Distinct(s) == \A i, j \in DOMAIN s : s[i] = s[j] => i = j

Shaped(k) ==
  /\ Distinct(k.fields)
  /\ FieldsOf(k) = {k.fields[i] : i \in DOMAIN k.fields}
  /\ DOMAIN k.reads = DOMAIN k.fields
  /\ \A i \in DOMAIN k.fields : k.reads[i] = k.key[k.fields[i]]
  /\ \A f, g \in FieldsOf(k) : k.key[f] = k.key[g] => f = g
  /\ k.unread \subseteq k.unwritten
  /\ k.ifNew \subseteq k.full
  /\ k.maps \subseteq k.headers /\ k.headers \cap (k.full \cup k.orElse \cup k.needs) = {}
  /\ k.lead \subseteq k.pair /\ k.lead \subseteq k.full /\ k.pair \subseteq FieldsOf(k)
  /\ k.pair \cap (k.unwritten \cup k.ifNew \cup k.gated \cup k.headers \cup k.needs) = {}

\* A class of an inbound is never replaced by a new object for what it lacks.
WellFormed(k) == Shaped(k) /\ k.needs = {}

\* The classes whose keys are the names of their fields.
LEMMA SameKeys ==
  ASSUME NEW k, Distinct(k.fields), k.needs = {}, k.unread = {}, k.ifNew \subseteq k.full,
         k.reads = [i \in DOMAIN k.fields |-> k.fields[i]],
         k.key = [f \in {k.fields[i] : i \in DOMAIN k.fields} |-> f],
         k.pair = {}, k.lead = {}, k.maps \subseteq k.headers,
         k.headers \cap (k.full \cup k.orElse) = {}
  PROVE  WellFormed(k)
  BY DEF WellFormed, Shaped, FieldsOf

\* What a link has in front of its address does not matter here.
LEMMA PlainWellFormed ==
  ASSUME NEW fields, NEW full, Distinct(fields), NEW texts
  PROVE  /\ WellFormed(Plain(fields, full))
         /\ WellFormed([Plain(fields, full) EXCEPT !.texts = texts])
  BY DEF WellFormed, Shaped, Distinct, FieldsOf, Class, Plain, Same

LEMMA XHTTPWellFormed == WellFormed(XHTTP)
<1> USE DEF XHTTP, Class, Plain
<1>1. /\ Distinct(XHTTP.fields) /\ XHTTP.needs = {} /\ XHTTP.unread = {} /\ XHTTP.ifNew = {}
      /\ XHTTP.pair = {} /\ XHTTP.lead = {} /\ XHTTP.maps \subseteq XHTTP.headers
      /\ XHTTP.headers \cap (XHTTP.full \cup XHTTP.orElse) = {}
  BY DEF Distinct
<1>2. XHTTP.reads = [i \in DOMAIN XHTTP.fields |-> XHTTP.fields[i]]
  BY DEF Same
<1>3. XHTTP.key = [f \in {XHTTP.fields[i] : i \in DOMAIN XHTTP.fields} |-> f]
  BY DEF Same
<1> HIDE DEF XHTTP, Class, Plain
<1> QED
  BY <1>1, <1>2, <1>3, SameKeys

LEMMA QuicParamsWellFormed == WellFormed(QuicParams)
<1> USE DEF QuicParams, Class, Plain
<1>1. /\ Distinct(QuicParams.fields) /\ QuicParams.needs = {} /\ QuicParams.unread = {}
      /\ QuicParams.ifNew \subseteq QuicParams.full /\ QuicParams.headers = {}
      /\ QuicParams.maps = {} /\ QuicParams.pair = {} /\ QuicParams.lead = {}
  BY DEF Distinct
<1>2. QuicParams.reads = [i \in DOMAIN QuicParams.fields |-> QuicParams.fields[i]]
  BY DEF Same
<1>3. QuicParams.key = [f \in {QuicParams.fields[i] : i \in DOMAIN QuicParams.fields} |-> f]
  BY DEF Same
<1> HIDE DEF QuicParams, Class, Plain
<1> QED
  BY <1>1, <1>2, <1>3, SameKeys

LEMMA StreamsWellFormed ==
  /\ WellFormed(Tcp) /\ WellFormed(TcpRequest) /\ WellFormed(TcpResponse) /\ WellFormed(Kcp)
  /\ WellFormed(Ws) /\ WellFormed(Grpc) /\ WellFormed(HTTPUpgrade) /\ WellFormed(XHTTP)
  /\ WellFormed(Hysteria) /\ WellFormed(HysteriaMasquerade)
<1> USE DEF WellFormed, Shaped, Distinct, FieldsOf, Class, Plain, Same
<1>1. WellFormed(Tcp)
  BY DEF Tcp
<1>2. WellFormed(TcpRequest)
  BY DEF TcpRequest
<1>3. WellFormed(TcpResponse)
  BY DEF TcpResponse
<1>4. WellFormed(Kcp)
  BY DEF Kcp
<1>5. WellFormed(Ws)
  BY DEF Ws
<1>6. WellFormed(Grpc)
  BY DEF Grpc
<1>7. WellFormed(HTTPUpgrade)
  BY DEF HTTPUpgrade
<1>8. WellFormed(XHTTP)
  BY XHTTPWellFormed
<1>9. WellFormed(Hysteria)
  BY DEF Hysteria
<1>10. WellFormed(HysteriaMasquerade)
  BY DEF HysteriaMasquerade
<1> QED
  BY <1>1, <1>2, <1>3, <1>4, <1>5, <1>6, <1>7, <1>8, <1>9, <1>10

LEMMA SecuritiesWellFormed ==
  /\ WellFormed(Tls) /\ WellFormed(TlsSettings) /\ WellFormed(CertFiles)
  /\ WellFormed(CertContents) /\ WellFormed(Reality) /\ WellFormed(RealitySettings)
<1> USE DEF WellFormed, Shaped, Distinct, FieldsOf, Class, Plain, Same
<1>1. WellFormed(Tls)
  BY DEF Tls
<1>2. WellFormed(TlsSettings)
  BY DEF TlsSettings
<1>3. WellFormed(CertFiles)
  BY DEF CertFiles
<1>4. WellFormed(CertContents)
  BY DEF CertContents
<1>5. WellFormed(Reality)
  BY DEF Reality
<1>6. WellFormed(RealitySettings)
  BY DEF RealitySettings
<1> QED
  BY <1>1, <1>2, <1>3, <1>4, <1>5, <1>6

LEMMA OthersWellFormed ==
  /\ WellFormed(Sockopt) /\ WellFormed(TcpMask) /\ WellFormed(UdpMask)
  /\ WellFormed(QuicParams) /\ WellFormed(Sniffing)
<1> USE DEF WellFormed, Shaped, Distinct, FieldsOf, Class, Plain, Same
<1>1. WellFormed(Sockopt)
  BY DEF Sockopt
<1>2. WellFormed(TcpMask)
  BY DEF TcpMask
<1>3. WellFormed(UdpMask)
  BY DEF UdpMask
<1>4. WellFormed(QuicParams)
  BY QuicParamsWellFormed
<1>5. WellFormed(Sniffing)
  BY DEF Sniffing
<1> QED
  BY <1>1, <1>2, <1>3, <1>4, <1>5

LEMMA SettingsWellFormed ==
  /\ WellFormed(VmessSettings) /\ WellFormed(VLESSSettings) /\ WellFormed(VLESSFallback)
  /\ WellFormed(TrojanSettings) /\ WellFormed(TrojanFallback)
  /\ WellFormed(ShadowsocksSettings) /\ WellFormed(HysteriaSettings)
  /\ WellFormed(TunnelSettings) /\ WellFormed(MixedSettings) /\ WellFormed(HttpSettings)
  /\ WellFormed(WireguardSettings) /\ WellFormed(WireguardPeer) /\ WellFormed(TunSettings)
  /\ WellFormed(MtprotoSettings)
<1> USE DEF WellFormed, Shaped, Distinct, FieldsOf, Class, Plain, Same
<1>1. WellFormed(VmessSettings)
  BY DEF VmessSettings
<1>2. WellFormed(VLESSSettings)
  BY DEF VLESSSettings
<1>3. WellFormed(VLESSFallback)
  BY DEF VLESSFallback
<1>4. WellFormed(TrojanSettings)
  BY DEF TrojanSettings
<1>5. WellFormed(TrojanFallback)
  BY DEF TrojanFallback
<1>6. WellFormed(ShadowsocksSettings)
  BY DEF ShadowsocksSettings
<1>7. WellFormed(HysteriaSettings)
  BY DEF HysteriaSettings
<1>8. WellFormed(TunnelSettings)
  BY DEF TunnelSettings
<1>9. WellFormed(MixedSettings)
  BY DEF MixedSettings
<1>10. WellFormed(HttpSettings)
  BY DEF HttpSettings
<1>11. WellFormed(WireguardSettings)
  BY DEF WireguardSettings
<1>12. WellFormed(WireguardPeer)
  BY DEF WireguardPeer
<1>13. WellFormed(TunSettings)
  BY DEF TunSettings
<1>14. WellFormed(MtprotoSettings)
  BY DEF MtprotoSettings
<1> QED
  BY <1>1, <1>2, <1>3, <1>4, <1>5, <1>6, <1>7, <1>8, <1>9, <1>10, <1>11, <1>12, <1>13, <1>14

LEMMA ClientsWellFormed ==
  /\ WellFormed(VMESS) /\ WellFormed(VLESS) /\ WellFormed(Trojan) /\ WellFormed(Shadowsocks)
  /\ WellFormed(HysteriaClient) /\ WellFormed(MixedClient) /\ WellFormed(HttpClient)
  /\ WellFormed(MtprotoClient)
<1>1. WellFormed(VMESS)
  <2>1. Distinct(<<"id", "security">> \o ClientBase)
    BY DEF Distinct, ClientBase
  <2> QED
    BY <2>1, PlainWellFormed DEF VMESS, ClientClass
<1>2. WellFormed(Trojan)
  <2>1. Distinct(<<"password">> \o ClientBase)
    BY DEF Distinct, ClientBase
  <2> QED
    BY <2>1, PlainWellFormed DEF Trojan, ClientClass
<1>3. WellFormed(Shadowsocks)
  <2>1. Distinct(<<"method", "password">> \o ClientBase)
    BY DEF Distinct, ClientBase
  <2> QED
    BY <2>1, PlainWellFormed DEF Shadowsocks, ClientClass
<1>4. WellFormed(HysteriaClient)
  <2>1. Distinct(<<"auth">> \o ClientBase)
    BY DEF Distinct, ClientBase
  <2> QED
    BY <2>1, PlainWellFormed DEF HysteriaClient, ClientClass
<1>5. WellFormed(MtprotoClient)
  <2>1. Distinct(<<"secret", "id">> \o ClientBase)
    BY DEF Distinct, ClientBase
  <2> QED
    BY <2>1, PlainWellFormed DEF MtprotoClient, ClientClass
<1>6. WellFormed(MixedClient) /\ WellFormed(HttpClient)
  <2>1. Distinct(<<"email", "password">> \o Tail(ClientBase))
    BY DEF Distinct, ClientBase
  <2> QED
    BY <2>1, PlainWellFormed DEF MixedClient, HttpClient
<1>7. WellFormed(VLESS)
  BY DEF VLESS, WellFormed, Shaped, Distinct, FieldsOf, Class, ClientBase
<1> QED
  BY <1>1, <1>2, <1>3, <1>4, <1>5, <1>6, <1>7

LEMMA TableWellFormed == \A c \in DOMAIN InboundTable : WellFormed(InboundTable[c])
  BY StreamsWellFormed, SecuritiesWellFormed, OthersWellFormed, SettingsWellFormed,
     ClientsWellFormed DEF InboundTable

-----------------------------------------------------------------------------
(* One field, written and read. *)

Values == Value \ {"absent"}

Forms(k) == [FieldsOf(k) -> Values]

\* What v is when it is read again.
Back(k, f, v, gate) ==
  IF \/ Dropped(k, f, v, gate)
     \/ v = "empty" /\ f \in k.orElse
     \/ v = "cleared" /\ f \in k.ifNull
    THEN DefaultOf(k, f)
  ELSE Listed(k, f, v)

\* What is read of a key of a pair that is drawn anew.
Redrawn(k, form, f) ==
  IF f \in k.pair /\ \E g \in k.lead : form[g] = "empty" THEN "drawn" ELSE form[f]

LEMMA ListedIs ==
  ASSUME NEW k, NEW f, NEW v, k.maps \subseteq k.headers
  PROVE  /\ f \notin k.headers => Listed(k, f, v) = v
         /\ v \notin {"blank", "partly", "twice"} => Listed(k, f, v) = v
         /\ Listed(k, f, v) \in {v, "empty", "other"}
         /\ v # "absent" => Listed(k, f, v) # "absent"
         /\ Listed(k, f, Listed(k, f, v)) = Listed(k, f, v)
<1>1. CASE f \in k.headers /\ v = "blank"
  BY <1>1 DEF Listed
<1>2. CASE f \in k.headers /\ v = "partly"
  BY <1>2 DEF Listed
<1>3. CASE f \in k.maps /\ v = "twice"
  BY <1>3 DEF Listed
<1>4. CASE ~(f \in k.headers /\ v \in {"blank", "partly"}) /\ ~(f \in k.maps /\ v = "twice")
  BY <1>4 DEF Listed
<1> QED
  BY <1>1, <1>2, <1>3, <1>4

LEMMA BackTyped ==
  ASSUME NEW k, Shaped(k), NEW f, NEW v \in Values, NEW gate \in BOOLEAN
  PROVE  DefaultOf(k, f) \in Values /\ Back(k, f, v, gate) \in Values
  BY ListedIs DEF Shaped, Back, DefaultOf, Values, Value

\* Reading again changes nothing more, and opens no gate.
LEMMA BackAgain ==
  ASSUME NEW k, Shaped(k), NEW f, NEW v \in Values, NEW gate \in BOOLEAN,
         NEW open \in BOOLEAN, gate => open
  PROVE  Back(k, f, Back(k, f, v, gate), open) = Back(k, f, v, gate)
<1> DEFINE w == Back(k, f, v, gate)
<1>1. k.maps \subseteq k.headers /\ (f \in k.headers => f \notin k.full \cup k.orElse)
  BY DEF Shaped
<1>2. CASE w = DefaultOf(k, f)
  BY <1>1, <1>2, ListedIs DEF Back, Dropped, DefaultOf
<1>3. CASE w # DefaultOf(k, f)
  <2>1. w = Listed(k, f, v) /\ ~Dropped(k, f, v, gate)
    BY <1>3 DEF Back
  <2>2. CASE w = v
    BY <1>3, <2>1, <2>2 DEF Back, Dropped
  <2>3. CASE w # v
    <3>1. f \in k.headers /\ w \in {"empty", "other"} /\ DefaultOf(k, f) = "empty"
      BY <1>1, <2>1, <2>3, ListedIs DEF DefaultOf
    <3>2. w = "other"
      BY <1>3, <3>1
    <3> QED
      BY <1>1, <2>1, <3>2, ListedIs DEF Back, Dropped
  <2> QED
    BY <2>2, <2>3
<1> QED
  BY <1>2, <1>3

LEMMA BackDefault ==
  ASSUME NEW k, Shaped(k), NEW f, NEW gate \in BOOLEAN
  PROVE  Back(k, f, DefaultOf(k, f), gate) = DefaultOf(k, f)
  BY ListedIs DEF Shaped, Back, Dropped, DefaultOf

\* A key that was drawn is kept, and what is asked for it is never empty again.
LEMMA PairBack ==
  ASSUME NEW k, Shaped(k), NEW form, NEW gate \in BOOLEAN, NEW f \in k.pair
  PROVE  /\ Back(k, f, "drawn", gate) = "drawn"
         /\ f \in k.lead => Back(k, f, Redrawn(k, form, f), gate) # "empty"
<1>1. /\ f \notin k.unwritten /\ f \notin k.gated /\ f \notin k.headers
      /\ k.maps \subseteq k.headers
  BY DEF Shaped
<1>2. Back(k, f, "drawn", gate) = "drawn"
  BY <1>1, ListedIs DEF Back, Dropped
<1>3. ASSUME f \in k.lead
      PROVE  Back(k, f, Redrawn(k, form, f), gate) # "empty"
  <2>1. DefaultOf(k, f) = "default"
    BY <1>3 DEF Shaped, DefaultOf
  <2>2. Redrawn(k, form, f) # "empty"
    BY <1>3 DEF Redrawn
  <2> QED
    BY <1>1, <2>1, <2>2, ListedIs DEF Back
<1> QED
  BY <1>2, <1>3

LEMMA Written1 ==
  ASSUME NEW k, Shaped(k), NEW form \in Forms(k), NEW gate \in BOOLEAN,
         NEW f \in FieldsOf(k)
  PROVE  /\ k.key[f] \in KeysOf(k)
         /\ ToJson(k, form, gate)[k.key[f]] =
              IF Dropped(k, f, form[f], gate) THEN "absent" ELSE Listed(k, f, form[f])
<1>1. k.key[f] \in KeysOf(k)
  BY DEF KeysOf
<1>2. (CHOOSE g \in FieldsOf(k) : k.key[g] = k.key[f]) = f
  BY DEF Shaped
<1> QED
  BY <1>1, <1>2 DEF ToJson

\* A form without which fromJson gives a new object.
Lacks(k, form, gate) ==
  \E f \in FieldsOf(k) \cap k.needs : Dropped(k, f, form[f], gate) \/ form[f] = "empty"

\* What a form is when it is written and read again.
LEMMA ReadAgain ==
  ASSUME NEW k, Shaped(k), NEW form \in Forms(k), NEW gate \in BOOLEAN
  PROVE  FromJson(k, ToJson(k, form, gate)) =
           IF Lacks(k, form, gate) THEN NewForm(k)
           ELSE [f \in FieldsOf(k) |-> Back(k, f, Redrawn(k, form, f), gate)]
<1> DEFINE json == ToJson(k, form, gate)
           Read(i) == IF k.fields[i] \in k.unread \/ k.reads[i] \notin DOMAIN json
                        THEN "absent" ELSE json[k.reads[i]]
           args == [i \in DOMAIN k.fields |-> Read(i)]
           Missing == \E i \in DOMAIN k.fields :
                        k.fields[i] \in k.needs /\ Read(i) \in {"absent", "empty"}
           Arg(f) == LET i == CHOOSE n \in DOMAIN k.fields : k.fields[n] = f
                     IN  IF i \in DOMAIN args THEN args[i] ELSE "absent"
           Redraws == \E g \in k.lead : Arg(g) \in {"absent", "empty"}
<1>0. k.maps \subseteq k.headers
  BY DEF Shaped
<1>1. FromJson(k, json) = IF Missing THEN NewForm(k) ELSE Construct(k, args)
  BY DEF FromJson
<1>2. ASSUME NEW i \in DOMAIN k.fields
      PROVE  /\ k.fields[i] \in FieldsOf(k) /\ form[k.fields[i]] \in Values
             /\ Read(i) = IF Dropped(k, k.fields[i], form[k.fields[i]], gate) THEN "absent"
                          ELSE Listed(k, k.fields[i], form[k.fields[i]])
  <2> DEFINE f == k.fields[i]
  <2>1. f \in FieldsOf(k)
    BY DEF Shaped
  <2>2. DOMAIN json = KeysOf(k)
    BY DEF ToJson
  <2>3. k.reads[i] = k.key[f] /\ k.reads[i] \in DOMAIN json
    BY <2>1, <2>2, Written1 DEF Shaped
  <2>4. form[f] \in Values
    BY <2>1 DEF Forms
  <2>5. Read(i) = IF f \in k.unread THEN "absent" ELSE json[k.key[f]]
    BY <2>3
  <2>6. f \in k.unread => Dropped(k, f, form[f], gate)
    BY DEF Dropped, Shaped
  <2>7. json[k.key[f]] = IF Dropped(k, f, form[f], gate) THEN "absent"
                         ELSE Listed(k, f, form[f])
    BY <2>1, Written1
  <2> HIDE DEF f, json
  <2> QED
    BY <2>1, <2>4, <2>5, <2>6, <2>7 DEF f
<1> HIDE DEF Read
<1>3. ASSUME NEW f \in FieldsOf(k)
      PROVE  \E i \in DOMAIN k.fields : k.fields[i] = f
  BY DEF Shaped
<1>4. Missing <=> Lacks(k, form, gate)
  <2>1. ASSUME NEW i \in DOMAIN k.fields, k.fields[i] \in k.needs
        PROVE  Read(i) \in {"absent", "empty"}
                 <=> Dropped(k, k.fields[i], form[k.fields[i]], gate) \/ form[k.fields[i]] = "empty"
    <3>1. k.fields[i] \notin k.headers
      BY <2>1 DEF Shaped
    <3>2. Listed(k, k.fields[i], form[k.fields[i]]) = form[k.fields[i]]
      BY <1>0, <3>1, ListedIs
    <3> QED
      BY <1>2, <3>2 DEF Values, Value
  <2> QED
    BY <1>2, <1>3, <2>1 DEF Lacks
<1>5. ASSUME NEW f \in FieldsOf(k)
      PROVE  /\ form[f] \in Values
             /\ Arg(f) = IF Dropped(k, f, form[f], gate) THEN "absent" ELSE Listed(k, f, form[f])
  <2> DEFINE i == CHOOSE n \in DOMAIN k.fields : k.fields[n] = f
  <2>1. i \in DOMAIN k.fields /\ k.fields[i] = f
    BY <1>3
  <2>2. Arg(f) = Read(i)
    BY <2>1
  <2> HIDE DEF i, Arg
  <2> QED
    BY <1>2, <2>1, <2>2
<1>6. Construct(k, args) =
        [f \in FieldsOf(k) |->
            IF Redraws /\ f \in k.pair THEN "drawn"
            ELSE IF \/ Arg(f) = "absent"
                    \/ Arg(f) = "empty" /\ f \in k.orElse
                    \/ Arg(f) = "cleared" /\ f \in k.ifNull
              THEN DefaultOf(k, f)
            ELSE Arg(f)]
  BY DEF Construct
<1> HIDE DEF Arg, args, json, Missing
<1>7. Redraws <=> \E g \in k.lead : form[g] = "empty"
  <2>1. ASSUME NEW g \in k.lead
        PROVE  Arg(g) \in {"absent", "empty"} <=> form[g] = "empty"
    <3>1. /\ g \in FieldsOf(k) /\ g \notin k.unwritten /\ g \notin k.ifNew /\ g \notin k.gated
          /\ g \notin k.headers
      BY DEF Shaped
    <3>2. Listed(k, g, form[g]) = form[g]
      BY <1>0, <3>1, ListedIs
    <3> QED
      BY <1>5, <3>1, <3>2 DEF Dropped, Values, Value
  <2> QED
    BY <2>1
<1> HIDE DEF Redraws
<1>8. ASSUME NEW f \in FieldsOf(k)
      PROVE  Construct(k, args)[f] = Back(k, f, Redrawn(k, form, f), gate)
  <2>1. CASE Redraws /\ f \in k.pair
    <3>1. Redrawn(k, form, f) = "drawn"
      BY <1>7, <2>1 DEF Redrawn
    <3> QED
      BY <1>6, <2>1, <3>1, PairBack
  <2>2. CASE ~(Redraws /\ f \in k.pair)
    <3>1. Redrawn(k, form, f) = form[f]
      BY <1>7, <2>2 DEF Redrawn
    <3>2. Construct(k, args)[f] =
            IF \/ Arg(f) = "absent"
               \/ Arg(f) = "empty" /\ f \in k.orElse
               \/ Arg(f) = "cleared" /\ f \in k.ifNull
              THEN DefaultOf(k, f)
            ELSE Arg(f)
      BY <1>6, <2>2
    <3>3. /\ Listed(k, f, form[f]) # "absent"
          /\ Listed(k, f, form[f]) = "empty" /\ f \in k.orElse => form[f] = "empty"
          /\ Listed(k, f, form[f]) = "cleared" => form[f] = "cleared"
          /\ form[f] \in {"empty", "cleared"} => Listed(k, f, form[f]) = form[f]
      <4>1. f \in k.orElse => f \notin k.headers
        BY DEF Shaped
      <4> QED
        BY <1>0, <1>5, <4>1, ListedIs DEF Values, Value
    <3> QED
      BY <1>5, <3>1, <3>2, <3>3 DEF Back
  <2> QED
    BY <2>1, <2>2
<1>9. Construct(k, args) = [f \in FieldsOf(k) |-> Construct(k, args)[f]]
  BY <1>6
<1>10. Construct(k, args) = [f \in FieldsOf(k) |-> Back(k, f, Redrawn(k, form, f), gate)]
  BY <1>8, <1>9
<1> QED
  BY <1>1, <1>4, <1>10 DEF json

LEMMA ReadBack ==
  ASSUME NEW k, WellFormed(k), NEW form \in Forms(k), NEW gate \in BOOLEAN
  PROVE  FromJson(k, ToJson(k, form, gate)) =
           [f \in FieldsOf(k) |-> Back(k, f, Redrawn(k, form, f), gate)]
<1>1. Shaped(k) /\ ~Lacks(k, form, gate)
  BY DEF WellFormed, Lacks
<1> QED
  BY <1>1, ReadAgain

\* A new object of a class is what reading it again gives.
LEMMA NewReread == NewFormsReread
<1> SUFFICES ASSUME NEW c \in DOMAIN InboundTable, NEW gate \in BOOLEAN
             PROVE  FromJson(InboundTable[c], ToJson(InboundTable[c], NewForm(InboundTable[c]), gate))
                      = NewForm(InboundTable[c])
  BY DEF NewFormsReread
<1> DEFINE k == InboundTable[c]
<1>1. WellFormed(k) /\ Shaped(k)
  BY TableWellFormed DEF WellFormed
<1> HIDE DEF k
<1>2. NewForm(k) \in Forms(k)
  BY BackTyped DEF NewForm, Forms, DefaultOf, Values, Value
<1>3. FromJson(k, ToJson(k, NewForm(k), gate))
        = [f \in FieldsOf(k) |-> Back(k, f, NewForm(k)[f], gate)]
  <2>1. \A g \in k.lead : NewForm(k)[g] # "empty"
    BY <1>1 DEF Shaped, NewForm, DefaultOf
  <2>2. \A f \in FieldsOf(k) : Redrawn(k, NewForm(k), f) = NewForm(k)[f]
    BY <2>1 DEF Redrawn
  <2> QED
    BY <1>1, <1>2, <2>2, ReadBack
<1>4. \A f \in FieldsOf(k) : Back(k, f, NewForm(k)[f], gate) = DefaultOf(k, f)
  BY <1>1, BackDefault DEF NewForm
<1>5. FromJson(k, ToJson(k, NewForm(k), gate)) = NewForm(k)
  BY <1>3, <1>4 DEF NewForm
<1> QED
  BY <1>5 DEF k

-----------------------------------------------------------------------------
(* What a dialog can hold. *)

\* The fields that are written at all, but for conditions.
Fillable == {p \in Pairs : p[2] \notin InboundTable[p[1]].unwritten}

Entries == UNION {[S -> Values] : S \in SUBSET Fillable}

Dialogs ==
  [shown : BOOLEAN, isEdit : BOOLEAN, protocol : Protocols,
   network : Networks \cup {"hysteria"}, security : {"none", "tls", "reality"},
   method : Methods, entered : Entries]

LEMMA EntriesAre ==
  ASSUME NEW e
  PROVE  e \in Entries <=> e \in [DOMAIN e -> Values] /\ DOMAIN e \subseteq Fillable
  BY DEF Entries

LEMMA PairsAre ==
  ASSUME NEW p
  PROVE  p \in Pairs <=> \E c \in DOMAIN InboundTable : \E f \in FieldsOf(InboundTable[c]) :
                            p = <<c, f>>
  BY DEF Pairs

LEMMA PairParts ==
  ASSUME NEW p \in Pairs
  PROVE  p = <<p[1], p[2]>> /\ p[1] \in DOMAIN InboundTable /\ p[2] \in FieldsOf(InboundTable[p[1]])
  BY PairsAre

LEMMA AtTyped ==
  ASSUME NEW e \in Entries, NEW c, NEW f
  PROVE  At(InboundTable, e, c, f) \in Values
  BY EntriesAre DEF At, DefaultOf, Values, Value

LEMMA FormTyped ==
  ASSUME NEW e \in Entries, NEW c
  PROVE  FormOf(InboundTable, e, c) \in Forms(InboundTable[c])
  BY AtTyped DEF FormOf, Forms

\* Fields of which the forms or the properties ask: what is read is what was written.
Deciding == {<<"Tcp", "type">>, <<"VLESS", "flow">>, <<"QuicParams", "congestion">>,
          <<"MtprotoSettings", "routeThroughXray">>, <<"Reality", "privateKey">>}

Changed == {<<"Tls", "alpn">>, <<"RealitySettings", "publicKey">>, <<"Reality", "privateKey">>,
            <<"ShadowsocksSettings", "shadowsockses">>, <<"Shadowsocks", "method">>,
            <<"VLESS", "flow">>}

LEMMA DecidingPairs ==
  /\ Deciding \subseteq Pairs
  /\ \A p \in Deciding : \A v \in Values : \A gate \in BOOLEAN :
        Back(InboundTable[p[1]], p[2], v, gate) = v
  /\ \A p \in Deciding : InboundTable[p[1]].pair = {}
<1> USE DEF Class, Plain, Same, FieldsOf
<1>1. /\ "type" \in FieldsOf(Tcp) /\ Tcp.pair = {}
      /\ \A v \in Values, gate \in BOOLEAN : Back(Tcp, "type", v, gate) = v
  BY DEF Tcp, Back, Dropped, Listed
<1>2. /\ "flow" \in FieldsOf(VLESS) /\ VLESS.pair = {}
      /\ \A v \in Values, gate \in BOOLEAN : Back(VLESS, "flow", v, gate) = v
  BY DEF VLESS, Back, Dropped, Listed, ClientBase
<1>3. /\ "congestion" \in FieldsOf(QuicParams) /\ QuicParams.pair = {}
      /\ \A v \in Values, gate \in BOOLEAN : Back(QuicParams, "congestion", v, gate) = v
  BY DEF QuicParams, Back, Dropped, Listed
<1>4. /\ "routeThroughXray" \in FieldsOf(MtprotoSettings) /\ MtprotoSettings.pair = {}
      /\ \A v \in Values, gate \in BOOLEAN : Back(MtprotoSettings, "routeThroughXray", v, gate) = v
  BY DEF MtprotoSettings, Back, Dropped, Listed
<1>5. /\ "privateKey" \in FieldsOf(Reality) /\ Reality.pair = {}
      /\ \A v \in Values, gate \in BOOLEAN : Back(Reality, "privateKey", v, gate) = v
  BY DEF Reality, Back, Dropped, Listed
<1> HIDE DEF Class, Plain, Same, FieldsOf
<1> QED
  BY <1>1, <1>2, <1>3, <1>4, <1>5, PairsAre DEF Deciding, InboundTable

LEMMA ChangedPairs == Changed \subseteq Fillable
<1> USE DEF Class, Plain, Same, FieldsOf
<1>1. "alpn" \in FieldsOf(Tls) /\ "alpn" \notin Tls.unwritten
  BY DEF Tls
<1>2. "publicKey" \in FieldsOf(RealitySettings) /\ "publicKey" \notin RealitySettings.unwritten
  BY DEF RealitySettings
<1>3. "privateKey" \in FieldsOf(Reality) /\ "privateKey" \notin Reality.unwritten
  BY DEF Reality
<1>4. /\ "shadowsockses" \in FieldsOf(ShadowsocksSettings)
      /\ "shadowsockses" \notin ShadowsocksSettings.unwritten
  BY DEF ShadowsocksSettings
<1>5. "method" \in FieldsOf(Shadowsocks) /\ "method" \notin Shadowsocks.unwritten
  BY DEF Shadowsocks, ClientClass, ClientBase
<1>6. "flow" \in FieldsOf(VLESS) /\ "flow" \notin VLESS.unwritten
  BY DEF VLESS, ClientBase
<1> HIDE DEF Class, Plain, Same, FieldsOf
<1> QED
  BY <1>1, <1>2, <1>3, <1>4, <1>5, <1>6, PairsAre DEF Changed, Fillable, InboundTable

-----------------------------------------------------------------------------
(* A row, and what is shown of it. *)

LEMMA GateTyped ==
  ASSUME NEW d, NEW c
  PROVE  Gate(d, c) \in BOOLEAN
<1>1. CASE c = "VLESSSettings"
  BY <1>1 DEF Gate
<1>2. CASE c = "QuicParams"
  BY <1>2 DEF Gate
<1>3. CASE c = "MtprotoSettings"
  BY <1>3 DEF Gate
<1>4. CASE c \notin {"VLESSSettings", "QuicParams", "MtprotoSettings"}
  BY <1>4 DEF Gate
<1> QED
  BY <1>1, <1>2, <1>3, <1>4

LEMMA HeldAt ==
  ASSUME NEW forms, DOMAIN forms \subseteq DOMAIN InboundTable,
         \A k \in DOMAIN forms : forms[k] \in Forms(InboundTable[k]),
         NEW c \in DOMAIN InboundTable, NEW f \in FieldsOf(InboundTable[c])
  PROVE  At(InboundTable, Held(forms, InboundTable), c, f) =
           IF c \in DOMAIN forms THEN forms[c][f] ELSE DefaultOf(InboundTable[c], f)
<1> DEFINE Differs(k) == {g \in DOMAIN forms[k] : forms[k][g] # DefaultOf(InboundTable[k], g)}
           S == UNION {{<<k, g>> : g \in Differs(k)} : k \in DOMAIN forms}
<1>1. Held(forms, InboundTable) = [p \in S |-> forms[p[1]][p[2]]]
  BY DEF Held
<1>2. <<c, f>> \in S <=> c \in DOMAIN forms /\ f \in Differs(c)
  OBVIOUS
<1>3. c \in DOMAIN forms => DOMAIN forms[c] = FieldsOf(InboundTable[c])
  BY DEF Forms
<1>4. CASE <<c, f>> \in S
  <2>1. Held(forms, InboundTable)[<<c, f>>] = forms[c][f]
    BY <1>1, <1>4
  <2> QED
    BY <1>1, <1>2, <1>4, <2>1 DEF At
<1>5. CASE <<c, f>> \notin S
  <2>1. c \in DOMAIN forms => forms[c][f] = DefaultOf(InboundTable[c], f)
    BY <1>2, <1>3, <1>5
  <2> QED
    BY <1>1, <1>5, <2>1 DEF At
<1> QED
  BY <1>4, <1>5

LEMMA HeldTyped ==
  ASSUME NEW forms, DOMAIN forms \subseteq DOMAIN InboundTable,
         \A k \in DOMAIN forms : forms[k] \in Forms(InboundTable[k]),
         \A k \in DOMAIN forms : \A f \in InboundTable[k].unwritten :
            f \in FieldsOf(InboundTable[k]) => forms[k][f] = DefaultOf(InboundTable[k], f)
  PROVE  Held(forms, InboundTable) \in Entries
<1> DEFINE Differs(k) == {g \in DOMAIN forms[k] : forms[k][g] # DefaultOf(InboundTable[k], g)}
           S == UNION {{<<k, g>> : g \in Differs(k)} : k \in DOMAIN forms}
<1>1. Held(forms, InboundTable) = [p \in S |-> forms[p[1]][p[2]]]
  BY DEF Held
<1>2. ASSUME NEW p \in S
      PROVE  p \in Fillable /\ forms[p[1]][p[2]] \in Values
  <2>1. PICK k \in DOMAIN forms : \E g \in Differs(k) : p = <<k, g>>
    OBVIOUS
  <2>2. PICK g \in Differs(k) : p = <<k, g>>
    BY <2>1
  <2>3. g \in FieldsOf(InboundTable[k]) /\ forms[k][g] \in Values
    BY <2>2 DEF Forms
  <2>4. p \in Pairs
    BY <2>2, <2>3, PairsAre
  <2>5. g \notin InboundTable[k].unwritten
    BY <2>2, <2>3
  <2> QED
    BY <2>2, <2>3, <2>4, <2>5 DEF Fillable
<1> HIDE DEF S
<1>3. Held(forms, InboundTable) \in [S -> Values] /\ S \subseteq Fillable
  BY <1>1, <1>2
<1> QED
  BY <1>3 DEF Entries

LEMMA DialogFields ==
  ASSUME NEW d \in Dialogs
  PROVE  /\ d.shown \in BOOLEAN /\ d.isEdit \in BOOLEAN /\ d.protocol \in Protocols
         /\ d.network \in Networks \cup {"hysteria"} /\ d.security \in {"none", "tls", "reality"}
         /\ d.method \in Methods /\ d.entered \in Entries
         /\ \A e \in Entries : [d EXCEPT !.entered = e] \in Dialogs
         /\ \A b \in BOOLEAN : [d EXCEPT !.shown = b] \in Dialogs
         /\ \A n \in Networks : [d EXCEPT !.network = n] \in Dialogs
         /\ \A s \in {"none", "tls", "reality"} : [d EXCEPT !.security = s] \in Dialogs
         /\ \A m \in Methods : [d EXCEPT !.method = m] \in Dialogs
  BY DEF Dialogs

\* Nothing else of a dialog is in its row.
LEMMA RowHas ==
  ASSUME NEW d \in Dialogs
  PROVE  /\ RowOf(d).protocol = d.protocol /\ RowOf(d).network = d.network
         /\ RowOf(d).security = d.security /\ RowOf(d).method = d.method
         /\ DOMAIN RowOf(d).json = {p[1] : p \in DOMAIN d.entered} \cap Written(d)
         /\ \A c \in DOMAIN RowOf(d).json : RowOf(d).json[c] =
              ToJson(InboundTable[c], FormOf(InboundTable, d.entered, c), Gate(d, c))
  BY DEF RowOf

\* What is read of a field of a dialog.
Seen(d, c, f) == Redrawn(InboundTable[c], FormOf(InboundTable, d.entered, c), f)

LEMMA SeenIs ==
  ASSUME NEW d \in Dialogs, NEW c \in DOMAIN InboundTable, NEW f \in FieldsOf(InboundTable[c])
  PROVE  /\ Seen(d, c, f) =
              IF /\ f \in InboundTable[c].pair
                 /\ \E g \in InboundTable[c].lead : Field(d, c, g) = "empty"
                THEN "drawn" ELSE Field(d, c, f)
         /\ Field(d, c, f) \in Values /\ Seen(d, c, f) \in Values
<1>1. InboundTable[c].lead \subseteq FieldsOf(InboundTable[c])
  BY TableWellFormed DEF WellFormed, Shaped
<1>2. \A g \in FieldsOf(InboundTable[c]) :
        FormOf(InboundTable, d.entered, c)[g] = Field(d, c, g)
  BY DEF FormOf, Field
<1>3. Field(d, c, f) \in Values /\ "drawn" \in Values
  BY DialogFields, AtTyped DEF Field, Values, Value
<1> QED
  BY <1>1, <1>2, <1>3 DEF Seen, Redrawn

LEMMA ReadRow ==
  ASSUME NEW d \in Dialogs, NEW c \in DOMAIN RowOf(d).json
  PROVE  /\ c \in DOMAIN InboundTable
         /\ FromJson(InboundTable[c], RowOf(d).json[c]) =
              [f \in FieldsOf(InboundTable[c]) |->
                 Back(InboundTable[c], f, Seen(d, c, f), Gate(d, c))]
<1>1. c \in DOMAIN InboundTable
  <2>1. d.entered \in Entries
    BY DialogFields
  <2>2. PICK p \in DOMAIN d.entered : c = p[1]
    BY RowHas
  <2>3. p \in Pairs
    BY <2>1, <2>2, EntriesAre DEF Fillable
  <2> QED
    BY <2>2, <2>3, PairParts
<1>2. FormOf(InboundTable, d.entered, c) \in Forms(InboundTable[c])
  BY DialogFields, FormTyped
<1>3. FromJson(InboundTable[c], RowOf(d).json[c]) =
        [f \in FieldsOf(InboundTable[c]) |->
           Back(InboundTable[c], f, Seen(d, c, f), Gate(d, c))]
  BY <1>1, <1>2, RowHas, ReadBack, TableWellFormed, GateTyped DEF Seen
<1> QED
  BY <1>1, <1>3

LEMMA LoadedForms ==
  ASSUME NEW d \in Dialogs, NEW forms,
         forms = [c \in DOMAIN RowOf(d).json |-> FromJson(InboundTable[c], RowOf(d).json[c])]
  PROVE  /\ DOMAIN forms \subseteq DOMAIN InboundTable
         /\ \A k \in DOMAIN forms : forms[k] \in Forms(InboundTable[k])
         /\ \A k \in DOMAIN forms : \A f \in InboundTable[k].unwritten :
              f \in FieldsOf(InboundTable[k]) => forms[k][f] = DefaultOf(InboundTable[k], f)
<1> SUFFICES ASSUME NEW k \in DOMAIN forms
             PROVE  /\ k \in DOMAIN InboundTable
                    /\ forms[k] \in Forms(InboundTable[k])
                    /\ \A f \in InboundTable[k].unwritten :
                         f \in FieldsOf(InboundTable[k])
                           => forms[k][f] = DefaultOf(InboundTable[k], f)
  OBVIOUS
<1>1. /\ k \in DOMAIN InboundTable
      /\ forms[k] = [f \in FieldsOf(InboundTable[k]) |->
                       Back(InboundTable[k], f, Seen(d, k, f), Gate(d, k))]
  BY ReadRow
<1>2. \A f \in FieldsOf(InboundTable[k]) : Seen(d, k, f) \in Values
  BY <1>1, SeenIs
<1>3. \A f \in FieldsOf(InboundTable[k]) :
        Back(InboundTable[k], f, Seen(d, k, f), Gate(d, k)) \in Values
  BY <1>1, <1>2, BackTyped, GateTyped, TableWellFormed DEF WellFormed
<1>4. \A f \in InboundTable[k].unwritten :
        Back(InboundTable[k], f, Seen(d, k, f), Gate(d, k)) = DefaultOf(InboundTable[k], f)
  BY DEF Back, Dropped
<1> QED
  BY <1>1, <1>3, <1>4 DEF Forms

\* What a dialog shows of a row: the fields that were written, each read again.
LEMMA LoadedShows ==
  ASSUME NEW d \in Dialogs, NEW c \in DOMAIN InboundTable, NEW f \in FieldsOf(InboundTable[c])
  PROVE  Field(Loaded(RowOf(d)), c, f) =
           IF c \in Written(d) THEN Back(InboundTable[c], f, Seen(d, c, f), Gate(d, c))
           ELSE DefaultOf(InboundTable[c], f)
<1> DEFINE forms == [k \in DOMAIN RowOf(d).json |-> FromJson(InboundTable[k], RowOf(d).json[k])]
<1>1. Loaded(RowOf(d)).entered = Held(forms, InboundTable)
  BY DEF Loaded
<1>2. /\ DOMAIN forms \subseteq DOMAIN InboundTable
      /\ \A k \in DOMAIN forms : forms[k] \in Forms(InboundTable[k])
  BY LoadedForms
<1>3. DOMAIN forms = DOMAIN RowOf(d).json
  OBVIOUS
<1>4. c \in DOMAIN RowOf(d).json =>
        forms[c][f] = Back(InboundTable[c], f, Seen(d, c, f), Gate(d, c))
  BY ReadRow
<1> HIDE DEF forms
<1>5. Field(Loaded(RowOf(d)), c, f) =
        IF c \in DOMAIN forms THEN forms[c][f] ELSE DefaultOf(InboundTable[c], f)
  BY <1>1, <1>2, HeldAt DEF Field
<1>6. CASE c \in DOMAIN RowOf(d).json
  BY <1>3, <1>4, <1>5, <1>6, RowHas
<1>7. CASE c \notin DOMAIN RowOf(d).json /\ c \in Written(d)
  <2>1. \A p \in DOMAIN d.entered : p[1] # c
    BY <1>7, RowHas
  <2>2. \A g : <<c, g>> \notin DOMAIN d.entered
    BY <2>1
  <2>3. \A g : Field(d, c, g) = DefaultOf(InboundTable[c], g)
    BY <2>2 DEF Field, At
  <2>4. Shaped(InboundTable[c])
    BY TableWellFormed DEF WellFormed
  <2>5. Seen(d, c, f) = DefaultOf(InboundTable[c], f)
    BY <2>3, <2>4, SeenIs DEF Shaped, DefaultOf
  <2> QED
    BY <1>3, <1>5, <1>7, <2>4, <2>5, BackDefault, GateTyped
<1>8. CASE c \notin Written(d)
  BY <1>3, <1>5, <1>8, RowHas
<1> QED
  BY <1>6, <1>7, <1>8

LEMMA LoadedTyped ==
  ASSUME NEW d \in Dialogs
  PROVE  /\ Loaded(RowOf(d)) \in Dialogs
         /\ Loaded(RowOf(d)).protocol = d.protocol /\ Loaded(RowOf(d)).network = d.network
         /\ Loaded(RowOf(d)).security = d.security /\ Loaded(RowOf(d)).method = d.method
<1> DEFINE forms == [k \in DOMAIN RowOf(d).json |-> FromJson(InboundTable[k], RowOf(d).json[k])]
<1>0. forms = [k \in DOMAIN RowOf(d).json |-> FromJson(InboundTable[k], RowOf(d).json[k])]
  OBVIOUS
<1> HIDE DEF forms
<1>1. Held(forms, InboundTable) \in Entries
  <2>1. /\ DOMAIN forms \subseteq DOMAIN InboundTable
        /\ \A k \in DOMAIN forms : forms[k] \in Forms(InboundTable[k])
        /\ \A k \in DOMAIN forms : \A f \in InboundTable[k].unwritten :
              f \in FieldsOf(InboundTable[k]) => forms[k][f] = DefaultOf(InboundTable[k], f)
    BY <1>0, LoadedForms
  <2> QED
    BY <2>1, HeldTyped
<1>2. Loaded(RowOf(d)) =
        [shown |-> TRUE, isEdit |-> TRUE, protocol |-> d.protocol, network |-> d.network,
         security |-> d.security, method |-> d.method, entered |-> Held(forms, InboundTable)]
  BY <1>0, RowHas DEF Loaded
<1> QED
  BY <1>1, <1>2, DialogFields DEF Dialogs

LEMMA DecidingShown ==
  ASSUME NEW d \in Dialogs, NEW c, NEW f, <<c, f>> \in Deciding, c \in Written(d)
  PROVE  Field(Loaded(RowOf(d)), c, f) = Field(d, c, f)
<1>1. <<c, f>> \in Pairs /\ c \in DOMAIN InboundTable /\ f \in FieldsOf(InboundTable[c])
  BY DecidingPairs, PairParts
<1>2. Field(d, c, f) \in Values /\ Gate(d, c) \in BOOLEAN
  BY DialogFields, AtTyped, GateTyped DEF Field
<1>3. Back(InboundTable[c], f, Seen(d, c, f), Gate(d, c)) = Field(d, c, f)
  <2>1. InboundTable[c].pair = {}
    BY DecidingPairs
  <2>2. Seen(d, c, f) = Field(d, c, f)
    BY <1>1, <2>1, SeenIs
  <2> QED
    BY <1>2, <2>2, DecidingPairs
<1> QED
  BY <1>1, <1>3, LoadedShows

\* The classes that are written depend on what is chosen and on the type of a TCP
\* header.
LEMMA SameWritten ==
  ASSUME NEW d \in Dialogs, NEW e \in Dialogs,
         e.protocol = d.protocol, e.network = d.network, e.security = d.security,
         e.method = d.method,
         CanEnableStream(d) /\ d.network = "tcp"
           => Field(e, "Tcp", "type") = Field(d, "Tcp", "type")
  PROVE  Written(e) = Written(d)
<1>1. CanEnableStream(e) <=> CanEnableStream(d)
  BY DEF CanEnableStream
<1>2. CanEnableStream(d) => NetworkClasses(e) = NetworkClasses(d)
  <2>1. CASE d.network = "tcp"
    BY <2>1 DEF NetworkClasses
  <2>2. CASE d.network # "tcp"
    BY <2>2, DialogFields DEF NetworkClasses, Networks
  <2> QED
    BY <2>1, <2>2
<1>3. SecurityClasses(e) = SecurityClasses(d)
  BY DEF SecurityClasses
<1>4. CanEnableStream(d) => StreamClasses(e) = StreamClasses(d)
  BY <1>2, <1>3 DEF StreamClasses
<1> QED
  BY <1>1, <1>4 DEF Written

LEMMA TcpWritten ==
  ASSUME NEW d \in Dialogs, CanEnableStream(d), d.network = "tcp"
  PROVE  "Tcp" \in Written(d)
<1>1. "Tcp" \in NetworkClasses(d)
  BY DEF NetworkClasses
<1> QED
  BY <1>1 DEF Written, StreamClasses

LEMMA NetworkClassesAre ==
  ASSUME NEW d \in Dialogs
  PROVE  NetworkClasses(d) \subseteq {"Tcp", "TcpRequest", "TcpResponse", "Kcp", "Ws", "Grpc",
           "HTTPUpgrade", "XHTTP", "Hysteria", "HysteriaMasquerade"}
<1>1. d.network \in Networks \cup {"hysteria"}
  BY DialogFields
<1> QED
  BY <1>1 DEF NetworkClasses, Networks

LEMMA VLESSWritten ==
  ASSUME NEW d \in Dialogs
  PROVE  /\ "VLESSSettings" \in Written(d) => "VLESS" \in Written(d)
         /\ d.protocol = "vless" => "VLESS" \in Written(d)
         /\ "VLESS" \in Written(d) => d.protocol = "vless"
<1>1. "VLESSSettings" \notin StreamClasses(d) /\ "VLESS" \notin StreamClasses(d)
  BY NetworkClassesAre DEF StreamClasses, SecurityClasses
<1>2. d.protocol \in Protocols
  BY DialogFields
<1>3. /\ "VLESSSettings" \in SettingsClasses[d.protocol] => d.protocol = "vless"
      /\ "VLESS" \in SettingsClasses[d.protocol] => d.protocol = "vless"
      /\ d.protocol = "vless" => "VLESS" \in SettingsClasses[d.protocol]
  BY <1>2 DEF SettingsClasses, Protocols
<1> QED
  BY <1>1, <1>3 DEF Written

LEMMA RealityWritten ==
  ASSUME NEW d \in Dialogs, CanEnableStream(d), d.security = "reality"
  PROVE  "Reality" \in Written(d) /\ "Reality" \in StreamClasses(d)
  BY DEF Written, StreamClasses, SecurityClasses

\* A dialog that is opened on the row writes the same classes under the same conditions.
LEMMA LoadedWrites ==
  ASSUME NEW d \in Dialogs
  PROVE  /\ Written(Loaded(RowOf(d))) = Written(d)
         /\ \A c \in Written(d) : Gate(Loaded(RowOf(d)), c) = Gate(d, c)
<1> DEFINE e == Loaded(RowOf(d))
<1>1. /\ e \in Dialogs /\ e.protocol = d.protocol /\ e.network = d.network
      /\ e.security = d.security /\ e.method = d.method
  BY LoadedTyped
<1>2. \A c, f : <<c, f>> \in Deciding /\ c \in Written(d) => Field(e, c, f) = Field(d, c, f)
  BY DecidingShown
<1> HIDE DEF e
<1>3. Written(e) = Written(d)
  <2>1. CanEnableStream(d) /\ d.network = "tcp"
          => Field(e, "Tcp", "type") = Field(d, "Tcp", "type")
    BY <1>2, TcpWritten DEF Deciding
  <2> QED
    BY <1>1, <2>1, SameWritten
<1>4. ASSUME NEW c \in Written(d)
      PROVE  Gate(e, c) = Gate(d, c)
  <2>1. CASE c = "VLESSSettings"
    <3>1. Field(e, "VLESS", "flow") = Field(d, "VLESS", "flow")
      BY <1>2, <2>1, VLESSWritten DEF Deciding
    <3> QED
      BY <2>1, <3>1 DEF Gate
  <2>2. CASE c = "QuicParams"
    <3>1. Field(e, "QuicParams", "congestion") = Field(d, "QuicParams", "congestion")
      BY <1>2, <2>2 DEF Deciding
    <3> QED
      BY <2>2, <3>1 DEF Gate
  <2>3. CASE c = "MtprotoSettings"
    <3>1. Field(e, "MtprotoSettings", "routeThroughXray")
            = Field(d, "MtprotoSettings", "routeThroughXray")
      BY <1>2, <2>3 DEF Deciding
    <3> QED
      BY <2>3, <3>1 DEF Gate
  <2>4. CASE c \notin {"VLESSSettings", "QuicParams", "MtprotoSettings"}
    BY <2>4 DEF Gate
  <2> QED
    BY <2>1, <2>2, <2>3, <2>4
<1> QED
  BY <1>3, <1>4 DEF e

\* The second reading changes nothing.
LEMMA OpenedShows ==
  ASSUME NEW d \in Dialogs
  PROVE  /\ Opened(RowOf(d)) \in Dialogs
         /\ Opened(RowOf(d)).protocol = d.protocol /\ Opened(RowOf(d)).network = d.network
         /\ Opened(RowOf(d)).security = d.security /\ Opened(RowOf(d)).method = d.method
         /\ \A c \in DOMAIN InboundTable : \A f \in FieldsOf(InboundTable[c]) :
              Field(Opened(RowOf(d)), c, f) = Field(Loaded(RowOf(d)), c, f)
<1> DEFINE e == Loaded(RowOf(d))
<1>1. /\ e \in Dialogs /\ e.protocol = d.protocol /\ e.network = d.network
      /\ e.security = d.security /\ e.method = d.method
  BY LoadedTyped
<1>2. Written(e) = Written(d) /\ \A c \in Written(d) : Gate(e, c) = Gate(d, c)
  BY LoadedWrites
<1>3. Opened(RowOf(d)) = Loaded(RowOf(e))
  BY DEF Opened
<1>4. \A c \in DOMAIN InboundTable : \A f \in FieldsOf(InboundTable[c]) :
        Field(e, c, f) = IF c \in Written(d)
                           THEN Back(InboundTable[c], f, Seen(d, c, f), Gate(d, c))
                           ELSE DefaultOf(InboundTable[c], f)
  BY LoadedShows
<1> HIDE DEF e
<1>5. \A c \in DOMAIN InboundTable : \A f \in FieldsOf(InboundTable[c]) :
        Field(Loaded(RowOf(e)), c, f) = IF c \in Written(e)
                           THEN Back(InboundTable[c], f, Seen(e, c, f), Gate(e, c))
                           ELSE DefaultOf(InboundTable[c], f)
  BY <1>1, LoadedShows
<1>6. ASSUME NEW c \in DOMAIN InboundTable, NEW f \in FieldsOf(InboundTable[c])
      PROVE  Field(Loaded(RowOf(e)), c, f) = Field(e, c, f)
  <2>1. CASE c \in Written(d)
    <3>1. Seen(d, c, f) \in Values /\ Gate(d, c) \in BOOLEAN /\ Shaped(InboundTable[c])
      BY SeenIs, GateTyped, TableWellFormed DEF WellFormed
    <3>2. ASSUME NEW g \in InboundTable[c].lead
          PROVE  Field(e, c, g) # "empty"
      <4>1. g \in InboundTable[c].pair /\ g \in FieldsOf(InboundTable[c])
        BY <3>1 DEF Shaped
      <4>2. Field(e, c, g) = Back(InboundTable[c], g, Seen(d, c, g), Gate(d, c))
        BY <1>4, <2>1, <4>1
      <4> QED
        BY <3>1, <4>1, <4>2, PairBack DEF Seen
    <3>3. Seen(e, c, f) = Field(e, c, f)
      BY <1>1, <3>2, SeenIs
    <3> QED
      BY <1>2, <1>4, <1>5, <2>1, <3>1, <3>3, BackAgain
  <2>2. CASE c \notin Written(d)
    BY <1>2, <1>4, <1>5, <2>2
  <2> QED
    BY <2>1, <2>2
<1>7. /\ Loaded(RowOf(e)) \in Dialogs
      /\ Loaded(RowOf(e)).protocol = e.protocol /\ Loaded(RowOf(e)).network = e.network
      /\ Loaded(RowOf(e)).security = e.security /\ Loaded(RowOf(e)).method = e.method
  BY <1>1, LoadedTyped
<1> QED
  BY <1>1, <1>3, <1>6, <1>7 DEF e

-----------------------------------------------------------------------------
(* The invariant: whatever is chosen and entered, the dialog holds only what *)
(* fits together, and the row is what one such dialog wrote.                 *)

Sound(d) ==
  /\ d.network = "hysteria" <=> d.protocol = "hysteria"
  /\ d.security # "none" => CanEnableTls(d)
  /\ d.protocol = "vless" /\ Field(d, "VLESS", "flow") # "empty" => CanEnableTlsFlow(d)

MeantOf(d) ==
  [d EXCEPT !.shown = TRUE, !.isEdit = TRUE, !.entered =
     [p \in {q \in DOMAIN @ : Saved(d, q[1], q[2])} |-> @[p]]]

Saves(d) ==
  /\ row = RowOf(d) /\ meant = MeantOf(d)
  /\ Sound(d)
  /\ d.security = "reality" /\ ~strayed => HasKey(d)

Questions == [by : {"nobody", "ok", "button"}, same : BOOLEAN, keyed : BOOLEAN]

IInv ==
  /\ dialog \in Dialogs /\ Sound(dialog)
  /\ meant \in Dialogs
  /\ asked \in Questions /\ strayed \in BOOLEAN /\ edits \in 0..MaxEdits
  /\ row = NoRow \/ \E d \in Dialogs : Saves(d)

LEMMA SettingAt ==
  ASSUME NEW e \in Entries, NEW more, DOMAIN more \subseteq Fillable,
         \A p \in DOMAIN more : more[p] \in Values
  PROVE  /\ Setting(InboundTable, e, more) \in Entries
         /\ \A c, f : At(InboundTable, Setting(InboundTable, e, more), c, f) =
              IF <<c, f>> \in DOMAIN more THEN more[<<c, f>>] ELSE At(InboundTable, e, c, f)
<1> DEFINE Now(p) == IF p \in DOMAIN more THEN more[p] ELSE e[p]
           S == {q \in DOMAIN more \cup DOMAIN e : Now(q) # DefaultOf(InboundTable[q[1]], q[2])}
<1>1. Setting(InboundTable, e, more) = [p \in S |-> Now(p)]
  BY DEF Setting
<1>2. e \in [DOMAIN e -> Values] /\ DOMAIN e \subseteq Fillable
  BY EntriesAre
<1>3. \A p \in DOMAIN more \cup DOMAIN e : Now(p) \in Values
  BY <1>2
<1>4. S \subseteq DOMAIN more \cup DOMAIN e
  OBVIOUS
<1>5. [p \in S |-> Now(p)] \in Entries
  <2> HIDE DEF S, Now
  <2>1. [p \in S |-> Now(p)] \in [S -> Values] /\ S \in SUBSET Fillable
    BY <1>2, <1>3, <1>4
  <2> QED
    BY <2>1 DEF Entries
<1>6. ASSUME NEW c, NEW f
      PROVE  At(InboundTable, Setting(InboundTable, e, more), c, f) =
               IF <<c, f>> \in DOMAIN more THEN more[<<c, f>>] ELSE At(InboundTable, e, c, f)
  <2>1. CASE <<c, f>> \in S
    BY <1>1, <2>1 DEF At
  <2>2. CASE <<c, f>> \notin S
    <3>1. At(InboundTable, Setting(InboundTable, e, more), c, f) = DefaultOf(InboundTable[c], f)
      BY <1>1, <2>2 DEF At
    <3>2. <<c, f>> \in DOMAIN more \cup DOMAIN e
            => Now(<<c, f>>) = DefaultOf(InboundTable[c], f)
      BY <2>2
    <3> QED
      BY <3>1, <3>2 DEF At
  <2> QED
    BY <2>1, <2>2
<1> QED
  BY <1>1, <1>5, <1>6

LEMMA WithHas ==
  ASSUME NEW d \in Dialogs, NEW more, DOMAIN more \subseteq Fillable,
         \A p \in DOMAIN more : more[p] \in Values
  PROVE  /\ With(d, more) \in Dialogs
         /\ With(d, more).shown = d.shown /\ With(d, more).protocol = d.protocol
         /\ With(d, more).network = d.network /\ With(d, more).security = d.security
         /\ \A c, f : Field(With(d, more), c, f) =
              IF <<c, f>> \in DOMAIN more THEN more[<<c, f>>] ELSE Field(d, c, f)
<1>1. d.entered \in Entries
  BY DialogFields
<1>2. /\ Setting(InboundTable, d.entered, more) \in Entries
      /\ \A c, f : At(InboundTable, Setting(InboundTable, d.entered, more), c, f) =
           IF <<c, f>> \in DOMAIN more THEN more[<<c, f>>]
           ELSE At(InboundTable, d.entered, c, f)
  BY <1>1, SettingAt
<1>3. With(d, more) = [d EXCEPT !.entered = Setting(InboundTable, d.entered, more)]
  BY DEF With
<1>4. With(d, more).entered = Setting(InboundTable, d.entered, more)
  BY <1>3 DEF Dialogs
<1>5. \A c, f : Field(With(d, more), c, f) =
              IF <<c, f>> \in DOMAIN more THEN more[<<c, f>>] ELSE Field(d, c, f)
  BY <1>2, <1>4 DEF Field
<1> QED
  BY <1>2, <1>3, <1>5, DialogFields DEF Dialogs

\* Leaving some of the entered fields out.
LEMMA Fewer ==
  ASSUME NEW e \in Entries, NEW S \in SUBSET DOMAIN e
  PROVE  /\ [p \in S |-> e[p]] \in Entries
         /\ \A c, f : At(InboundTable, [p \in S |-> e[p]], c, f) =
              IF <<c, f>> \in S THEN At(InboundTable, e, c, f) ELSE DefaultOf(InboundTable[c], f)
<1>1. e \in [DOMAIN e -> Values] /\ DOMAIN e \subseteq Fillable
  BY EntriesAre
<1>2. [p \in S |-> e[p]] \in [S -> Values] /\ S \in SUBSET Fillable
  BY <1>1
<1> QED
  BY <1>2 DEF Entries, At

LEMMA FlowDefault == DefaultOf(InboundTable["VLESS"], "flow") = "empty"
  BY DEF InboundTable, VLESS, Class, DefaultOf

LEMMA SoundAs ==
  ASSUME NEW d \in Dialogs, NEW e \in Dialogs, Sound(d),
         e.protocol = d.protocol, e.network = d.network, e.security = d.security,
         \/ d.protocol # "vless"
         \/ Field(e, "VLESS", "flow") = Field(d, "VLESS", "flow")
         \/ Field(e, "VLESS", "flow") = "empty"
  PROVE  Sound(e)
  BY DEF Sound, CanEnableTls, CanEnableTlsFlow

LEMMA MeantTyped ==
  ASSUME NEW d \in Dialogs
  PROVE  /\ MeantOf(d) \in Dialogs
         /\ MeantOf(d).protocol = d.protocol /\ MeantOf(d).network = d.network
         /\ MeantOf(d).security = d.security /\ MeantOf(d).method = d.method
         /\ DOMAIN MeantOf(d).entered = {q \in DOMAIN d.entered : Saved(d, q[1], q[2])}
         /\ \A p \in DOMAIN MeantOf(d).entered : MeantOf(d).entered[p] = d.entered[p]
<1> DEFINE S == {q \in DOMAIN d.entered : Saved(d, q[1], q[2])}
           e == [p \in S |-> d.entered[p]]
<1>1. e \in Entries
  <2>1. d.entered \in Entries /\ S \in SUBSET DOMAIN d.entered
    BY DialogFields
  <2> HIDE DEF S
  <2> QED
    BY <2>1, Fewer
<1>2. MeantOf(d) = [d EXCEPT !.shown = TRUE, !.isEdit = TRUE, !.entered = e]
  BY DEF MeantOf
<1>3. DOMAIN e = S /\ \A p \in S : e[p] = d.entered[p]
  OBVIOUS
<1> HIDE DEF e
<1>4. MeantOf(d) \in Dialogs
  BY <1>1, <1>2 DEF Dialogs
<1>5. /\ MeantOf(d).protocol = d.protocol /\ MeantOf(d).network = d.network
      /\ MeantOf(d).security = d.security /\ MeantOf(d).method = d.method
      /\ MeantOf(d).entered = e
  BY <1>2 DEF Dialogs
<1> QED
  BY <1>3, <1>4, <1>5

\* The dialog opened on a row is as sound as the one that saved it, and so is what a
\* clone starts from.
LEMMA ShownSound ==
  ASSUME NEW d \in Dialogs, Sound(d)
  PROVE  Sound(Loaded(RowOf(d))) /\ Sound(Opened(RowOf(d)))
<1>1. d.protocol = "vless" => /\ "VLESS" \in Written(d)
                              /\ <<"VLESS", "flow">> \in Deciding
  BY VLESSWritten DEF Deciding
<1>2. d.protocol = "vless" => Field(Loaded(RowOf(d)), "VLESS", "flow") = Field(d, "VLESS", "flow")
  BY <1>1, DecidingShown
<1>3. Sound(Loaded(RowOf(d)))
  BY <1>2, LoadedTyped, SoundAs
<1>4. "VLESS" \in DOMAIN InboundTable /\ "flow" \in FieldsOf(InboundTable["VLESS"])
  <2>1. <<"VLESS", "flow">> \in Pairs
    BY DecidingPairs DEF Deciding
  <2> QED
    BY <2>1, PairParts
<1>5. Sound(Opened(RowOf(d)))
  BY <1>2, <1>4, OpenedShows, SoundAs
<1> QED
  BY <1>3, <1>5

-----------------------------------------------------------------------------
(* Every step keeps it. *)

LEMMA NewDialogs ==
  /\ NewDialog \in Dialogs /\ Closed \in Dialogs
  /\ Sound(NewDialog) /\ Sound(Closed)
<1>1. Nothing \in Entries
  <2>1. Nothing \in [{} -> Values] /\ {} \in SUBSET Fillable
    BY DEF Nothing
  <2> QED
    BY <2>1 DEF Entries
<1>2. NewDialog \in Dialogs
  BY <1>1 DEF NewDialog, Dialogs, Protocols, SettingsClasses, Networks, Methods
<1>3. /\ Closed \in Dialogs /\ Closed.entered = NewDialog.entered
      /\ Closed.security = "none" /\ NewDialog.security = "none"
      /\ Closed.network = "tcp" /\ NewDialog.network = "tcp"
      /\ Closed.protocol = "vless" /\ NewDialog.protocol = "vless"
  BY <1>2 DEF Closed, NewDialog, Dialogs
<1>4. NewDialog.entered = Nothing
  BY DEF NewDialog
<1>5. Field(NewDialog, "VLESS", "flow") = "empty" /\ Field(Closed, "VLESS", "flow") = "empty"
  BY <1>3, <1>4, FlowDefault DEF Field, At, Nothing
<1> QED
  BY <1>2, <1>3, <1>5 DEF Sound

LEMMA FiledKept ==
  ASSUME IInv, UNCHANGED <<row, meant, strayed>>
  PROVE  (row = NoRow \/ \E d \in Dialogs : Saves(d))'
<1>1. CASE row = NoRow
  BY <1>1
<1>2. CASE \E d \in Dialogs : Saves(d)
  <2>1. PICK d \in Dialogs : Saves(d)
    BY <1>2
  <2>2. Saves(d)'
    BY <2>1 DEF Saves
  <2> QED
    BY <2>2
<1> QED
  BY <1>1, <1>2 DEF IInv

LEMMA ChangeKeeps ==
  ASSUME IInv, NEW d \in Dialogs, Sound(d), dialog' = d, asked' \in Questions,
         UNCHANGED <<row, meant, strayed>>, edits' \in 0..MaxEdits
  PROVE  IInv'
<1>1. (row = NoRow \/ \E e \in Dialogs : Saves(e))'
  BY FiledKept
<1>2. dialog' \in Dialogs /\ Sound(dialog')
  OBVIOUS
<1> QED
  BY <1>1, <1>2 DEF IInv

LEMMA ShowKeeps ==
  ASSUME IInv, NEW d \in Dialogs, Sound(d), Show(d)
  PROVE  IInv'
<1>1. dialog' \in Dialogs /\ Sound(dialog')
  BY DEF Show
<1>2. asked' \in Questions
  <2>1. HasKey(dialog) \in BOOLEAN
    BY DEF HasKey
  <2> QED
    BY <2>1 DEF IInv, Show, Questions
<1>3. meant' \in Dialogs
  BY NewDialogs DEF Show
<1> QED
  BY <1>1, <1>2, <1>3 DEF IInv, Show

LEMMA ConfirmKeeps ==
  ASSUME IInv, NEW d \in Dialogs, Sound(d), NEW elsewhere \in BOOLEAN,
         d.security = "reality" /\ ~elsewhere => HasKey(d),
         Confirm(d, elsewhere), asked' \in Questions, UNCHANGED edits
  PROVE  IInv'
<1>1. dialog' \in Dialogs /\ Sound(dialog')
  BY NewDialogs DEF Confirm
<1>2. row' = RowOf(d) /\ meant' = MeantOf(d) /\ strayed' = elsewhere
  BY DEF Confirm, MeantOf
<1>3. meant' \in Dialogs
  BY <1>2, MeantTyped
<1>4. Saves(d)'
  BY <1>2 DEF Saves
<1> QED
  BY <1>1, <1>2, <1>3, <1>4 DEF IInv

LEMMA InitKeeps == InboundInit => IInv
<1> SUFFICES ASSUME InboundInit
             PROVE  IInv
  OBVIOUS
<1>1. asked \in Questions
  BY DEF InboundInit, NotAsked, Questions
<1>2. edits \in 0..MaxEdits
  BY MaxEditsAssumption DEF InboundInit
<1> QED
  BY <1>1, <1>2, NewDialogs DEF InboundInit, IInv

LEMMA OpenEditKeeps == IInv /\ OpenEditInbound => IInv'
<1> SUFFICES ASSUME IInv, OpenEditInbound
             PROVE  IInv'
  OBVIOUS
<1>1. PICK d \in Dialogs : Saves(d)
  BY DEF IInv, OpenEditInbound
<1>2. Opened(row) \in Dialogs /\ Sound(Opened(row))
  BY <1>1, OpenedShows, ShownSound DEF Saves
<1> QED
  BY <1>2, ShowKeeps DEF OpenEditInbound

LEMMA CancelKeeps == IInv /\ Cancel => IInv'
<1> SUFFICES ASSUME IInv, Cancel
             PROVE  IInv'
  OBVIOUS
<1> DEFINE hidden == [dialog EXCEPT !.shown = FALSE]
<1>1. dialog \in Dialogs /\ Sound(dialog)
  BY DEF IInv
<1>2. hidden \in Dialogs
  BY <1>1, DialogFields
<1>3. /\ hidden.protocol = dialog.protocol /\ hidden.network = dialog.network
      /\ hidden.security = dialog.security /\ hidden.entered = dialog.entered
  BY <1>1 DEF Dialogs
<1>4. Sound(hidden)
  BY <1>1, <1>2, <1>3, SoundAs DEF Field
<1>5. dialog' = Closed \/ dialog' = hidden
  BY DEF Cancel
<1>6. dialog' \in Dialogs /\ Sound(dialog')
  BY <1>2, <1>4, <1>5, NewDialogs
<1>7. asked' \in Questions /\ edits' \in 0..MaxEdits /\ UNCHANGED <<row, meant, strayed>>
  BY DEF IInv, Cancel
<1> HIDE DEF hidden
<1> QED
  BY <1>6, <1>7, ChangeKeeps

\* The flow goes when the stream cannot carry it.
LEMMA WithoutFlowSound ==
  ASSUME NEW d \in Dialogs, d.security # "none" => CanEnableTls(d),
         d.network = "hysteria" <=> d.protocol = "hysteria"
  PROVE  WithoutFlow(d) \in Dialogs /\ Sound(WithoutFlow(d))
<1> DEFINE more == Only("VLESS", "flow", "empty")
<1>1. DOMAIN more \subseteq Fillable /\ \A p \in DOMAIN more : more[p] \in Values
  <2>1. <<"VLESS", "flow">> \in Fillable
    BY ChangedPairs DEF Changed
  <2>2. "empty" \in Values
    BY DEF Values, Value
  <2> QED
    BY <2>1, <2>2 DEF Only
<1>2. <<"VLESS", "flow">> \in DOMAIN more /\ more[<<"VLESS", "flow">>] = "empty"
  BY DEF Only
<1> HIDE DEF more
<1>3. CASE d.protocol = "vless" /\ ~CanEnableTlsFlow(d)
  <2>1. WithoutFlow(d) = With(d, more)
    BY <1>3 DEF WithoutFlow, more
  <2>2. /\ With(d, more) \in Dialogs
        /\ With(d, more).protocol = d.protocol
        /\ With(d, more).network = d.network /\ With(d, more).security = d.security
        /\ Field(With(d, more), "VLESS", "flow") = "empty"
    BY <1>1, <1>2, WithHas
  <2> QED
    BY <2>1, <2>2 DEF Sound, CanEnableTls
<1>4. CASE ~(d.protocol = "vless" /\ ~CanEnableTlsFlow(d))
  BY <1>4 DEF WithoutFlow, Sound
<1> QED
  BY <1>3, <1>4

LEMMA ChooseProtocolKeeps ==
  ASSUME IInv, NEW p \in Protocols, ChooseProtocol(p)
  PROVE  IInv'
<1> DEFINE S == {e \in DOMAIN dialog.entered : e[1] = "Sniffing"}
           kept == [q \in S |-> dialog.entered[q]]
           new == [NewDialog EXCEPT !.protocol = p, !.entered = kept]
           hy == [new EXCEPT !.network = "hysteria", !.security = "tls"]
           more == Only("Tls", "alpn", "given")
<1>1. dialog' = IF p = "hysteria" THEN With(hy, more) ELSE new
  BY DEF ChooseProtocol, Change
<1>2. kept \in Entries /\ \A c, f : At(InboundTable, kept, c, f) =
        IF <<c, f>> \in S THEN At(InboundTable, dialog.entered, c, f)
        ELSE DefaultOf(InboundTable[c], f)
  <2>1. dialog.entered \in Entries /\ S \in SUBSET DOMAIN dialog.entered
    BY DialogFields DEF IInv
  <2> HIDE DEF S
  <2> QED
    BY <2>1, Fewer
<1>3. At(InboundTable, kept, "VLESS", "flow") = "empty"
  BY <1>2, FlowDefault
<1> HIDE DEF kept
<1>4. /\ new \in Dialogs /\ new.entered = kept /\ new.security = "none"
      /\ new.protocol = p /\ new.network = "tcp"
  BY <1>2, NewDialogs DEF Dialogs, NewDialog
<1>5. p # "hysteria" => Sound(new)
  BY <1>3, <1>4 DEF Sound, Field
<1> HIDE DEF new
<1>6. CASE p # "hysteria"
  <2>1. dialog' = new
    BY <1>1, <1>6
  <2>2. asked' \in Questions /\ edits' \in 0..MaxEdits /\ UNCHANGED <<row, meant, strayed>>
    BY DEF ChooseProtocol, Change, IInv
  <2> QED
    BY <1>4, <1>5, <1>6, <2>1, <2>2, ChangeKeeps
<1>7. CASE p = "hysteria"
  <2>1. hy \in Dialogs /\ hy.protocol = "hysteria" /\ hy.network = "hysteria"
    BY <1>4, <1>7 DEF Dialogs
  <2>2. DOMAIN more \subseteq Fillable /\ \A q \in DOMAIN more : more[q] \in Values
    <3>1. <<"Tls", "alpn">> \in Fillable
      BY ChangedPairs DEF Changed
    <3>2. "given" \in Values
      BY DEF Values, Value
    <3> QED
      BY <3>1, <3>2 DEF Only
  <2> HIDE DEF hy, more
  <2>3. /\ With(hy, more) \in Dialogs /\ With(hy, more).protocol = "hysteria"
        /\ With(hy, more).network = "hysteria"
    BY <2>1, <2>2, WithHas
  <2>4. Sound(With(hy, more))
    BY <2>3 DEF Sound, CanEnableTls
  <2>5. dialog' = With(hy, more)
    BY <1>1, <1>7
  <2>6. asked' \in Questions /\ edits' \in 0..MaxEdits /\ UNCHANGED <<row, meant, strayed>>
    BY DEF ChooseProtocol, Change, IInv
  <2> QED
    BY <2>3, <2>4, <2>5, <2>6, ChangeKeeps
<1> QED
  BY <1>6, <1>7

LEMMA ChooseNetworkKeeps ==
  ASSUME IInv, NEW n \in Networks, ChooseNetwork(n)
  PROVE  IInv'
<1> DEFINE on == [dialog EXCEPT !.network = n]
           tls == IF CanEnableTls(on) THEN on ELSE [on EXCEPT !.security = "none"]
           left == Without(tls.entered, {"UdpMask"})
           udp == IF n = "kcp" THEN tls ELSE [tls EXCEPT !.entered = left]
<1>1. dialog' = WithoutFlow(udp) /\ UNCHANGED <<row, meant, asked, strayed, edits>>
  BY DEF ChooseNetwork, Change
<1>2. on \in Dialogs /\ on.protocol # "hysteria" /\ on.network # "hysteria"
  <2>1. dialog \in Dialogs /\ dialog.protocol # "hysteria" /\ n # "hysteria"
    BY DEF IInv, ChooseNetwork, Networks
  <2>2. on.protocol = dialog.protocol /\ on.network = n
    BY <2>1 DEF Dialogs
  <2> QED
    BY <2>1, <2>2, DialogFields
<1> HIDE DEF on
<1>3. /\ tls \in Dialogs /\ (tls.security # "none" => CanEnableTls(tls))
      /\ tls.protocol # "hysteria" /\ tls.network # "hysteria"
  <2>1. CASE CanEnableTls(on)
    BY <1>2, <2>1
  <2>2. CASE ~CanEnableTls(on)
    <3>1. [on EXCEPT !.security = "none"] \in Dialogs
      BY <1>2, DialogFields
    <3>2. /\ [on EXCEPT !.security = "none"].security = "none"
          /\ [on EXCEPT !.security = "none"].protocol = on.protocol
          /\ [on EXCEPT !.security = "none"].network = on.network
      BY <1>2 DEF Dialogs
    <3> QED
      BY <1>2, <2>2, <3>1, <3>2
  <2> QED
    BY <2>1, <2>2
<1> HIDE DEF tls
<1>4. left \in Entries
  <2> DEFINE S == {q \in DOMAIN tls.entered : q[1] \notin {"UdpMask"}}
  <2>1. left = [p \in S |-> tls.entered[p]]
    BY DEF Without
  <2>2. S \in SUBSET DOMAIN tls.entered /\ tls.entered \in Entries
    BY <1>3, DialogFields
  <2> HIDE DEF S, left
  <2> QED
    BY <2>1, <2>2, Fewer
<1> HIDE DEF left
<1>5. /\ udp \in Dialogs /\ (udp.security # "none" => CanEnableTls(udp))
      /\ udp.protocol # "hysteria" /\ udp.network # "hysteria"
  <2>1. CASE n = "kcp"
    BY <1>3, <2>1
  <2>2. CASE n # "kcp"
    <3>1. [tls EXCEPT !.entered = left] \in Dialogs
      BY <1>3, <1>4, DialogFields
    <3>2. /\ [tls EXCEPT !.entered = left].security = tls.security
          /\ [tls EXCEPT !.entered = left].protocol = tls.protocol
          /\ [tls EXCEPT !.entered = left].network = tls.network
      BY <1>3 DEF Dialogs
    <3>3. tls.security # "none" => CanEnableTls([tls EXCEPT !.entered = left])
      BY <1>3, <3>2 DEF CanEnableTls
    <3> QED
      BY <1>3, <2>2, <3>1, <3>2, <3>3
  <2> QED
    BY <2>1, <2>2
<1> HIDE DEF udp
<1>6. WithoutFlow(udp) \in Dialogs /\ Sound(WithoutFlow(udp))
  BY <1>5, WithoutFlowSound
<1> QED
  BY <1>1, <1>6, ChangeKeeps DEF IInv

LEMMA ChooseSecurityKeeps ==
  ASSUME IInv, NEW s \in {"none", "tls", "reality"}, ChooseSecurity(s)
  PROVE  IInv'
<1> DEFINE d == [dialog EXCEPT !.security = s]
<1>1. /\ dialog' = WithoutFlow(d) /\ UNCHANGED <<row, meant, asked, strayed, edits>>
      /\ CanEnableTls(dialog) /\ dialog.protocol # "hysteria"
  BY DEF ChooseSecurity, Change
<1>2. dialog \in Dialogs /\ dialog.network # "hysteria"
  BY <1>1 DEF IInv, Sound
<1>3. d \in Dialogs /\ d.protocol = dialog.protocol /\ d.network = dialog.network
  BY <1>2 DEF Dialogs
<1>4. CanEnableTls(d)
  BY <1>1, <1>3 DEF CanEnableTls
<1> HIDE DEF d
<1>5. WithoutFlow(d) \in Dialogs /\ Sound(WithoutFlow(d))
  BY <1>1, <1>2, <1>3, <1>4, WithoutFlowSound
<1> QED
  BY <1>1, <1>5, ChangeKeeps DEF IInv

\* Entering fields other than the flow leaves a sound dialog sound.
LEMMA WithSound ==
  ASSUME NEW d \in Dialogs, Sound(d), NEW more, DOMAIN more \subseteq Fillable,
         \A p \in DOMAIN more : more[p] \in Values,
         <<"VLESS", "flow">> \in DOMAIN more /\ d.protocol = "vless" => CanEnableTlsFlow(d)
  PROVE  With(d, more) \in Dialogs /\ Sound(With(d, more))
<1>1. /\ With(d, more) \in Dialogs
      /\ With(d, more).protocol = d.protocol /\ With(d, more).network = d.network
      /\ With(d, more).security = d.security
      /\ <<"VLESS", "flow">> \notin DOMAIN more
            => Field(With(d, more), "VLESS", "flow") = Field(d, "VLESS", "flow")
  BY WithHas
<1>2. CASE <<"VLESS", "flow">> \in DOMAIN more /\ d.protocol = "vless"
  BY <1>1, <1>2 DEF Sound, CanEnableTls, CanEnableTlsFlow
<1>3. CASE ~(<<"VLESS", "flow">> \in DOMAIN more /\ d.protocol = "vless")
  BY <1>1, <1>3, SoundAs
<1> QED
  BY <1>2, <1>3

LEMMA ChooseMethodKeeps ==
  ASSUME IInv, NEW m \in Methods, ChooseMethod(m)
  PROVE  IInv'
<1> DEFINE S == DOMAIN dialog.entered \ {<<"ShadowsocksSettings", "password">>,
                                         <<"Shadowsocks", "password">>}
           kept == [p \in S |-> dialog.entered[p]]
           drawn == [dialog EXCEPT !.method = m, !.entered = kept]
           list == Field(dialog, "ShadowsocksSettings", "shadowsockses")
           blank == list = "empty" \/ m = "one"
           left == Without(drawn.entered, {"Shadowsocks"})
           base == IF blank THEN [drawn EXCEPT !.entered = left] ELSE drawn
           users == IF m = "one" THEN "empty" ELSE IF blank THEN "default" ELSE list
           cipher == IF m = "legacy" THEN "given" ELSE "empty"
           more1 == Only("ShadowsocksSettings", "shadowsockses", users)
           more2 == Only("Shadowsocks", "method", cipher)
<1>1. /\ dialog' = With(With(base, more1), more2)
      /\ UNCHANGED <<row, meant, asked, strayed, edits>>
      /\ dialog.protocol = "shadowsocks"
  BY DEF ChooseMethod, Change
<1>2. kept \in Entries
  <2>1. S \in SUBSET DOMAIN dialog.entered /\ dialog.entered \in Entries
    BY DialogFields DEF IInv
  <2> HIDE DEF S
  <2> QED
    BY <2>1, Fewer
<1>3. users \in Values /\ cipher \in Values
  <2>1. list \in Values
    BY DialogFields, AtTyped DEF IInv, Field
  <2> HIDE DEF list
  <2> QED
    BY <2>1 DEF Values, Value
<1> HIDE DEF kept
<1>4. /\ drawn \in Dialogs /\ drawn.protocol = "shadowsocks"
      /\ drawn.network = dialog.network /\ drawn.security = dialog.security
  BY <1>1, <1>2 DEF Dialogs, IInv
<1> HIDE DEF drawn
<1>5. left \in Entries
  <2> DEFINE R == {q \in DOMAIN drawn.entered : q[1] \notin {"Shadowsocks"}}
  <2>1. left = [p \in R |-> drawn.entered[p]]
    BY DEF Without
  <2>2. R \in SUBSET DOMAIN drawn.entered /\ drawn.entered \in Entries
    BY <1>4, DialogFields
  <2> HIDE DEF R, left
  <2> QED
    BY <2>1, <2>2, Fewer
<1> HIDE DEF left
<1>6. /\ base \in Dialogs /\ base.protocol = "shadowsocks"
      /\ base.network = dialog.network /\ base.security = dialog.security
  BY <1>4, <1>5 DEF Dialogs
<1> HIDE DEF base, users, cipher
<1>7. Sound(base)
  BY <1>1, <1>6, SoundAs DEF IInv
<1>8. /\ DOMAIN more1 \subseteq Fillable /\ \A p \in DOMAIN more1 : more1[p] \in Values
      /\ DOMAIN more2 \subseteq Fillable /\ \A p \in DOMAIN more2 : more2[p] \in Values
      /\ <<"VLESS", "flow">> \notin DOMAIN more1 \cup DOMAIN more2
  <2>1. <<"ShadowsocksSettings", "shadowsockses">> \in Fillable /\ <<"Shadowsocks", "method">> \in Fillable
    BY ChangedPairs DEF Changed
  <2> QED
    BY <1>3, <2>1 DEF Only
<1> HIDE DEF more1, more2
<1>9. With(base, more1) \in Dialogs /\ Sound(With(base, more1))
  BY <1>6, <1>7, <1>8, WithSound
<1>10. With(With(base, more1), more2) \in Dialogs /\ Sound(With(With(base, more1), more2))
  BY <1>8, <1>9, WithSound
<1> QED
  BY <1>1, <1>10, ChangeKeeps DEF IInv

LEMMA EnterKeeps ==
  ASSUME IInv, NEW p \in Pairs \cup Controls, Enter(p[1], p[2])
  PROVE  IInv'
<1> DEFINE c == p[1]
           f == p[2]
<1>1. PICK v \in Enterable(InboundTable[c], f) :
        /\ <<c, f>> \in Controls => v = IF Field(dialog, c, f) = "other"
                                          THEN DefaultOf(InboundTable[c], f) ELSE "other"
        /\ Change(With(dialog, Only(c, f, v)))
  BY DEF Enter
<1>2. v \in Values
  BY DEF Enterable, Values, Value
<1>3. Offered(dialog, c, f)
  BY DEF Enter
<1>4. p \in Pairs
  BY DecidingPairs DEF Controls, Deciding
<1>5. p = <<c, f>> /\ <<c, f>> \in Fillable
  BY <1>3, <1>4, PairParts DEF Offered, Fillable
<1>6. <<c, f>> = <<"VLESS", "flow">> => CanEnableTlsFlow(dialog)
  BY <1>3 DEF Offered
<1> HIDE DEF c, f
<1>7. /\ DOMAIN Only(c, f, v) \subseteq Fillable
      /\ \A q \in DOMAIN Only(c, f, v) : Only(c, f, v)[q] \in Values
      /\ <<"VLESS", "flow">> \in DOMAIN Only(c, f, v) => CanEnableTlsFlow(dialog)
  BY <1>2, <1>5, <1>6 DEF Only
<1>8. With(dialog, Only(c, f, v)) \in Dialogs /\ Sound(With(dialog, Only(c, f, v)))
  BY <1>7, WithSound DEF IInv
<1>9. edits' \in 0..MaxEdits
  BY MaxEditsAssumption DEF Enter, IInv
<1>10. dialog' = With(dialog, Only(c, f, v)) /\ UNCHANGED <<row, meant, asked, strayed>>
  BY <1>1 DEF Change
<1> QED
  BY <1>8, <1>9, <1>10, ChangeKeeps DEF IInv

LEMMA OkKeeps == IInv /\ Ok => IInv'
<1> SUFFICES ASSUME IInv, Ok
             PROVE  IInv'
  OBVIOUS
<1>1. CASE dialog.security = "reality" /\ ~HasKey(dialog)
  <2>1. /\ asked' = [by |-> "ok", same |-> TRUE, keyed |-> FALSE]
        /\ UNCHANGED <<dialog, row, meant, strayed, edits>>
    BY <1>1 DEF Ok
  <2>2. asked' \in Questions
    BY <2>1 DEF Questions
  <2> QED
    BY <2>1, <2>2, ChangeKeeps DEF IInv
<1>2. CASE ~(dialog.security = "reality" /\ ~HasKey(dialog))
  BY <1>2, ConfirmKeeps DEF Ok, IInv
<1> QED
  BY <1>1, <1>2

LEMMA AskKeeps == IInv /\ GetNewX25519Cert => IInv'
<1> SUFFICES ASSUME IInv, GetNewX25519Cert
             PROVE  IInv'
  OBVIOUS
<1>1. asked' \in Questions
  BY DEF GetNewX25519Cert, Questions
<1> QED
  BY <1>1, ChangeKeeps DEF GetNewX25519Cert, IInv

LEMMA KeysSound ==
  ASSUME NEW d \in Dialogs, Sound(d), NEW v \in Values
  PROVE  /\ With(d, Keys(v)) \in Dialogs /\ Sound(With(d, Keys(v)))
         /\ With(d, Keys(v)).security = d.security
<1>1. /\ DOMAIN Keys(v) \subseteq Fillable /\ \A p \in DOMAIN Keys(v) : Keys(v)[p] \in Values
      /\ <<"VLESS", "flow">> \notin DOMAIN Keys(v)
  <2>1. <<"Reality", "privateKey">> \in Fillable /\ <<"RealitySettings", "publicKey">> \in Fillable
    BY ChangedPairs DEF Changed
  <2> QED
    BY <2>1 DEF Keys
<1> QED
  BY <1>1, WithSound, WithHas

LEMMA ClearKeeps == IInv /\ ClearX25519Cert => IInv'
<1> SUFFICES ASSUME IInv, ClearX25519Cert
             PROVE  IInv'
  OBVIOUS
<1>1. "empty" \in Values
  BY DEF Values, Value
<1>2. With(dialog, Keys("empty")) \in Dialogs /\ Sound(With(dialog, Keys("empty")))
  BY <1>1, KeysSound DEF IInv
<1> QED
  BY <1>2, ChangeKeeps DEF ClearX25519Cert, Change, IInv

LEMMA KeyAnswerKeeps ==
  ASSUME IInv, NEW success \in BOOLEAN, KeyAnswer(success)
  PROVE  IInv'
<1> DEFINE d == IF success THEN With(dialog, Keys("given")) ELSE dialog
           keyed == IF asked.same THEN HasKey(d) ELSE asked.keyed
<1>1. d \in Dialogs /\ Sound(d)
  <2>1. "given" \in Values
    BY DEF Values, Value
  <2> QED
    BY <2>1, KeysSound DEF IInv
<1>2. asked' \in Questions
  BY DEF KeyAnswer, NotAsked, Questions
<1>3. UNCHANGED edits
  BY DEF KeyAnswer
<1>4. /\ asked.by = "ok" /\ keyed => Confirm(d, ~asked.same)
      /\ ~(asked.by = "ok" /\ keyed) => /\ dialog' = IF d.shown THEN d ELSE Closed
                                        /\ UNCHANGED <<row, meant, strayed>>
  BY DEF KeyAnswer
<1> HIDE DEF d
<1>5. CASE asked.by = "ok" /\ keyed
  <2>1. (~asked.same) \in BOOLEAN
    BY Zenon
  <2>2. d.security = "reality" /\ asked.same => HasKey(d)
    BY <1>5
  <2>3. Confirm(d, ~asked.same)
    BY <1>4, <1>5
  <2> QED
    BY <1>1, <1>2, <1>3, <2>1, <2>2, <2>3, ConfirmKeeps
<1>6. CASE ~(asked.by = "ok" /\ keyed)
  <2>1. dialog' \in Dialogs /\ Sound(dialog') /\ UNCHANGED <<row, meant, strayed>>
    BY <1>1, <1>4, <1>6, NewDialogs
  <2>2. edits' \in 0..MaxEdits
    BY <1>3 DEF IInv
  <2> QED
    BY <1>2, <2>1, <2>2, ChangeKeeps
<1> QED
  BY <1>5, <1>6

LEMMA CloneKeeps == IInv /\ CloneInbound => IInv'
<1> SUFFICES ASSUME IInv, CloneInbound
             PROVE  IInv'
  OBVIOUS
<1>1. PICK d \in Dialogs : Saves(d)
  BY DEF IInv, CloneInbound
<1> DEFINE base == Loaded(row)
           S == {q \in DOMAIN base.entered : q[1] \in StreamClasses(base) \cup {"Sniffing"}}
           kept == [p \in S |-> base.entered[p]]
           copy == [base EXCEPT !.method = "many", !.entered = kept]
<1>2. Confirm(copy, strayed) /\ UNCHANGED <<asked, edits>>
  BY DEF CloneInbound
<1>3. /\ base \in Dialogs /\ Sound(base)
      /\ base.security = d.security /\ base.protocol = d.protocol
  BY <1>1, LoadedTyped, ShownSound DEF Saves
<1>4. base.security = "reality" /\ ~strayed => HasKey(base)
  <2> SUFFICES ASSUME base.security = "reality", ~strayed
               PROVE  HasKey(base)
    OBVIOUS
  <2>1. CanEnableStream(d) /\ d.security = "reality"
    BY <1>1, <1>3 DEF Saves, Sound, CanEnableTls, CanEnableStream
  <2>2. "Reality" \in Written(d) /\ <<"Reality", "privateKey">> \in Deciding
    BY <2>1, RealityWritten DEF Deciding
  <2>3. Field(base, "Reality", "privateKey") = Field(d, "Reality", "privateKey")
    BY <1>1, <2>2, DecidingShown DEF Saves
  <2> QED
    BY <1>1, <2>1, <2>3 DEF Saves, HasKey
<1> HIDE DEF base
<1>5. /\ kept \in Entries
      /\ \A c, f : At(InboundTable, kept, c, f) =
           IF <<c, f>> \in S THEN At(InboundTable, base.entered, c, f)
           ELSE DefaultOf(InboundTable[c], f)
  <2>1. S \in SUBSET DOMAIN base.entered /\ base.entered \in Entries
    BY <1>3, DialogFields
  <2> HIDE DEF S
  <2> QED
    BY <2>1, Fewer
<1>6. At(InboundTable, kept, "VLESS", "flow") = "empty"
  <2>1. "VLESS" \notin StreamClasses(base)
    BY <1>3, NetworkClassesAre DEF StreamClasses, SecurityClasses
  <2>2. <<"VLESS", "flow">> \notin S
    BY <2>1
  <2> QED
    BY <1>5, <2>2, FlowDefault
<1>7. base.security = "reality" /\ HasKey(base)
        => At(InboundTable, kept, "Reality", "privateKey") # "empty"
  <2> SUFFICES ASSUME base.security = "reality", HasKey(base)
               PROVE  At(InboundTable, kept, "Reality", "privateKey") # "empty"
    OBVIOUS
  <2>1. "Reality" \in StreamClasses(base)
    BY DEF StreamClasses, SecurityClasses
  <2>2. <<"Reality", "privateKey">> \in DOMAIN base.entered
          => <<"Reality", "privateKey">> \in S
    BY <2>1
  <2>3. <<"Reality", "privateKey">> \notin DOMAIN base.entered
          => At(InboundTable, base.entered, "Reality", "privateKey")
               = DefaultOf(InboundTable["Reality"], "privateKey")
    BY DEF At
  <2>4. At(InboundTable, base.entered, "Reality", "privateKey") # "empty"
    BY DEF HasKey, Field
  <2> HIDE DEF S, kept
  <2> QED
    BY <1>5, <2>2, <2>3, <2>4
<1> HIDE DEF kept
<1>8. /\ copy \in Dialogs /\ copy.entered = kept /\ copy.security = base.security
      /\ copy.protocol = base.protocol /\ copy.network = base.network
  BY <1>3, <1>5 DEF Dialogs, Methods
<1> HIDE DEF copy
<1>9. Sound(copy)
  BY <1>3, <1>6, <1>8, SoundAs DEF Field
<1>10. copy.security = "reality" /\ ~strayed => HasKey(copy)
  BY <1>4, <1>7, <1>8 DEF HasKey, Field
<1> QED
  BY <1>2, <1>8, <1>9, <1>10, ConfirmKeeps DEF IInv

LEMMA NextKeeps == IInv /\ [InboundNext]_dialogVars => IInv'
<1> SUFFICES ASSUME IInv, [InboundNext]_dialogVars
             PROVE  IInv'
  OBVIOUS
<1>1. CASE OpenAddInbound
  BY <1>1, NewDialogs, ShowKeeps DEF OpenAddInbound
<1>2. CASE OpenEditInbound
  BY <1>2, OpenEditKeeps
<1>3. CASE Cancel
  BY <1>3, CancelKeeps
<1>4. CASE \E p \in Protocols : ChooseProtocol(p)
  BY <1>4, ChooseProtocolKeeps
<1>5. CASE \E n \in Networks : ChooseNetwork(n)
  BY <1>5, ChooseNetworkKeeps
<1>6. CASE \E s \in {"none", "tls", "reality"} : ChooseSecurity(s)
  BY <1>6, ChooseSecurityKeeps
<1>7. CASE \E m \in Methods : ChooseMethod(m)
  BY <1>7, ChooseMethodKeeps
<1>8. CASE \E p \in (IF edits < MaxEdits THEN Pairs ELSE Controls) : Enter(p[1], p[2])
  BY <1>8, EnterKeeps
<1>9. CASE Ok
  BY <1>9, OkKeeps
<1>10. CASE GetNewX25519Cert
  BY <1>10, AskKeeps
<1>11. CASE ClearX25519Cert
  BY <1>11, ClearKeeps
<1>12. CASE \E success \in BOOLEAN : KeyAnswer(success)
  BY <1>12, KeyAnswerKeeps
<1>13. CASE CloneInbound
  BY <1>13, CloneKeeps
<1>14. CASE UNCHANGED dialogVars
  BY <1>14, ChangeKeeps DEF IInv, dialogVars
<1> QED
  BY <1>1, <1>2, <1>3, <1>4, <1>5, <1>6, <1>7, <1>8, <1>9, <1>10, <1>11, <1>12, <1>13,
     <1>14 DEF InboundNext

\* Whatever is chosen, entered, saved and cloned, and whenever key pairs are answered,
\* the dialog and the row hold what fits together.
THEOREM Invariance == InboundSpec => []IInv
<1>1. InboundInit => IInv
  BY InitKeeps
<1>2. IInv /\ [InboundNext]_dialogVars => IInv'
  BY NextKeeps
<1> QED
  BY <1>1, <1>2, PTL DEF InboundSpec

-----------------------------------------------------------------------------
(* What follows. *)

\* The values of the fields and the combinations of the forms, however many fields
\* are entered.
THEOREM DialogTyped == InboundSpec => []DialogTypeOK
<1>1. IInv => DialogTypeOK
  <2> SUFFICES ASSUME IInv
               PROVE  DialogTypeOK
    OBVIOUS
  <2>1. ASSUME NEW d \in Dialogs
        PROVE  /\ d.network \in Networks \cup {"hysteria"}
               /\ d.security \in {"none", "tls", "reality"}
               /\ d.method \in Methods /\ d.protocol \in Protocols
               /\ DOMAIN d.entered \subseteq Pairs
               /\ \A p \in DOMAIN d.entered : d.entered[p] \in Value
    <3>1. d.entered \in [DOMAIN d.entered -> Values] /\ DOMAIN d.entered \subseteq Fillable
      BY DialogFields, EntriesAre
    <3> QED
      BY <3>1, DialogFields DEF Fillable, Values
  <2>2. /\ row.network \in Networks \cup {"hysteria"}
        /\ row.security \in {"none", "tls", "reality"}
        /\ row.method \in Methods /\ row.protocol \in Protocols \cup {"none"}
    <3>1. CASE row = NoRow
      BY <3>1 DEF NoRow, Networks, Methods
    <3>2. CASE \E d \in Dialogs : Saves(d)
      BY <2>1, <3>2, RowHas DEF Saves
    <3> QED
      BY <3>1, <3>2 DEF IInv
  <2>3. /\ asked.by \in {"nobody", "ok", "button"} /\ asked.same \in BOOLEAN
        /\ asked.keyed \in BOOLEAN /\ strayed \in BOOLEAN
    BY DEF IInv, Questions
  <2> QED
    BY <2>1, <2>2, <2>3 DEF IInv, DialogTypeOK
<1> QED
  BY <1>1, Invariance, PTL

LEMMA OpenedSound ==
  ASSUME IInv, row # NoRow
  PROVE  /\ Sound(Opened(row))
         /\ Opened(row).protocol = row.protocol /\ Opened(row).network = row.network
         /\ Opened(row).security = row.security
<1>1. PICK d \in Dialogs : Saves(d)
  BY DEF IInv
<1> QED
  BY <1>1, ShownSound, OpenedShows, RowHas DEF Saves

\* No client of a saved inbound has a flow that its stream cannot carry, in whatever
\* order protocol, network, security and flow were chosen, and through any number of
\* openings and clones.
THEOREM FlowsAreCarried == InboundSpec => []FlowCarried
<1>1. IInv => FlowCarried
  <2> SUFFICES ASSUME IInv, row.protocol = "vless",
                      Field(Opened(row), "VLESS", "flow") # "empty"
               PROVE  row.network = "tcp" /\ row.security \in {"tls", "reality"}
    BY DEF FlowCarried
  <2>1. row # NoRow
    BY DEF NoRow
  <2> QED
    BY <2>1, OpenedSound DEF Sound, CanEnableTlsFlow
<1> QED
  BY <1>1, Invariance, PTL

\* A saved inbound has TLS or Reality only on a protocol and a network that can.
THEOREM SecurityIsFitting == InboundSpec => []SecurityFits
<1>1. IInv => SecurityFits
  <2> SUFFICES ASSUME IInv, row.protocol # "none", row.security # "none"
               PROVE  CanEnableTls(Opened(row))
    BY DEF SecurityFits
  <2>1. row # NoRow
    BY DEF NoRow
  <2> QED
    BY <2>1, OpenedSound DEF Sound
<1> QED
  BY <1>1, Invariance, PTL

\* Reality is saved with a private key, unless an OK pressed in another dialog saved
\* it, however late the key pairs are answered and whatever is cleared or cloned.
THEOREM RealityHasItsKey == InboundSpec => []RealityKeyed
<1>1. IInv => RealityKeyed
  <2> SUFFICES ASSUME IInv, row.security = "reality", ~strayed
               PROVE  HasKey(Opened(row))
    BY DEF RealityKeyed
  <2>1. row # NoRow
    BY DEF NoRow
  <2>2. PICK d \in Dialogs : Saves(d)
    BY <2>1 DEF IInv
  <2>3. d.security = "reality" /\ HasKey(d) /\ CanEnableStream(d)
    BY <2>2, RowHas DEF Saves, Sound, CanEnableTls, CanEnableStream
  <2>4. "Reality" \in Written(d) /\ <<"Reality", "privateKey">> \in Deciding
    BY <2>3, RealityWritten DEF Deciding
  <2>5. "Reality" \in DOMAIN InboundTable /\ "privateKey" \in FieldsOf(InboundTable["Reality"])
    <3>1. <<"Reality", "privateKey">> \in Pairs
      BY <2>4, DecidingPairs
    <3> QED
      BY <3>1, PairParts
  <2>6. Field(Opened(row), "Reality", "privateKey") = Field(d, "Reality", "privateKey")
    BY <2>2, <2>4, <2>5, DecidingShown, OpenedShows DEF Saves
  <2> QED
    BY <2>3, <2>6 DEF HasKey
<1> QED
  BY <1>1, Invariance, PTL

\* A field that is saved is read as it was, or is one of those the classes give up.
LEMMA BackOrLost ==
  ASSUME NEW d, NEW c \in DOMAIN InboundTable, NEW f, f \notin InboundTable[c].unwritten,
         Field(d, c, f) \in Values,
         NEW gate \in BOOLEAN, f \in InboundTable[c].gated => gate
  PROVE  Back(InboundTable[c], f, Field(d, c, f), gate) = Field(d, c, f) \/ Lost(d, c, f)
<1> DEFINE k == InboundTable[c]
           v == Field(d, c, f)
<1>1. k.ifNew \subseteq k.full /\ k.maps \subseteq k.headers
  BY TableWellFormed DEF WellFormed, Shaped
<1>2. /\ v = "empty" /\ f \in k.full /\ f \in k.orElse \cup k.ifSet => Lost(d, c, f)
      /\ v = "cleared" /\ f \in k.ifNull => Lost(d, c, f)
      /\ v \in {"blank", "partly"} /\ f \in k.headers => Lost(d, c, f)
      /\ v = "twice" /\ f \in k.maps => Lost(d, c, f)
  BY DEF Lost
<1>3. f \notin k.unwritten /\ v \in Values /\ (f \in k.gated => gate)
  OBVIOUS
<1> HIDE DEF k, v
<1>4. v = "empty" => Back(k, f, v, gate) = v \/ Lost(d, c, f)
  BY <1>1, <1>2, <1>3, ListedIs DEF Back, Dropped, DefaultOf
<1>5. v = "cleared" => Back(k, f, v, gate) = v \/ Lost(d, c, f)
  BY <1>1, <1>2, <1>3, ListedIs DEF Back, Dropped, DefaultOf
<1>6. v \in {"blank", "partly", "twice"} => Back(k, f, v, gate) = v \/ Lost(d, c, f)
  BY <1>1, <1>2, <1>3 DEF Back, Dropped, Listed
<1>7. v \notin {"empty", "cleared", "blank", "partly", "twice"} => Back(k, f, v, gate) = v \/ Lost(d, c, f)
  BY <1>1, <1>2, <1>3, ListedIs DEF Back, Dropped, DefaultOf
<1>8. Back(k, f, v, gate) = v \/ Lost(d, c, f)
  BY <1>4, <1>5, <1>6, <1>7
<1> QED
  BY <1>8 DEF k, v

\* What was meant with a field that is not saved is what a new object has.
LEMMA MeantHas ==
  ASSUME NEW d \in Dialogs, NEW c \in DOMAIN InboundTable, NEW f \in FieldsOf(InboundTable[c])
  PROVE  /\ Field(MeantOf(d), c, f) = IF Saved(d, c, f) THEN Field(d, c, f)
                                      ELSE DefaultOf(InboundTable[c], f)
         /\ <<c, f>> \in DOMAIN MeantOf(d).entered
              => Saved(d, c, f) /\ f \notin InboundTable[c].unwritten
         /\ Field(MeantOf(d), c, f) \in Values
<1>1. /\ DOMAIN MeantOf(d).entered = {q \in DOMAIN d.entered : Saved(d, q[1], q[2])}
      /\ \A q \in DOMAIN MeantOf(d).entered : MeantOf(d).entered[q] = d.entered[q]
      /\ MeantOf(d) \in Dialogs
  BY MeantTyped
<1>2. <<c, f>> \in DOMAIN d.entered => f \notin InboundTable[c].unwritten
  <2> DEFINE q == <<c, f>>
  <2>1. q[1] = c /\ q[2] = f
    OBVIOUS
  <2> HIDE DEF q
  <2>2. q \in DOMAIN d.entered => q \in Fillable
    BY DialogFields, EntriesAre
  <2>3. q \in Fillable => q[2] \notin InboundTable[q[1]].unwritten
    BY DEF Fillable
  <2>4. q \in DOMAIN d.entered => f \notin InboundTable[c].unwritten
    BY <2>1, <2>2, <2>3
  <2> QED
    BY <2>4 DEF q
<1>3. Field(MeantOf(d), c, f) \in Values
  BY <1>1, SeenIs
<1>4. <<c, f>> \in DOMAIN MeantOf(d).entered <=> <<c, f>> \in DOMAIN d.entered /\ Saved(d, c, f)
  BY <1>1
<1> QED
  BY <1>1, <1>2, <1>3, <1>4 DEF Field, At

LEMMA MeantShows ==
  ASSUME NEW d \in Dialogs, NEW p \in Pairs
  PROVE  \/ Field(Opened(RowOf(d)), p[1], p[2]) = Field(MeantOf(d), p[1], p[2])
         \/ Lost(MeantOf(d), p[1], p[2])
<1> DEFINE c == p[1]
           f == p[2]
           k == InboundTable[c]
           m == MeantOf(d)
<1>1. p = <<c, f>> /\ c \in DOMAIN InboundTable /\ f \in FieldsOf(k)
  BY PairParts
<1>2. /\ Field(m, c, f) = IF Saved(d, c, f) THEN Field(d, c, f) ELSE DefaultOf(k, f)
      /\ Field(m, c, f) \in Values
  BY <1>1, MeantHas
<1>3. Field(d, c, f) \in Values /\ Gate(d, c) \in BOOLEAN /\ Shaped(k)
  BY <1>1, SeenIs, GateTyped, TableWellFormed DEF WellFormed
<1>4. Field(Opened(RowOf(d)), c, f) =
        IF c \in Written(d) THEN Back(k, f, Seen(d, c, f), Gate(d, c))
        ELSE DefaultOf(k, f)
  BY <1>1, LoadedShows, OpenedShows
<1>5. CASE c \notin Written(d)
  BY <1>2, <1>4, <1>5 DEF Saved
<1>6. CASE c \in Written(d) /\ Seen(d, c, f) # Field(d, c, f)
  <2>1. f \in k.pair /\ \E g \in k.lead : Field(d, c, g) = "empty"
    BY <1>1, <1>6, SeenIs
  <2>2. PICK g \in k.lead : Field(d, c, g) = "empty"
    BY <2>1
  <2>3. g \in FieldsOf(k) /\ g \notin k.gated
    BY <1>3 DEF Shaped
  <2>4. Saved(d, c, g)
    BY <1>6, <2>3 DEF Saved
  <2>5. Field(m, c, g) = "empty"
    BY <1>1, <2>2, <2>3, <2>4, MeantHas
  <2> QED
    BY <2>1, <2>5 DEF Lost
<1>7. CASE c \in Written(d) /\ Seen(d, c, f) = Field(d, c, f) /\ Saved(d, c, f)
  <2>1. Field(Opened(RowOf(d)), c, f) = Back(k, f, Field(m, c, f), Gate(d, c))
    BY <1>2, <1>4, <1>7
  <2>2. f \in k.gated => Gate(d, c)
    BY <1>7 DEF Saved
  <2>3. CASE f \in k.unwritten
    <3>1. <<c, f>> \notin DOMAIN m.entered
      BY <1>1, <2>3, MeantHas
    <3>2. Field(m, c, f) = DefaultOf(k, f)
      BY <3>1 DEF Field, At
    <3> QED
      BY <1>3, <2>1, <3>2, BackDefault
  <2>4. CASE f \notin k.unwritten
    <3>1. Back(k, f, Field(m, c, f), Gate(d, c)) = Field(m, c, f) \/ Lost(m, c, f)
      <4> HIDE DEF m, c, f
      <4> QED
        BY <1>1, <1>2, <1>3, <2>2, <2>4, BackOrLost
    <3> QED
      BY <2>1, <3>1
  <2> QED
    BY <2>3, <2>4
<1>8. CASE c \in Written(d) /\ Seen(d, c, f) = Field(d, c, f) /\ ~Saved(d, c, f)
  <2>1. f \in k.gated /\ ~Gate(d, c)
    BY <1>8 DEF Saved
  <2> QED
    BY <1>2, <1>4, <1>8, <2>1 DEF Back, Dropped
<1> QED
  BY <1>5, <1>6, <1>7, <1>8

\* An inbound opened again shows what was saved, but for what Lost names, and nothing
\* else, with any number of fields entered in any of its classes, after any choices,
\* openings and clones.
THEOREM SettingsAreKept == InboundSpec => []KeptSettings
<1>1. IInv => KeptSettings
  <2> SUFFICES ASSUME IInv, row # NoRow
               PROVE  LET d == Opened(row)
                      IN  /\ NewFormsReread
                          /\ <<d.protocol, d.network, d.security, d.method>>
                               = <<meant.protocol, meant.network, meant.security, meant.method>>
                          /\ \A p \in DOMAIN d.entered \cup DOMAIN meant.entered :
                              \/ Field(d, p[1], p[2]) = Field(meant, p[1], p[2])
                              \/ Lost(meant, p[1], p[2])
    BY DEF KeptSettings
  <2>1. PICK d \in Dialogs : Saves(d)
    BY DEF IInv
  <2>2. row = RowOf(d) /\ meant = MeantOf(d)
    BY <2>1 DEF Saves
  <2>3. <<Opened(row).protocol, Opened(row).network, Opened(row).security, Opened(row).method>>
          = <<meant.protocol, meant.network, meant.security, meant.method>>
    BY <2>2, OpenedShows, MeantTyped
  <2>4. ASSUME NEW p \in DOMAIN Opened(row).entered \cup DOMAIN meant.entered
        PROVE  \/ Field(Opened(row), p[1], p[2]) = Field(meant, p[1], p[2])
               \/ Lost(meant, p[1], p[2])
    <3>1. Opened(row) \in Dialogs /\ meant \in Dialogs
      BY <2>2, OpenedShows, MeantTyped
    <3>2. p \in Pairs
      BY <3>1, DialogFields, EntriesAre DEF Fillable
    <3> QED
      BY <2>2, <3>2, MeantShows
  <2> QED
    BY <2>3, <2>4, NewReread
<1> QED
  BY <1>1, Invariance, PTL

-------------------------------------------------------------------------------
(* Links and outbounds.                                                    *)

\* What the classes of an outbound have in common beside their shape: every field is
\* read and written, and one that is needed is written whatever the others are.
Complete(k) ==
  /\ k.unread = {} /\ k.unwritten = {} /\ k.ifNew = {} /\ k.ifNull = {} /\ k.headers = {}
  /\ k.pair = {}
  /\ k.needs \subseteq FieldsOf(k)
  /\ k.needs \cap k.gated = {}

Regular(k) == Shaped(k) /\ Complete(k)

LEMMA OutStreamsRegular ==
  /\ Regular(Out!Tcp) /\ Regular(Out!Kcp) /\ Regular(Out!Ws) /\ Regular(Out!Grpc)
  /\ Regular(Out!HttpUpgrade) /\ Regular(Out!XHTTP) /\ Regular(Out!Hysteria)
  /\ Regular(Out!Tls) /\ Regular(Out!Reality) /\ Regular(Out!Sockopt) /\ Regular(Out!Mux)
<1> USE DEF Regular, Complete, Shaped, Distinct, FieldsOf, Out!Class, Out!Plain, Out!Same
<1>1. Regular(Out!Tcp)
  BY DEF Out!Tcp
<1>2. Regular(Out!Kcp)
  BY DEF Out!Kcp
<1>3. Regular(Out!Ws)
  BY DEF Out!Ws
<1>4. Regular(Out!Grpc)
  BY DEF Out!Grpc
<1>5. Regular(Out!HttpUpgrade)
  BY DEF Out!HttpUpgrade
<1>6. Regular(Out!XHTTP)
  BY DEF Out!XHTTP
<1>7. Regular(Out!Hysteria)
  BY DEF Out!Hysteria
<1>8. Regular(Out!Tls)
  BY DEF Out!Tls
<1>9. Regular(Out!Reality)
  BY DEF Out!Reality
<1>10. Regular(Out!Sockopt)
  BY DEF Out!Sockopt
<1>11. Regular(Out!Mux)
  BY DEF Out!Mux
<1> QED
  BY <1>1, <1>2, <1>3, <1>4, <1>5, <1>6, <1>7, <1>8, <1>9, <1>10, <1>11

LEMMA OutSettingsRegular ==
  /\ Regular(Out!FreedomSettings) /\ Regular(Out!Fragment) /\ Regular(Out!Noise)
  /\ Regular(Out!FinalRule) /\ Regular(Out!BlackholeSettings) /\ Regular(Out!DNSRule)
  /\ Regular(Out!DNSSettings) /\ Regular(Out!VmessSettings) /\ Regular(Out!VLESSSettings)
  /\ Regular(Out!TrojanSettings) /\ Regular(Out!ShadowsocksSettings)
  /\ Regular(Out!SocksSettings) /\ Regular(Out!HttpSettings)
  /\ Regular(Out!WireguardSettings) /\ Regular(Out!WireguardPeer)
  /\ Regular(Out!HysteriaSettings)
<1> USE DEF Regular, Complete, Shaped, Distinct, FieldsOf, Out!Class, Out!Plain, Out!Same
<1>1. Regular(Out!FreedomSettings) /\ Regular(Out!Fragment) /\ Regular(Out!Noise)
  BY DEF Out!FreedomSettings, Out!Fragment, Out!Noise
<1>2. Regular(Out!FinalRule)
  BY DEF Out!FinalRule
<1>3. Regular(Out!BlackholeSettings) /\ Regular(Out!DNSRule) /\ Regular(Out!DNSSettings)
  BY DEF Out!BlackholeSettings, Out!DNSRule, Out!DNSSettings
<1>4. Regular(Out!VmessSettings)
  BY DEF Out!VmessSettings
<1>5. Regular(Out!VLESSSettings)
  BY DEF Out!VLESSSettings
<1>6. Regular(Out!TrojanSettings) /\ Regular(Out!ShadowsocksSettings)
  <2>1. Regular(Out!TrojanSettings)
    BY DEF Out!TrojanSettings
  <2>2. Regular(Out!ShadowsocksSettings)
    BY DEF Out!ShadowsocksSettings
  <2> QED
    BY <2>1, <2>2
<1>7. Regular(Out!SocksSettings) /\ Regular(Out!HttpSettings)
  BY DEF Out!SocksSettings, Out!HttpSettings
<1>8. Regular(Out!WireguardSettings)
  BY DEF Out!WireguardSettings
<1>9. Regular(Out!WireguardPeer) /\ Regular(Out!HysteriaSettings)
  BY DEF Out!WireguardPeer, Out!HysteriaSettings
<1> QED
  BY <1>1, <1>2, <1>3, <1>4, <1>5, <1>6, <1>7, <1>8, <1>9

\* What is left of writing and reading when there are no headers and no pairs.
LEMMA RegularBack ==
  ASSUME NEW k, Regular(k), NEW f, NEW v, NEW gate
  PROVE  /\ Back(k, f, v, gate) =
               IF Dropped(k, f, v, gate) \/ (v = "empty" /\ f \in k.orElse)
                 THEN DefaultOf(k, f) ELSE v
         /\ \A form : Redrawn(k, form, f) = form[f]
<1>1. /\ k.maps \subseteq k.headers /\ f \notin k.headers /\ f \notin k.ifNull /\ f \notin k.pair
  BY DEF Regular, Complete, Shaped
<1>2. Listed(k, f, v) = v
  BY <1>1, ListedIs
<1>3. Back(k, f, v, gate) = IF Dropped(k, f, v, gate) \/ (v = "empty" /\ f \in k.orElse)
                              THEN DefaultOf(k, f) ELSE v
  BY <1>1, <1>2 DEF Back, Dropped
<1>4. \A form : Redrawn(k, form, f) = form[f]
  BY <1>1 DEF Redrawn
<1> QED
  BY <1>3, <1>4

LEMMA OutTableRegular == \A c \in DOMAIN Out!Table : Regular(Out!Table[c])
  BY OutStreamsRegular, OutSettingsRegular DEF Out!Table

-----------------------------------------------------------------------------
(* A form of an outbound that is saved and opened again. *)

LEMMA OutGateTyped ==
  ASSUME NEW c, NEW form
  PROVE  Out!Gate(c, form) \in BOOLEAN
<1>1. CASE c = "Tcp"
  BY <1>1 DEF Out!Gate
<1>2. CASE c = "Hysteria"
  BY <1>2 DEF Out!Gate
<1>3. CASE c = "FinalRule"
  BY <1>3 DEF Out!Gate
<1>4. CASE c = "VLESSSettings"
  BY <1>4 DEF Out!Gate
<1>5. CASE c \in {"SocksSettings", "HttpSettings"}
  BY <1>5 DEF Out!Gate
<1>6. CASE c \notin {"Tcp", "Hysteria", "FinalRule", "VLESSSettings", "SocksSettings",
                     "HttpSettings"}
  BY <1>6 DEF Out!Gate
<1> QED
  BY <1>1, <1>2, <1>3, <1>4, <1>5, <1>6

\* The field a gate asks of is not gated, and what it was when it opened the gate is
\* what it is when it is read again.
Asked(c) ==
  CASE c = "Tcp" -> {"type"}
    [] c = "Hysteria" -> {"udphopPort"}
    [] c = "FinalRule" -> {"action"}
    [] c = "VLESSSettings" -> {"flow"}
    [] c \in {"SocksSettings", "HttpSettings"} -> {"user"}
    [] OTHER -> {}

LEMMA GatedClasses ==
  /\ Out!Table["Tcp"] = Out!Tcp /\ Out!Table["Hysteria"] = Out!Hysteria
  /\ Out!Table["FinalRule"] = Out!FinalRule
  /\ Out!Table["VLESSSettings"] = Out!VLESSSettings
  /\ Out!Table["SocksSettings"] = Out!SocksSettings
  /\ Out!Table["HttpSettings"] = Out!HttpSettings
  BY DEF Out!Table

LEMMA GateAsks ==
  ASSUME NEW c \in DOMAIN Out!Table
  PROVE  /\ Asked(c) \subseteq FieldsOf(Out!Table[c])
         /\ Asked(c) \cap Out!Table[c].gated = {}
         /\ \A form, other : (\A f \in Asked(c) : form[f] = other[f])
                               => Out!Gate(c, form) = Out!Gate(c, other)
<1>1. CASE c = "Tcp"
  <2>1. "type" \in FieldsOf(Out!Tcp) /\ "type" \notin Out!Tcp.gated
    BY DEF FieldsOf, Out!Class, Out!Same, Out!Tcp
  <2> QED
    BY <1>1, <2>1, GatedClasses DEF Asked, Out!Gate
<1>2. CASE c = "Hysteria"
  <2>1. "udphopPort" \in FieldsOf(Out!Hysteria) /\ "udphopPort" \notin Out!Hysteria.gated
    BY DEF FieldsOf, Out!Class, Out!Same, Out!Hysteria
  <2> QED
    BY <1>2, <2>1, GatedClasses DEF Asked, Out!Gate
<1>3. CASE c = "FinalRule"
  <2>1. "action" \in FieldsOf(Out!FinalRule) /\ "action" \notin Out!FinalRule.gated
    BY DEF FieldsOf, Out!Class, Out!Plain, Out!Same, Out!FinalRule
  <2> QED
    BY <1>3, <2>1, GatedClasses DEF Asked, Out!Gate
<1>4. CASE c = "VLESSSettings"
  <2>1. "flow" \in FieldsOf(Out!VLESSSettings) /\ "flow" \notin Out!VLESSSettings.gated
    BY DEF FieldsOf, Out!Class, Out!Same, Out!VLESSSettings
  <2> QED
    BY <1>4, <2>1, GatedClasses DEF Asked, Out!Gate
<1>5. CASE c \in {"SocksSettings", "HttpSettings"}
  <2>1. /\ "user" \in FieldsOf(Out!SocksSettings) /\ "user" \notin Out!SocksSettings.gated
        /\ "user" \in FieldsOf(Out!HttpSettings) /\ "user" \notin Out!HttpSettings.gated
    BY DEF FieldsOf, Out!Class, Out!Plain, Out!Same, Out!SocksSettings, Out!HttpSettings
  <2>2. Asked(c) = {"user"}
    BY <1>5 DEF Asked
  <2>3. \A form : Out!Gate(c, form) = (form["user"] # "empty")
    BY <1>5 DEF Out!Gate
  <2>4. Out!Table[c] = Out!SocksSettings \/ Out!Table[c] = Out!HttpSettings
    BY <1>5, GatedClasses
  <2> QED
    BY <2>1, <2>2, <2>3, <2>4
<1>6. CASE c \notin {"Tcp", "Hysteria", "FinalRule", "VLESSSettings", "SocksSettings",
                     "HttpSettings"}
  BY <1>6 DEF Out!Gate, Asked
<1> QED
  BY <1>1, <1>2, <1>3, <1>4, <1>5, <1>6

\* A gate that is open is open when the form is read again; that of FinalRule can open
\* then, when an action that was emptied comes back as the default.
LEMMA GateKept ==
  ASSUME NEW c \in DOMAIN Out!Table, NEW form \in Forms(Out!Table[c]), NEW gate \in BOOLEAN,
         Out!Gate(c, form)
  PROVE  Out!Gate(c, [f \in FieldsOf(Out!Table[c]) |-> Back(Out!Table[c], f, form[f], gate)])
<1> DEFINE once == [f \in FieldsOf(Out!Table[c]) |-> Back(Out!Table[c], f, form[f], gate)]
<1> SUFFICES Out!Gate(c, once)
  OBVIOUS
<1>1. \A f \in Asked(c) : once[f] = Back(Out!Table[c], f, form[f], gate)
  BY GateAsks
<1> HIDE DEF once
<1>2. CASE c = "Tcp"
  <2>1. \A v : Back(Out!Tcp, "type", v, gate) =
                IF Dropped(Out!Tcp, "type", v, gate) \/ (v = "empty" /\ "type" \in Out!Tcp.orElse)
                  THEN DefaultOf(Out!Tcp, "type") ELSE v
    BY RegularBack, OutStreamsRegular
  <2>2. \A v : v # "default" => Back(Out!Tcp, "type", v, gate) # "default"
    BY <2>1 DEF Dropped, DefaultOf, Out!Class, Out!Same, Out!Tcp
  <2> QED
    BY <1>1, <1>2, <2>2, GatedClasses DEF Asked, Out!Gate
<1>3. CASE c = "Hysteria"
  <2>1. \A v : Back(Out!Hysteria, "udphopPort", v, gate) =
                IF Dropped(Out!Hysteria, "udphopPort", v, gate) \/ (v = "empty" /\ "udphopPort" \in Out!Hysteria.orElse)
                  THEN DefaultOf(Out!Hysteria, "udphopPort") ELSE v
    BY RegularBack, OutStreamsRegular
  <2>2. \A v : v # "empty" => Back(Out!Hysteria, "udphopPort", v, gate) # "empty"
    BY <2>1 DEF Dropped, DefaultOf, Out!Class, Out!Same, Out!Hysteria
  <2> QED
    BY <1>1, <1>3, <2>2, GatedClasses DEF Asked, Out!Gate
<1>4. CASE c = "FinalRule"
  <2>1. \A v : Back(Out!FinalRule, "action", v, gate) =
                IF Dropped(Out!FinalRule, "action", v, gate) \/ (v = "empty" /\ "action" \in Out!FinalRule.orElse)
                  THEN DefaultOf(Out!FinalRule, "action") ELSE v
    BY RegularBack, OutSettingsRegular
  <2>2. Back(Out!FinalRule, "action", "default", gate) = "default"
    BY <2>1 DEF Dropped, DefaultOf, Out!Class, Out!Plain, Out!Same, Out!FinalRule
  <2> QED
    BY <1>1, <1>4, <2>2, GatedClasses DEF Asked, Out!Gate
<1>5. CASE c = "VLESSSettings"
  <2>1. \A v : Back(Out!VLESSSettings, "flow", v, gate) =
                IF Dropped(Out!VLESSSettings, "flow", v, gate) \/ (v = "empty" /\ "flow" \in Out!VLESSSettings.orElse)
                  THEN DefaultOf(Out!VLESSSettings, "flow") ELSE v
    BY RegularBack, OutSettingsRegular
  <2>2. \A v : v # "empty" => Back(Out!VLESSSettings, "flow", v, gate) # "empty"
    BY <2>1 DEF Dropped, DefaultOf, Out!Class, Out!Same, Out!VLESSSettings
  <2> QED
    BY <1>1, <1>5, <2>2, GatedClasses DEF Asked, Out!Gate
<1>6. CASE c \in {"SocksSettings", "HttpSettings"}
  <2>1. \A v : v # "empty" => /\ Back(Out!SocksSettings, "user", v, gate) # "empty"
                              /\ Back(Out!HttpSettings, "user", v, gate) # "empty"
    <3> SUFFICES ASSUME NEW k, k \in {Out!SocksSettings, Out!HttpSettings},
                        NEW v, v # "empty"
                 PROVE  Back(k, "user", v, gate) # "empty"
      OBVIOUS
    <3>1. Regular(k)
      BY OutSettingsRegular
    <3>2. "user" \notin k.unwritten \cup k.ifSet \cup k.ifNew \cup k.gated
      <4>1. CASE k = Out!SocksSettings
        BY <4>1 DEF Out!Class, Out!Plain, Out!Same, Out!SocksSettings
      <4>2. CASE k = Out!HttpSettings
        BY <4>2 DEF Out!Class, Out!Plain, Out!Same, Out!HttpSettings
      <4> QED
        BY <4>1, <4>2
    <3> QED
      BY <3>1, <3>2, RegularBack DEF Dropped
  <2>2. Asked(c) = {"user"}
    BY <1>6 DEF Asked
  <2>3. \A x : Out!Gate(c, x) = (x["user"] # "empty")
    BY <1>6 DEF Out!Gate
  <2>4. Out!Table[c] = Out!SocksSettings \/ Out!Table[c] = Out!HttpSettings
    BY <1>6, GatedClasses
  <2> QED
    BY <1>1, <2>1, <2>2, <2>3, <2>4
<1>7. CASE c \notin {"Tcp", "Hysteria", "FinalRule", "VLESSSettings", "SocksSettings",
                     "HttpSettings"}
  BY <1>7 DEF Out!Gate
<1> QED
  BY <1>2, <1>3, <1>4, <1>5, <1>6, <1>7

LEMMA NewTyped ==
  ASSUME NEW k
  PROVE  NewForm(k) \in Forms(k)
  BY DEF NewForm, Forms, DefaultOf, Values, Value

LEMMA RereadIs ==
  ASSUME NEW c \in DOMAIN Out!Table, NEW form \in Forms(Out!Table[c])
  PROVE  /\ Reread(c, form) =
              IF Lacks(Out!Table[c], form, Out!Gate(c, form)) THEN NewForm(Out!Table[c])
              ELSE [f \in FieldsOf(Out!Table[c]) |->
                      Back(Out!Table[c], f, form[f], Out!Gate(c, form))]
         /\ Reread(c, form) \in Forms(Out!Table[c])
<1> DEFINE k == Out!Table[c]
           gate == Out!Gate(c, form)
<1>1. Regular(k) /\ Shaped(k) /\ gate \in BOOLEAN
  BY OutTableRegular, OutGateTyped DEF Regular
<1>2. Reread(c, form) = FromJson(k, ToJson(k, form, gate))
  BY DEF Reread
<1> HIDE DEF k, gate
<1>3. form \in Forms(k)
  BY DEF k
<1>4. Reread(c, form) = IF Lacks(k, form, gate) THEN NewForm(k)
                        ELSE [f \in FieldsOf(k) |-> Back(k, f, form[f], gate)]
  <2>1. [f \in FieldsOf(k) |-> Back(k, f, Redrawn(k, form, f), gate)]
          = [f \in FieldsOf(k) |-> Back(k, f, form[f], gate)]
    BY <1>1, RegularBack
  <2> QED
    BY <1>1, <1>2, <1>3, <2>1, ReadAgain
<1>5. \A f \in FieldsOf(k) : Back(k, f, form[f], gate) \in Values
  BY <1>1, <1>3, BackTyped DEF Forms
<1>6. [f \in FieldsOf(k) |-> Back(k, f, form[f], gate)] \in Forms(k)
  BY <1>5 DEF Forms
<1>7. Reread(c, form) \in Forms(k)
  BY <1>4, <1>6, NewTyped
<1> QED
  BY <1>4, <1>7 DEF k, gate

\* A new object stays one.
LEMMA RereadNew ==
  ASSUME NEW c \in DOMAIN Out!Table
  PROVE  Reread(c, NewForm(Out!Table[c])) = NewForm(Out!Table[c])
<1> DEFINE k == Out!Table[c]
           gate == Out!Gate(c, NewForm(k))
<1>1. Reread(c, NewForm(k)) =
        IF Lacks(k, NewForm(k), gate) THEN NewForm(k)
        ELSE [f \in FieldsOf(k) |-> Back(k, f, NewForm(k)[f], gate)]
  BY NewTyped, RereadIs
<1>2. gate \in BOOLEAN /\ Shaped(k)
  BY OutGateTyped, OutTableRegular DEF Regular
<1> HIDE DEF k, gate
<1>3. [f \in FieldsOf(k) |-> Back(k, f, NewForm(k)[f], gate)] = NewForm(k)
  BY <1>2, BackDefault DEF NewForm
<1>4. Reread(c, NewForm(k)) = NewForm(k)
  BY <1>1, <1>3
<1> QED
  BY <1>4 DEF k

\* What has been read again once is not changed by being read again.
LEMMA RereadTwice ==
  ASSUME NEW c \in DOMAIN Out!Table, NEW form \in Forms(Out!Table[c])
  PROVE  Reread(c, Reread(c, form)) = Reread(c, form)
<1> DEFINE k == Out!Table[c]
           gate == Out!Gate(c, form)
           once == [f \in FieldsOf(k) |-> Back(k, f, form[f], gate)]
           open == Out!Gate(c, once)
<1>1. gate \in BOOLEAN /\ open \in BOOLEAN /\ Regular(k) /\ Shaped(k) /\ form \in Forms(k)
  BY OutGateTyped, OutTableRegular DEF Regular
<1>2. Reread(c, form) = IF Lacks(k, form, gate) THEN NewForm(k) ELSE once
  BY RereadIs
<1>3. CASE Lacks(k, form, gate)
  BY <1>2, <1>3, RereadNew
<1>4. CASE ~Lacks(k, form, gate)
  <2>1. Reread(c, form) = once /\ once \in Forms(k)
    BY <1>2, <1>4, RereadIs
  <2>2. gate => open
    BY <1>1, GateKept
  <2>3. Reread(c, once) = IF Lacks(k, once, open) THEN NewForm(k)
                          ELSE [f \in FieldsOf(k) |-> Back(k, f, once[f], open)]
    BY <2>1, RereadIs
  <2> HIDE DEF k, gate, open
  <2>4. \A f \in FieldsOf(k) : form[f] \in Values /\ once[f] = Back(k, f, form[f], gate)
    BY <1>1 DEF Forms
  <2>5. \A f \in FieldsOf(k) : Back(k, f, once[f], open) = once[f]
    BY <1>1, <2>2, <2>4, BackAgain
  <2>6. ~Lacks(k, once, open)
    <3>1. ASSUME NEW f \in FieldsOf(k) \cap k.needs
          PROVE  ~Dropped(k, f, once[f], open) /\ once[f] # "empty"
      <4>1. ~Dropped(k, f, form[f], gate) /\ form[f] # "empty"
        BY <1>4 DEF Lacks
      <4>2. f \notin k.unwritten /\ f \notin k.ifNew /\ f \notin k.gated
        BY <1>1 DEF Regular, Complete
      <4>3. once[f] = form[f]
        BY <1>1, <2>4, <4>1, RegularBack
      <4> QED
        BY <4>1, <4>2, <4>3 DEF Dropped
    <3> QED
      BY <3>1 DEF Lacks
  <2>7. [f \in FieldsOf(k) |-> Back(k, f, once[f], open)] = once
    BY <2>5
  <2> QED
    BY <2>1, <2>3, <2>6, <2>7
<1> QED
  BY <1>3, <1>4

\* A form with what it needs and one field entered is the same when it is read again.
LEMMA EnteredReread ==
  ASSUME NEW c \in DOMAIN Out!Table, NEW f \in FieldsOf(Out!Table[c]),
         f \notin Out!Table[c].needs, NEW v \in {"empty", "other"},
         ~(v = "empty" /\ f \in Out!Table[c].full),
         NEW base, base = [g \in FieldsOf(Out!Table[c]) |->
                             IF g \in Out!Table[c].needs THEN "given"
                             ELSE DefaultOf(Out!Table[c], g)],
         f \in Out!Table[c].gated => Out!Gate(c, base)
  PROVE  Reread(c, [base EXCEPT ![f] = v]) = [base EXCEPT ![f] = v]
<1> DEFINE k == Out!Table[c]
           form == [base EXCEPT ![f] = v]
           gate == Out!Gate(c, form)
<1>1. Regular(k) /\ Shaped(k) /\ gate \in BOOLEAN
  BY OutTableRegular, OutGateTyped DEF Regular
<1>2. f \in k.gated => gate
  <2> SUFFICES ASSUME f \in k.gated
               PROVE  gate
    OBVIOUS
  <2>1. \A g \in Asked(c) : form[g] = base[g]
    BY GateAsks
  <2> QED
    BY <2>1, GateAsks
<1>3. form \in Forms(k)
  BY DEF Forms, DefaultOf, Values, Value
<1>4. Reread(c, form) = IF Lacks(k, form, gate) THEN NewForm(k)
                        ELSE [g \in FieldsOf(k) |-> Back(k, g, form[g], gate)]
  BY <1>3, RereadIs
<1> HIDE DEF k, gate
<1>5. \A g \in FieldsOf(k) :
        form[g] = IF g = f THEN v ELSE IF g \in k.needs THEN "given" ELSE DefaultOf(k, g)
  BY DEF k
<1>6. f \in FieldsOf(k) /\ f \notin k.needs /\ ~(v = "empty" /\ f \in k.full)
  BY DEF k
<1>7. form = [g \in FieldsOf(k) |-> form[g]]
  BY DEF k
<1> HIDE DEF form
<1>8. ASSUME NEW g \in FieldsOf(k)
      PROVE  Back(k, g, form[g], gate) = form[g]
  <2>1. CASE g = f
    BY <1>1, <1>2, <1>5, <1>6, <2>1, RegularBack DEF Dropped, DefaultOf, Regular, Complete
  <2>2. CASE g # f /\ g \in k.needs
    BY <1>1, <1>5, <2>2, RegularBack DEF Dropped, Regular, Complete
  <2>3. CASE g # f /\ g \notin k.needs
    BY <1>1, <1>5, <2>3, BackDefault
  <2> QED
    BY <2>1, <2>2, <2>3
<1>9. ~Lacks(k, form, gate)
  BY <1>1, <1>5, <1>6 DEF Lacks, Dropped, Regular, Complete
<1>10. Reread(c, form) = form
  BY <1>4, <1>7, <1>8, <1>9
<1> QED
  BY <1>10 DEF form

LEMMA EnteredKept == OutboundsReread
  BY EnteredReread DEF OutboundsReread

-----------------------------------------------------------------------------
(* An inbound that has a link. *)

\* The classes its link is made of are there, with a value for each field; a path of
\* a TCP header is never empty, and a flow is there only where a link has one.
Linkable(d) ==
  /\ d.protocol \in Linked /\ d.network \in Networks \cup {"hysteria"}
  /\ d.network = "hysteria" <=> d.protocol = "hysteria"
  /\ d.security \in {"none", "tls", "reality"} /\ d.method \in Methods
  /\ DOMAIN d.forms \subseteq DOMAIN InboundTable
  /\ \A c \in DOMAIN d.forms : d.forms[c] \in Forms(InboundTable[c])

NetworkThere(d) ==
  /\ d.network = "tcp" => "Tcp" \in DOMAIN d.forms
  /\ HttpHeader(d) => "TcpRequest" \in DOMAIN d.forms /\ d.forms.TcpRequest.path # "empty"
  /\ d.network = "kcp" => "Kcp" \in DOMAIN d.forms
  /\ d.network = "ws" => "Ws" \in DOMAIN d.forms
  /\ d.network = "grpc" => "Grpc" \in DOMAIN d.forms
  /\ d.network = "httpupgrade" => "HTTPUpgrade" \in DOMAIN d.forms
  /\ d.network = "xhttp" => "XHTTP" \in DOMAIN d.forms
  /\ d.network = "hysteria" => "Hysteria" \in DOMAIN d.forms

SecurityThere(d) ==
  /\ d.security = "tls" => {"Tls", "TlsSettings"} \subseteq DOMAIN d.forms
  /\ d.security = "reality" => {"Reality", "RealitySettings"} \subseteq DOMAIN d.forms

SettingsThere(d) ==
  /\ d.protocol = "vmess" => "VMESS" \in DOMAIN d.forms
  /\ d.protocol = "vless" => /\ {"VLESS", "VLESSSettings"} \subseteq DOMAIN d.forms
                             /\ \/ d.forms.VLESS.flow = "empty"
                                \/ d.network = "tcp" /\ d.security \in {"tls", "reality"}
  /\ d.protocol = "trojan" => "Trojan" \in DOMAIN d.forms
  /\ d.protocol = "shadowsocks" => /\ "ShadowsocksSettings" \in DOMAIN d.forms
                                   /\ d.method # "one" => "Shadowsocks" \in DOMAIN d.forms
  /\ d.protocol = "hysteria" => "HysteriaClient" \in DOMAIN d.forms

HasLink(d) == Linkable(d) /\ NetworkThere(d) /\ SecurityThere(d) /\ SettingsThere(d)

\* The fields a link is made of.
LEMMA LinkFields ==
  /\ "type" \in FieldsOf(InboundTable["Tcp"])
  /\ {"path", "headers"} \subseteq FieldsOf(InboundTable["TcpRequest"])
  /\ {"mtu", "tti"} \subseteq FieldsOf(InboundTable["Kcp"])
  /\ {"path", "host", "headers"} \subseteq FieldsOf(InboundTable["Ws"])
  /\ FieldsOf(InboundTable["Grpc"]) = {"serviceName", "authority", "multiMode"}
  /\ {"path", "host", "headers"} \subseteq FieldsOf(InboundTable["HTTPUpgrade"])
  /\ {"path", "host", "headers", "mode"} \subseteq FieldsOf(InboundTable["XHTTP"])
  /\ "auth" \in FieldsOf(InboundTable["Hysteria"])
<1> USE DEF FieldsOf, Class, Plain, Same
<1>1. "type" \in FieldsOf(Tcp) /\ {"path", "headers"} \subseteq FieldsOf(TcpRequest)
  BY DEF Tcp, TcpRequest
<1>2. {"mtu", "tti"} \subseteq FieldsOf(Kcp)
  BY DEF Kcp
<1>3. {"path", "host", "headers"} \subseteq FieldsOf(Ws)
  BY DEF Ws
<1>4. FieldsOf(Grpc) = {"serviceName", "authority", "multiMode"}
  BY DEF Grpc
<1>5. {"path", "host", "headers"} \subseteq FieldsOf(HTTPUpgrade)
  BY DEF HTTPUpgrade
<1>6. {"path", "host", "headers", "mode"} \subseteq FieldsOf(XHTTP)
  BY DEF XHTTP
<1>7. "auth" \in FieldsOf(Hysteria)
  BY DEF Hysteria
<1> HIDE DEF FieldsOf, Class, Plain, Same
<1> QED
  BY <1>1, <1>2, <1>3, <1>4, <1>5, <1>6, <1>7 DEF InboundTable

LEMMA SecurityFields ==
  /\ {"sni", "alpn"} \subseteq FieldsOf(InboundTable["Tls"])
  /\ {"fingerprint", "echConfigList"} \subseteq FieldsOf(InboundTable["TlsSettings"])
  /\ {"serverNames", "shortIds"} \subseteq FieldsOf(InboundTable["Reality"])
  /\ {"publicKey", "fingerprint", "spiderX", "mldsa65Verify"}
       \subseteq FieldsOf(InboundTable["RealitySettings"])
<1> USE DEF FieldsOf, Class, Plain, Same
<1>1. {"sni", "alpn"} \subseteq FieldsOf(Tls)
  BY DEF Tls
<1>2. {"fingerprint", "echConfigList"} \subseteq FieldsOf(TlsSettings)
  BY DEF TlsSettings
<1>3. {"serverNames", "shortIds"} \subseteq FieldsOf(Reality)
  BY DEF Reality
<1>4. {"publicKey", "fingerprint", "spiderX", "mldsa65Verify"} \subseteq FieldsOf(RealitySettings)
  BY DEF RealitySettings
<1> HIDE DEF FieldsOf, Class, Plain, Same
<1> QED
  BY <1>1, <1>2, <1>3, <1>4 DEF InboundTable

LEMMA SettingsFields ==
  /\ {"id", "security"} \subseteq FieldsOf(InboundTable["VMESS"])
  /\ {"id", "flow"} \subseteq FieldsOf(InboundTable["VLESS"])
  /\ "encryption" \in FieldsOf(InboundTable["VLESSSettings"])
  /\ "password" \in FieldsOf(InboundTable["Trojan"])
  /\ "password" \in FieldsOf(InboundTable["ShadowsocksSettings"])
  /\ "password" \in FieldsOf(InboundTable["Shadowsocks"])
  /\ "auth" \in FieldsOf(InboundTable["HysteriaClient"])
<1> USE DEF FieldsOf, Class, Plain, Same, ClientClass, ClientBase
<1>1. {"id", "security"} \subseteq FieldsOf(VMESS)
  BY DEF VMESS
<1>2. {"id", "flow"} \subseteq FieldsOf(VLESS)
  BY DEF VLESS
<1>3. "encryption" \in FieldsOf(VLESSSettings)
  BY DEF VLESSSettings
<1>4. "password" \in FieldsOf(Trojan)
  BY DEF Trojan
<1>5. "password" \in FieldsOf(ShadowsocksSettings) /\ "password" \in FieldsOf(Shadowsocks)
  BY DEF ShadowsocksSettings, Shadowsocks
<1>6. "auth" \in FieldsOf(HysteriaClient)
  BY DEF HysteriaClient
<1> HIDE DEF FieldsOf, Class, Plain, Same, ClientClass, ClientBase
<1> QED
  BY <1>1, <1>2, <1>3, <1>4, <1>5, <1>6 DEF InboundTable

\* The inbound a link is made of is such a one.
LEMMA OpenedHasLink ==
  ASSUME IInv, row.protocol \in Linked
  PROVE  HasLink(WithForms(Opened(row)))
<1> DEFINE D == Opened(row)
           d == WithForms(D)
<1>1. row # NoRow
  BY DEF NoRow, Linked
<1>2. PICK e \in Dialogs : Saves(e)
  BY <1>1 DEF IInv
<1>3. /\ D \in Dialogs /\ Sound(D) /\ D.protocol = row.protocol /\ D.protocol = e.protocol
      /\ D.network = e.network
  BY <1>1, <1>2, OpenedShows, OpenedSound DEF Saves
<1>4. ASSUME "TcpRequest" \in Written(D)
      PROVE  Field(D, "TcpRequest", "path") # "empty"
  <2>1. "TcpRequest" \in DOMAIN InboundTable /\ "path" \in FieldsOf(InboundTable["TcpRequest"])
    BY LinkFields DEF InboundTable
  <2>2. Field(D, "TcpRequest", "path") = Field(Loaded(RowOf(e)), "TcpRequest", "path")
    BY <1>2, <2>1, OpenedShows DEF Saves
  <2>3. DefaultOf(InboundTable["TcpRequest"], "path") = "default"
        /\ "path" \in InboundTable["TcpRequest"].orElse
    BY DEF InboundTable, TcpRequest, Class, Plain, DefaultOf
  <2>4. Back(InboundTable["TcpRequest"], "path", Seen(e, "TcpRequest", "path"),
             Gate(e, "TcpRequest")) # "empty"
    <3>1. Shaped(InboundTable["TcpRequest"])
      BY <2>1, TableWellFormed DEF WellFormed
    <3>2. /\ "path" \notin InboundTable["TcpRequest"].headers
          /\ InboundTable["TcpRequest"].maps \subseteq InboundTable["TcpRequest"].headers
      BY <2>3, <3>1 DEF Shaped
    <3> QED
      BY <2>3, <3>2, ListedIs DEF Back
  <2> QED
    BY <2>1, <2>2, <2>3, <2>4, LoadedShows
<1> HIDE DEF D
<1>5. /\ d.protocol = D.protocol /\ d.network = D.network /\ d.security = D.security
      /\ d.method = D.method /\ DOMAIN d.forms = Written(D)
      /\ \A c \in Written(D) : d.forms[c] = FormOf(InboundTable, D.entered, c)
  BY DEF WithForms
<1>6. \A c \in DOMAIN InboundTable : \A f \in FieldsOf(InboundTable[c]) :
        FormOf(InboundTable, D.entered, c)[f] = Field(D, c, f)
  BY DEF FormOf, Field
<1> HIDE DEF d
<1>7. /\ D.network \in Networks \cup {"hysteria"} /\ D.security \in {"none", "tls", "reality"}
      /\ D.method \in Methods /\ D.protocol \in Linked
  BY <1>3, DialogFields
<1>8. Linkable(d)
  <2>1. DOMAIN d.forms \subseteq DOMAIN InboundTable
    <3>1. NetworkClasses(D) \subseteq DOMAIN InboundTable
      BY <1>3, NetworkClassesAre DEF InboundTable
    <3>2. SettingsClasses[D.protocol] \subseteq DOMAIN InboundTable
      BY <1>7 DEF SettingsClasses, Linked, InboundTable
    <3>3. SecurityClasses(D) \subseteq DOMAIN InboundTable
      BY DEF SecurityClasses, InboundTable
    <3>4. {"Sniffing", "Sockopt", "TcpMask", "UdpMask", "QuicParams"} \subseteq DOMAIN InboundTable
      BY DEF InboundTable
    <3> QED
      BY <1>5, <3>1, <3>2, <3>3, <3>4 DEF Written, StreamClasses
  <2>2. \A c \in DOMAIN d.forms : d.forms[c] \in Forms(InboundTable[c])
    <3>1. D.entered \in Entries
      BY <1>3, DialogFields
    <3>2. \A c : FormOf(InboundTable, D.entered, c) \in Forms(InboundTable[c])
      BY <3>1, FormTyped
    <3> QED
      BY <1>5, <3>2
  <2> QED
    BY <1>3, <1>5, <1>7, <2>1, <2>2 DEF Linkable, Sound
<1>9. StreamClasses(D) \subseteq Written(D)
  BY <1>7 DEF Written, CanEnableStream, Linked
<1>10. NetworkThere(d)
  <2>1. HttpHeader(d) => "TcpRequest" \in DOMAIN d.forms
    <3> SUFFICES ASSUME HttpHeader(d)
                 PROVE  "TcpRequest" \in Written(D)
      BY <1>5
    <3>1. D.network = "tcp" /\ d.forms.Tcp.type = "other"
      BY <1>5 DEF HttpHeader
    <3>2. "Tcp" \in Written(D)
      BY <1>9, <3>1 DEF StreamClasses, NetworkClasses
    <3>3. "Tcp" \in DOMAIN InboundTable
      BY DEF InboundTable
    <3>4. Field(D, "Tcp", "type") = "other"
      BY <1>5, <1>6, <3>1, <3>2, <3>3, LinkFields
    <3> QED
      BY <1>9, <3>1, <3>4 DEF StreamClasses, NetworkClasses
  <2>2. HttpHeader(d) => d.forms.TcpRequest.path # "empty"
    <3>1. "TcpRequest" \in DOMAIN InboundTable
      BY DEF InboundTable
    <3> QED
      BY <1>4, <1>5, <1>6, <2>1, <3>1, LinkFields
  <2>3. NetworkClasses(D) \subseteq Written(D)
    BY <1>9 DEF StreamClasses
  <2> QED
    BY <1>5, <2>1, <2>2, <2>3 DEF NetworkThere, NetworkClasses
<1>11. SecurityThere(d)
  BY <1>5, <1>9 DEF SecurityThere, StreamClasses, SecurityClasses
<1>12. SettingsThere(d)
  <2>1. SettingsClasses[D.protocol] \ (IF D.protocol = "shadowsocks" /\ D.method = "one"
                                        THEN {"Shadowsocks"} ELSE {}) \subseteq Written(D)
    BY DEF Written
  <2>2. CASE D.protocol = "vless"
    <3>1. {"VLESS", "VLESSSettings"} \subseteq Written(D)
      BY <2>1, <2>2 DEF SettingsClasses
    <3>2. "VLESS" \in DOMAIN InboundTable
      BY DEF InboundTable
    <3>3. d.forms["VLESS"]["flow"] = Field(D, "VLESS", "flow")
      BY <1>5, <1>6, <3>1, <3>2, SettingsFields
    <3> QED
      BY <1>3, <1>5, <2>2, <3>1, <3>3 DEF SettingsThere, Sound, CanEnableTlsFlow
  <2>3. CASE D.protocol # "vless"
    BY <1>5, <1>7, <2>1, <2>3 DEF SettingsThere, SettingsClasses, Linked
  <2> QED
    BY <2>2, <2>3
<1> QED
  BY <1>8, <1>10, <1>11, <1>12 DEF HasLink, d, D

-----------------------------------------------------------------------------
(* The parameters of a link. *)

ParamNames == DOMAIN NoParams

Links == [ParamNames -> Value]

NetworkNames == {"headerType", "path", "host", "mtu", "tti", "serviceName", "authority", "mode"}

SecurityNames == {"alpn", "fp", "sni", "ech", "pbk", "sid", "spx", "pqv"}

\* A parameter that is there only when it is not empty carries a value.
Carries(x, v) == v \in Values /\ x \in {v, IfAny(v)}

LEMMA CarriesTyped ==
  ASSUME NEW v \in Values
  PROVE  /\ Carries(v, v) /\ Carries(IfAny(v), v)
         /\ v \in Value /\ IfAny(v) \in Value /\ IfAny(IfAny(v)) = IfAny(v)
         /\ v # "absent"
  BY DEF Carries, IfAny, Values, Value

LEMMA CarriesThrough ==
  ASSUME NEW x, NEW v, Carries(x, v)
  PROVE  /\ x \in Value /\ OrEmpty(x) = v /\ (v # "empty" => x = v)
         /\ x = "absent" => v = "empty"
         /\ Carries(IfAny(x), v) /\ Carries(OrEmpty(x), v)
  BY DEF Carries, IfAny, OrEmpty, Values, Value

\* Every parameter carries a value, which is empty when there is no such parameter.
LEMMA ValueCarried ==
  ASSUME NEW x \in Value
  PROVE  Carries(x, OrEmpty(x)) /\ Carries(OrEmpty(x), OrEmpty(x))
  BY DEF Carries, IfAny, OrEmpty, Values, Value

LEMMA HostTyped ==
  ASSUME NEW d, Linkable(d), NEW c \in {"Ws", "HTTPUpgrade", "XHTTP"}, c \in DOMAIN d.forms
  PROVE  HostOf(d, c) \in Values
<1>1. d.forms[c] \in Forms(InboundTable[c])
  BY DEF Linkable
<1>2. {"host", "headers"} \subseteq FieldsOf(InboundTable[c])
  BY LinkFields
<1>3. d.forms[c].host \in Values
  BY <1>1, <1>2 DEF Forms
<1> QED
  BY <1>3 DEF HostOf, HostIn, Values, Value

\* What the parameters of an inbound's network and security are.
NetworkCarried(d, link) ==
  /\ HttpHeader(d) => /\ link.headerType = "other"
                      /\ link.path = d.forms.TcpRequest.path
                      /\ d.forms.TcpRequest.path \in Values \ {"empty"}
                      /\ Carries(link.host, HostIn(d.forms.TcpRequest.headers))
  /\ d.network = "kcp" => /\ link.mtu = d.forms.Kcp.mtu /\ d.forms.Kcp.mtu \in Values
                          /\ link.tti = d.forms.Kcp.tti /\ d.forms.Kcp.tti \in Values
  /\ d.network = "ws" => /\ link.path = d.forms.Ws.path /\ d.forms.Ws.path \in Values
                         /\ link.host = HostOf(d, "Ws") /\ HostOf(d, "Ws") \in Values
  /\ d.network = "grpc" => /\ Carries(link.serviceName, d.forms.Grpc.serviceName)
                           /\ Carries(link.authority, d.forms.Grpc.authority)
                           /\ Carries(link.mode, d.forms.Grpc.multiMode)
  /\ d.network = "httpupgrade" =>
       /\ link.path = d.forms.HTTPUpgrade.path /\ d.forms.HTTPUpgrade.path \in Values
       /\ link.host = HostOf(d, "HTTPUpgrade") /\ HostOf(d, "HTTPUpgrade") \in Values
  /\ d.network = "xhttp" =>
       /\ link.path = d.forms.XHTTP.path /\ d.forms.XHTTP.path \in Values
       /\ link.host = HostOf(d, "XHTTP") /\ HostOf(d, "XHTTP") \in Values

SecurityCarried(d, link) ==
  /\ d.security = "tls" =>
       /\ Carries(link.fp, d.forms.TlsSettings.fingerprint)
       /\ Carries(link.alpn, d.forms.Tls.alpn)
       /\ Carries(link.sni, d.forms.Tls.sni)
  /\ d.security = "reality" =>
       /\ Carries(link.pbk, d.forms.RealitySettings.publicKey)
       /\ Carries(link.fp, d.forms.RealitySettings.fingerprint)
       /\ Carries(link.sni, d.forms.Reality.serverNames)
       /\ Carries(link.sid, d.forms.Reality.shortIds)
       /\ Carries(link.spx, d.forms.RealitySettings.spiderX)
       /\ Carries(link.pqv, d.forms.RealitySettings.mldsa65Verify)

\* The two parameters that a VMess link does not have.
OthersCarried(d, link) ==
  /\ d.network = "xhttp" => Carries(link.mode, d.forms.XHTTP.mode)
  /\ d.security = "tls" => Carries(link.ech, d.forms.TlsSettings.echConfigList)

OthersLost(d, link) ==
  /\ d.network = "xhttp" => link.mode = "absent"
  /\ link.ech = "absent"

LEMMA NetworkParamsAre ==
  ASSUME NEW d, Linkable(d), NetworkThere(d), d.network # "hysteria"
  PROVE  /\ NetworkParams(d) \in Links
         /\ NetworkCarried(d, NetworkParams(d))
         /\ d.network = "xhttp" => Carries(NetworkParams(d).mode, d.forms.XHTTP.mode)
<1> USE DEF NetworkCarried
<1>1. NetworkNames \subseteq ParamNames /\ NoParams \in Links
  BY DEF NetworkNames, ParamNames, NoParams, Links, Value
<1>2. \A c \in DOMAIN d.forms : \A f \in FieldsOf(InboundTable[c]) : d.forms[c][f] \in Values
  BY DEF Linkable, Forms
<1>3. \A v \in Values : /\ Carries(v, v) /\ Carries(IfAny(v), v)
                        /\ v \in Value /\ IfAny(v) \in Value
  BY CarriesTyped
<1>4. "other" \in Value
  BY DEF Value
<1>5. CASE HttpHeader(d)
  <2>1. /\ d.forms.TcpRequest.path \in Values \ {"empty"}
        /\ HostIn(d.forms.TcpRequest.headers) \in Values
    BY <1>2, <1>5, LinkFields DEF NetworkThere, HostIn, Values, Value
  <2>2. d.network = "tcp" /\ NetworkParams(d) =
          [NoParams EXCEPT !.headerType = "other", !.path = d.forms.TcpRequest.path,
                           !.host = IfAny(HostIn(d.forms.TcpRequest.headers))]
    BY <1>5 DEF NetworkParams, HttpHeader
  <2> QED
    BY <1>1, <1>3, <1>4, <2>1, <2>2 DEF Links, NetworkNames
<1>6. CASE d.network = "tcp" /\ ~HttpHeader(d)
  <2>1. NetworkParams(d) = NoParams
    BY <1>6 DEF NetworkParams
  <2> QED
    BY <1>1, <1>6, <2>1
<1>7. CASE d.network = "kcp"
  <2>1. d.forms.Kcp.mtu \in Values /\ d.forms.Kcp.tti \in Values
    BY <1>2, <1>7, LinkFields DEF NetworkThere
  <2>2. NetworkParams(d) = [NoParams EXCEPT !.mtu = d.forms.Kcp.mtu, !.tti = d.forms.Kcp.tti]
    BY <1>7 DEF NetworkParams
  <2> QED
    BY <1>1, <1>3, <1>7, <2>1, <2>2 DEF Links, NetworkNames, HttpHeader
<1>8. CASE d.network = "ws"
  <2>1. d.forms.Ws.path \in Values /\ HostOf(d, "Ws") \in Values
    BY <1>2, <1>8, LinkFields, HostTyped DEF NetworkThere
  <2>2. NetworkParams(d) = [NoParams EXCEPT !.path = d.forms.Ws.path, !.host = HostOf(d, "Ws")]
    BY <1>8 DEF NetworkParams
  <2> QED
    BY <1>1, <1>3, <1>8, <2>1, <2>2 DEF Links, NetworkNames, HttpHeader
<1>9. CASE d.network = "grpc"
  <2>1. /\ d.forms.Grpc.serviceName \in Values /\ d.forms.Grpc.authority \in Values
        /\ d.forms.Grpc.multiMode \in Values
    BY <1>2, <1>9, LinkFields DEF NetworkThere
  <2>2. NetworkParams(d) =
          [NoParams EXCEPT !.serviceName = d.forms.Grpc.serviceName,
                           !.authority = d.forms.Grpc.authority,
                           !.mode = IfAny(d.forms.Grpc.multiMode)]
    BY <1>9 DEF NetworkParams
  <2> QED
    BY <1>1, <1>3, <1>9, <2>1, <2>2 DEF Links, NetworkNames, HttpHeader
<1>10. CASE d.network = "httpupgrade"
  <2>1. d.forms.HTTPUpgrade.path \in Values /\ HostOf(d, "HTTPUpgrade") \in Values
    BY <1>2, <1>10, LinkFields, HostTyped DEF NetworkThere
  <2>2. NetworkParams(d) = [NoParams EXCEPT !.path = d.forms.HTTPUpgrade.path,
                                            !.host = HostOf(d, "HTTPUpgrade")]
    BY <1>10 DEF NetworkParams
  <2> QED
    BY <1>1, <1>3, <1>10, <2>1, <2>2 DEF Links, NetworkNames, HttpHeader
<1>11. CASE d.network = "xhttp"
  <2>1. /\ d.forms.XHTTP.path \in Values /\ HostOf(d, "XHTTP") \in Values
        /\ d.forms.XHTTP.mode \in Values
    BY <1>2, <1>11, LinkFields, HostTyped DEF NetworkThere
  <2>2. NetworkParams(d) = [NoParams EXCEPT !.path = d.forms.XHTTP.path,
                                            !.host = HostOf(d, "XHTTP"),
                                            !.mode = d.forms.XHTTP.mode]
    BY <1>11 DEF NetworkParams
  <2> QED
    BY <1>1, <1>3, <1>11, <2>1, <2>2 DEF Links, NetworkNames, HttpHeader
<1> QED
  BY <1>5, <1>6, <1>7, <1>8, <1>9, <1>10, <1>11 DEF Linkable, Networks

LEMMA SecurityParamsAre ==
  ASSUME NEW d, Linkable(d), NetworkThere(d), SecurityThere(d), d.network # "hysteria"
  PROVE  /\ SecurityParams(d) \in Links
         /\ \A k \in NetworkNames : SecurityParams(d)[k] = NetworkParams(d)[k]
         /\ SecurityCarried(d, SecurityParams(d))
         /\ d.security = "tls" =>
              Carries(SecurityParams(d).ech, d.forms.TlsSettings.echConfigList)
<1> USE DEF SecurityCarried
<1> DEFINE net == NetworkParams(d)
<1>1. net \in Links
  BY NetworkParamsAre
<1> HIDE DEF net
<1>2. \A c \in DOMAIN d.forms : \A f \in FieldsOf(InboundTable[c]) : d.forms[c][f] \in Values
  BY DEF Linkable, Forms
<1>3. \A v \in Values : /\ Carries(v, v) /\ Carries(IfAny(v), v)
                        /\ v \in Value /\ IfAny(v) \in Value
  BY CarriesTyped
<1>4. /\ SecurityNames \subseteq ParamNames /\ NetworkNames \subseteq ParamNames
      /\ \A k \in NetworkNames : k \notin SecurityNames
  BY DEF SecurityNames, NetworkNames, ParamNames, NoParams
<1>5. CASE d.security = "tls"
  <2>1. /\ d.forms.TlsSettings.fingerprint \in Values /\ d.forms.Tls.alpn \in Values
        /\ d.forms.Tls.sni \in Values /\ d.forms.TlsSettings.echConfigList \in Values
    BY <1>2, <1>5, SecurityFields DEF SecurityThere
  <2>2. SecurityParams(d) =
          [net EXCEPT !.fp = d.forms.TlsSettings.fingerprint, !.alpn = d.forms.Tls.alpn,
                      !.sni = IfAny(d.forms.Tls.sni),
                      !.ech = IfAny(d.forms.TlsSettings.echConfigList)]
    BY <1>5 DEF SecurityParams, net
  <2>3. SecurityParams(d) \in Links
    BY <1>1, <1>3, <2>1, <2>2 DEF Links
  <2>4. \A k \in NetworkNames : SecurityParams(d)[k] = net[k]
    BY <1>1, <1>4, <2>2 DEF Links, SecurityNames
  <2>5. {"fp", "alpn", "sni", "ech"} \subseteq ParamNames
    BY <1>4 DEF SecurityNames
  <2> QED
    BY <1>1, <1>3, <1>5, <2>1, <2>2, <2>3, <2>4, <2>5 DEF Links, net
<1>6. CASE d.security = "reality"
  <2>1. /\ d.forms.RealitySettings.publicKey \in Values /\ d.forms.RealitySettings.fingerprint \in Values
        /\ d.forms.Reality.serverNames \in Values /\ d.forms.Reality.shortIds \in Values
        /\ d.forms.RealitySettings.spiderX \in Values
        /\ d.forms.RealitySettings.mldsa65Verify \in Values
    BY <1>2, <1>6, SecurityFields DEF SecurityThere
  <2>2. SecurityParams(d) =
          [net EXCEPT !.pbk = d.forms.RealitySettings.publicKey,
                      !.fp = d.forms.RealitySettings.fingerprint,
                      !.sni = d.forms.Reality.serverNames,
                      !.sid = IfAny(d.forms.Reality.shortIds),
                      !.spx = IfAny(d.forms.RealitySettings.spiderX),
                      !.pqv = IfAny(d.forms.RealitySettings.mldsa65Verify)]
    BY <1>6 DEF SecurityParams, net
  <2>3. SecurityParams(d) \in Links
    BY <1>1, <1>3, <2>1, <2>2 DEF Links
  <2>4. \A k \in NetworkNames : SecurityParams(d)[k] = net[k]
    BY <1>1, <1>4, <2>2 DEF Links, SecurityNames
  <2>5. {"pbk", "fp", "sni", "sid", "spx", "pqv"} \subseteq ParamNames
    BY <1>4 DEF SecurityNames
  <2> QED
    BY <1>1, <1>3, <1>6, <2>1, <2>2, <2>3, <2>4, <2>5 DEF Links, net
<1>7. CASE d.security = "none"
  BY <1>1, <1>7 DEF SecurityParams, net
<1> QED
  BY <1>5, <1>6, <1>7 DEF Linkable

\* What fromParamLink is given: the link, and of a VMess link with the other names.
Carried(d) ==
  IF d.protocol = "vmess"
    THEN [GenVmessLink(d) EXCEPT
            !.headerType = GenVmessLink(d).type,
            !.serviceName = IF d.network = "grpc" THEN GenVmessLink(d).path ELSE @,
            !.mode = IF d.network = "grpc" THEN GenVmessLink(d).type ELSE GenVmessLink(d).mode]
    ELSE GenLink(d)

LEMMA FromLinkIs ==
  ASSUME NEW d, d.protocol \in Linked
  PROVE  FromLink(d, GenLink(d)) =
           IF d.protocol = "hysteria"
             THEN FromParamLink("hysteria", "hysteria", "none", Carried(d))
             ELSE FromParamLink(d.protocol, d.network, d.security, Carried(d))
<1>1. CASE d.protocol = "vmess"
  <2>1. GenLink(d) = GenVmessLink(d) /\ FromLink(d, GenLink(d)) =
          FromVmessLink(d.network, d.security, GenLink(d))
    BY <1>1 DEF GenLink, FromLink
  <2> QED
    BY <1>1, <2>1 DEF FromVmessLink, Carried
<1>2. CASE d.protocol = "hysteria"
  BY <1>2 DEF FromLink, FromHysteriaLink, Carried
<1>3. CASE d.protocol \notin {"vmess", "hysteria"}
  BY <1>3 DEF FromLink, Carried
<1> QED
  BY <1>1, <1>2, <1>3

\* A link with the same values under the names of the network and the security.
LEMMA SameCarried ==
  ASSUME NEW d, NEW p, NEW link,
         \A k \in NetworkNames \cup SecurityNames : link[k] = p[k]
  PROVE  /\ NetworkCarried(d, p) => NetworkCarried(d, link)
         /\ SecurityCarried(d, p) => SecurityCarried(d, link)
         /\ OthersCarried(d, p) => OthersCarried(d, link)
  BY DEF NetworkCarried, SecurityCarried, OthersCarried, NetworkNames, SecurityNames

SettingsCarried(d, link) ==
  /\ d.protocol = "vmess" => /\ link.user = d.forms.VMESS.id
                             /\ link.method = d.forms.VMESS.security
                             /\ d.forms.VMESS.security \in Values
  /\ d.protocol = "vless" => /\ link.user = Quoted(d.forms.VLESS.id)
                             /\ Carries(link.flow, d.forms.VLESS.flow)
                             /\ link.encryption = d.forms.VLESSSettings.encryption
                             /\ d.forms.VLESSSettings.encryption \in Values
  /\ d.protocol = "trojan" => link.user = Quoted(d.forms.Trojan.password)
  /\ d.protocol = "shadowsocks" => link.user = SSPassword(d) /\ link.method = "given"
  /\ d.protocol = "hysteria" => link.user = Quoted(HysteriaAuth(d))
  /\ link.user \in Values

LEMMA QuotedTyped ==
  ASSUME NEW v \in Values
  PROVE  Quoted(v) \in Values /\ Quoted(v) \in Value
  BY DEF Quoted, Values, Value

LEMMA VLESSCarried ==
  ASSUME NEW d, HasLink(d), d.protocol = "vless"
  PROVE  /\ Carried(d) \in Links /\ NetworkCarried(d, Carried(d))
         /\ SecurityCarried(d, Carried(d)) /\ OthersCarried(d, Carried(d))
         /\ SettingsCarried(d, Carried(d))
<1> DEFINE p == SecurityParams(d)
           flow == IF d.network = "tcp" /\ d.security \in {"tls", "reality"}
                     THEN IfAny(d.forms.VLESS.flow) ELSE "absent"
<1>1. /\ Linkable(d) /\ NetworkThere(d) /\ SecurityThere(d) /\ SettingsThere(d)
      /\ d.network # "hysteria"
  BY DEF HasLink, Linkable
<1>2. p \in Links /\ NetworkCarried(d, p) /\ SecurityCarried(d, p) /\ OthersCarried(d, p)
  BY <1>1, NetworkParamsAre, SecurityParamsAre
     DEF NetworkCarried, OthersCarried, NetworkNames
<1> HIDE DEF p
<1>3. /\ d.forms.VLESS.id \in Values /\ d.forms.VLESS.flow \in Values
      /\ d.forms.VLESSSettings.encryption \in Values
  BY <1>1, SettingsFields DEF Linkable, SettingsThere, Forms
<1>4. Carries(flow, d.forms.VLESS.flow)
  BY <1>1, <1>3, CarriesTyped DEF SettingsThere, Carries, IfAny
<1> HIDE DEF flow
<1>5. Carried(d) = [p EXCEPT !.user = Quoted(d.forms.VLESS.id),
                             !.encryption = d.forms.VLESSSettings.encryption, !.flow = flow]
  <2>1. Carried(d) = GenVLESSLink(d)
    BY DEF Carried, GenLink
  <2> QED
    BY <2>1 DEF GenVLESSLink, p, flow
<1>6. {"user", "encryption", "flow"} \subseteq ParamNames
      /\ \A k \in NetworkNames \cup SecurityNames :
            k \in ParamNames /\ k \notin {"user", "encryption", "flow"}
  BY DEF ParamNames, NoParams, NetworkNames, SecurityNames
<1>7. /\ flow \in Value /\ Quoted(d.forms.VLESS.id) \in Values
      /\ Quoted(d.forms.VLESS.id) \in Value /\ d.forms.VLESSSettings.encryption \in Value
  BY <1>3, <1>4, CarriesTyped, CarriesThrough, QuotedTyped
<1>8. Carried(d) \in Links
  BY <1>2, <1>5, <1>7 DEF Links
<1>9. \A k \in NetworkNames \cup SecurityNames : Carried(d)[k] = p[k]
  BY <1>2, <1>5, <1>6 DEF Links
<1>10. SettingsCarried(d, Carried(d))
  BY <1>2, <1>3, <1>4, <1>5, <1>6, <1>7 DEF Links, SettingsCarried
<1> QED
  BY <1>2, <1>8, <1>9, <1>10, SameCarried

LEMMA TrojanCarried ==
  ASSUME NEW d, HasLink(d), d.protocol = "trojan"
  PROVE  /\ Carried(d) \in Links /\ NetworkCarried(d, Carried(d))
         /\ SecurityCarried(d, Carried(d)) /\ OthersCarried(d, Carried(d))
         /\ SettingsCarried(d, Carried(d))
<1> DEFINE p == SecurityParams(d)
<1>1. /\ Linkable(d) /\ NetworkThere(d) /\ SecurityThere(d) /\ SettingsThere(d)
      /\ d.network # "hysteria"
  BY DEF HasLink, Linkable
<1>2. p \in Links /\ NetworkCarried(d, p) /\ SecurityCarried(d, p) /\ OthersCarried(d, p)
  BY <1>1, NetworkParamsAre, SecurityParamsAre
     DEF NetworkCarried, OthersCarried, NetworkNames
<1> HIDE DEF p
<1>3. Quoted(d.forms.Trojan.password) \in Values
  BY <1>1, SettingsFields, QuotedTyped DEF Linkable, SettingsThere, Forms
<1>4. Carried(d) = [p EXCEPT !.user = Quoted(d.forms.Trojan.password)]
  BY DEF Carried, GenLink, GenTrojanLink, p
<1>5. "user" \in ParamNames
      /\ \A k \in NetworkNames \cup SecurityNames : k \in ParamNames /\ k # "user"
  BY DEF ParamNames, NoParams, NetworkNames, SecurityNames
<1>6. Carried(d) \in Links
  BY <1>2, <1>3, <1>4, CarriesTyped DEF Links
<1>7. \A k \in NetworkNames \cup SecurityNames : Carried(d)[k] = p[k]
  BY <1>2, <1>4, <1>5 DEF Links
<1>8. SettingsCarried(d, Carried(d))
  BY <1>2, <1>3, <1>4, <1>5 DEF Links, SettingsCarried
<1> QED
  BY <1>2, <1>6, <1>7, <1>8, SameCarried

LEMMA SSCarried ==
  ASSUME NEW d, HasLink(d), d.protocol = "shadowsocks"
  PROVE  /\ Carried(d) \in Links /\ NetworkCarried(d, Carried(d))
         /\ SecurityCarried(d, Carried(d)) /\ OthersCarried(d, Carried(d))
         /\ SettingsCarried(d, Carried(d))
<1> DEFINE p == SecurityParams(d)
           user == SSPassword(d)
<1>1. /\ Linkable(d) /\ NetworkThere(d) /\ SecurityThere(d) /\ SettingsThere(d)
      /\ d.network # "hysteria"
  BY DEF HasLink, Linkable
<1>2. p \in Links /\ NetworkCarried(d, p) /\ SecurityCarried(d, p) /\ OthersCarried(d, p)
  BY <1>1, NetworkParamsAre, SecurityParamsAre
     DEF NetworkCarried, OthersCarried, NetworkNames
<1> HIDE DEF p
<1>3. user \in Values
  <2>1. CASE d.method = "one"
    BY <1>1, <2>1, SettingsFields DEF Linkable, SettingsThere, Forms, SSPassword
  <2>2. CASE d.method = "legacy"
    BY <1>1, <2>2, SettingsFields DEF Linkable, SettingsThere, Forms, SSPassword
  <2>3. CASE d.method = "many"
    BY <2>3 DEF SSPassword, Values, Value
  <2> QED
    BY <1>1, <2>1, <2>2, <2>3 DEF Linkable, Methods
<1>4. Carried(d) = [p EXCEPT !.method = "given", !.user = user]
  <2>1. Carried(d) = GenSSLink(d)
    BY DEF Carried, GenLink
  <2> QED
    BY <2>1 DEF GenSSLink, p
<1> HIDE DEF user
<1>5. {"user", "method"} \subseteq ParamNames /\ "given" \in Value
      /\ \A k \in NetworkNames \cup SecurityNames : k \in ParamNames /\ k \notin {"user", "method"}
  BY DEF ParamNames, NoParams, NetworkNames, SecurityNames, Value
<1>6. Carried(d) \in Links
  BY <1>2, <1>3, <1>4, <1>5, CarriesTyped DEF Links
<1>7. \A k \in NetworkNames \cup SecurityNames : Carried(d)[k] = p[k]
  BY <1>2, <1>4, <1>5 DEF Links
<1>8. SettingsCarried(d, Carried(d))
  BY <1>2, <1>3, <1>4, <1>5 DEF Links, SettingsCarried, user
<1> QED
  BY <1>2, <1>6, <1>7, <1>8, SameCarried

\* In JSON the service name of gRPC is the path and its mode the type.
LEMMA VmessCarried ==
  ASSUME NEW d, HasLink(d), d.protocol = "vmess"
  PROVE  /\ Carried(d) \in Links /\ NetworkCarried(d, Carried(d))
         /\ SecurityCarried(d, Carried(d)) /\ SettingsCarried(d, Carried(d))
         /\ OthersLost(d, Carried(d))
<1> DEFINE p == SecurityParams(d)
           link == GenVmessLink(d)
           type == IF d.network = "tcp" THEN d.forms.Tcp.type ELSE p.mode
           path == IF d.network = "grpc" THEN p.serviceName ELSE p.path
<1>1. /\ Linkable(d) /\ NetworkThere(d) /\ SecurityThere(d) /\ SettingsThere(d)
      /\ d.network # "hysteria"
  BY DEF HasLink, Linkable
<1>2. p \in Links /\ NetworkCarried(d, p) /\ SecurityCarried(d, p)
  BY <1>1, NetworkParamsAre, SecurityParamsAre
     DEF NetworkCarried, NetworkNames
<1> HIDE DEF p
<1>3. /\ d.forms.VMESS.id \in Values /\ d.forms.VMESS.security \in Values
      /\ d.network = "tcp" => d.forms.Tcp.type \in Values
  BY <1>1, LinkFields, SettingsFields DEF Linkable, NetworkThere, SettingsThere, Forms
<1>4. NetworkNames \cup SecurityNames \cup {"user", "method", "type"} \subseteq ParamNames
  BY DEF ParamNames, NoParams, NetworkNames, SecurityNames
<1>5. type \in Value /\ path \in Value /\ "absent" \in Value
  <2>1. p.mode \in Value /\ p.serviceName \in Value /\ p.path \in Value
    BY <1>2, <1>4 DEF Links, NetworkNames
  <2>2. d.network = "tcp" => d.forms.Tcp.type \in Value
    BY <1>3, CarriesTyped
  <2> QED
    BY <2>1, <2>2 DEF Value
<1>6. link = [p EXCEPT !.user = d.forms.VMESS.id, !.method = d.forms.VMESS.security,
                       !.headerType = "absent", !.serviceName = "absent", !.mode = "absent",
                       !.ech = "absent", !.fp = IfAny(p.fp), !.alpn = IfAny(p.alpn),
                       !.path = path, !.type = type]
  <2>1. p.path = p["path"] /\ path = IF d.network = "grpc" THEN p.serviceName ELSE p.path
    OBVIOUS
  <2> QED
    BY <1>2, <1>4, <2>1 DEF GenVmessLink, p, Links, NetworkNames, SecurityNames
<1> HIDE DEF type, path
<1>7. link \in Links
  <2>1. IfAny(p.fp) \in Value /\ IfAny(p.alpn) \in Value
    BY <1>2, <1>4 DEF Links, SecurityNames, IfAny, Value
  <2>2. d.forms.VMESS.id \in Value /\ d.forms.VMESS.security \in Value
    BY <1>3, CarriesTyped
  <2> QED
    BY <1>2, <1>5, <1>6, <2>1, <2>2 DEF Links
<1>8. /\ link.user = d.forms.VMESS.id /\ link.type = type /\ link.path = path
      /\ link.method = d.forms.VMESS.security /\ link.mode = "absent" /\ link.ech = "absent"
      /\ link.fp = IfAny(p.fp) /\ link.alpn = IfAny(p.alpn)
      /\ \A k \in {"host", "mtu", "tti", "authority", "sni", "pbk", "sid", "spx", "pqv"} :
            link[k] = p[k]
  BY <1>2, <1>4, <1>6 DEF Links, NetworkNames, SecurityNames
<1>9. Carried(d) =
        [link EXCEPT !.headerType = link.type,
                     !.serviceName = IF d.network = "grpc" THEN link.path ELSE @,
                     !.mode = IF d.network = "grpc" THEN link.type ELSE link.mode]
  BY DEF Carried
<1> HIDE DEF link
<1>10. Carried(d) \in Links
  BY <1>4, <1>7, <1>9 DEF Links, NetworkNames
<1>11. /\ Carried(d).headerType = type /\ Carried(d).path = path
       /\ Carried(d).fp = IfAny(p.fp) /\ Carried(d).alpn = IfAny(p.alpn)
       /\ d.network = "grpc" => Carried(d).serviceName = path /\ Carried(d).mode = type
       /\ d.network # "grpc" => Carried(d).mode = "absent"
       /\ Carried(d).user = d.forms.VMESS.id /\ Carried(d).method = d.forms.VMESS.security
       /\ Carried(d).ech = "absent"
       /\ \A k \in {"host", "mtu", "tti", "authority", "sni", "pbk", "sid", "spx", "pqv"} :
            Carried(d)[k] = p[k]
  BY <1>4, <1>7, <1>8, <1>9 DEF Links, NetworkNames, SecurityNames
<1>12. NetworkCarried(d, Carried(d))
  BY <1>2, <1>11 DEF NetworkCarried, HttpHeader, type, path
<1>13. SecurityCarried(d, Carried(d))
  BY <1>2, <1>11, CarriesThrough DEF SecurityCarried
<1>14. SettingsCarried(d, Carried(d))
  BY <1>1, <1>3, <1>11 DEF SettingsCarried
<1>15. OthersLost(d, Carried(d))
  BY <1>11 DEF OthersLost
<1> QED
  BY <1>10, <1>12, <1>13, <1>14, <1>15

LEMMA HysteriaCarried ==
  ASSUME NEW d, HasLink(d), d.protocol = "hysteria"
  PROVE  Carried(d) \in Links /\ SettingsCarried(d, Carried(d))
<1> DEFINE user == Quoted(HysteriaAuth(d))
<1>1. user \in Values
  <2>1. HysteriaAuth(d) \in Values
    BY LinkFields, SettingsFields
       DEF HasLink, Linkable, NetworkThere, SettingsThere, Forms, HysteriaAuth
  <2> QED
    BY <2>1, QuotedTyped
<1>2. Carried(d) = [NoParams EXCEPT !.user = user]
  BY DEF Carried, GenLink, GenHysteriaLink
<1> HIDE DEF user
<1>3. NoParams \in Links /\ "user" \in ParamNames
  BY DEF ParamNames, NoParams, Links, Value
<1>4. Carried(d) \in Links /\ Carried(d).user = user
  BY <1>1, <1>2, <1>3, CarriesTyped DEF Links
<1> QED
  BY <1>1, <1>4 DEF SettingsCarried, user

\* Whatever the protocol, the link carries what its inbound has, but for the mode of
\* xHTTP and the ECH list of a VMess link and the TLS of Hysteria.
LEMMA AllCarried ==
  ASSUME NEW d, HasLink(d)
  PROVE  /\ Carried(d) \in Links /\ SettingsCarried(d, Carried(d))
         /\ d.protocol # "hysteria" => /\ NetworkCarried(d, Carried(d))
                                       /\ SecurityCarried(d, Carried(d))
         /\ d.protocol \notin {"hysteria", "vmess"} => OthersCarried(d, Carried(d))
         /\ d.protocol = "vmess" => OthersLost(d, Carried(d))
  BY VLESSCarried, TrojanCarried, SSCarried, VmessCarried, HysteriaCarried
     DEF HasLink, Linkable, Linked

-----------------------------------------------------------------------------
(* The outbound that is made of it. *)

\* A constructor keeps the arguments it is given.
LEMMA MadeIs ==
  ASSUME NEW c \in DOMAIN Out!Table, NEW args, \A i \in DOMAIN args : args[i] \in Value
  PROVE  /\ Made(c, args) \in Forms(Out!Table[c])
         /\ \A n \in DOMAIN Out!Table[c].fields :
              Made(c, args)[Out!Table[c].fields[n]] =
                IF n \notin DOMAIN args \/ args[n] = "absent"
                     \/ (args[n] = "empty" /\ Out!Table[c].fields[n] \in Out!Table[c].orElse)
                  THEN DefaultOf(Out!Table[c], Out!Table[c].fields[n])
                ELSE args[n]
<1> DEFINE k == Out!Table[c]
           Nth(f) == CHOOSE n \in DOMAIN k.fields : k.fields[n] = f
           Arg(f) == IF Nth(f) \in DOMAIN args THEN args[Nth(f)] ELSE "absent"
           Redraws == \E g \in k.lead : Arg(g) \in {"absent", "empty"}
<1>1. Shaped(k) /\ k.pair = {} /\ k.ifNull = {}
  BY OutTableRegular DEF Regular, Complete
<1>2. Made(c, args) = [f \in FieldsOf(k) |->
        IF Arg(f) = "absent" \/ (Arg(f) = "empty" /\ f \in k.orElse) THEN DefaultOf(k, f)
        ELSE Arg(f)]
  <2>1. Made(c, args) = [f \in FieldsOf(k) |->
          IF Redraws /\ f \in k.pair THEN "drawn"
          ELSE IF \/ Arg(f) = "absent"
                  \/ Arg(f) = "empty" /\ f \in k.orElse
                  \/ Arg(f) = "cleared" /\ f \in k.ifNull
            THEN DefaultOf(k, f)
          ELSE Arg(f)]
    BY DEF Made, Construct
  <2> HIDE DEF k, Arg, Redraws
  <2> QED
    BY <1>1, <2>1
<1> HIDE DEF k
<1>3. \A f : Arg(f) \in Value
  BY DEF Value
<1>4. \A n \in DOMAIN k.fields : Nth(k.fields[n]) = n /\ k.fields[n] \in FieldsOf(k)
  BY <1>1 DEF Shaped, Distinct
<1> HIDE DEF Nth
<1>5. Made(c, args) \in Forms(k)
  BY <1>2, <1>3 DEF Forms, Values, DefaultOf, Value
<1>6. ASSUME NEW n \in DOMAIN k.fields
      PROVE  Made(c, args)[k.fields[n]] =
               IF n \notin DOMAIN args \/ args[n] = "absent"
                    \/ (args[n] = "empty" /\ k.fields[n] \in k.orElse)
                 THEN DefaultOf(k, k.fields[n])
               ELSE args[n]
  BY <1>2, <1>4
<1> QED
  BY <1>5, <1>6 DEF k

\* Nothing is left out or filled in: what is read again is what was written.
Simple(k) == k.ifSet = {} /\ k.orElse = {} /\ k.gated = {} /\ k.needs = {}

LEMMA SimpleReread ==
  ASSUME NEW c \in DOMAIN Out!Table, Simple(Out!Table[c]), NEW form \in Forms(Out!Table[c])
  PROVE  Reread(c, form) = form
<1> DEFINE k == Out!Table[c]
           gate == Out!Gate(c, form)
<1>1. Regular(k) /\ Simple(k) /\ form \in Forms(k) /\ gate \in BOOLEAN
  BY OutTableRegular, OutGateTyped
<1>2. Reread(c, form) = IF Lacks(k, form, gate) THEN NewForm(k)
                        ELSE [f \in FieldsOf(k) |-> Back(k, f, form[f], gate)]
  BY RereadIs
<1> HIDE DEF k, gate
<1>3. ~Lacks(k, form, gate)
  BY <1>1 DEF Lacks, Simple
<1>4. \A f \in FieldsOf(k) : Back(k, f, form[f], gate) = form[f]
  BY <1>1, RegularBack DEF Dropped, Simple, Regular, Complete
<1> QED
  BY <1>1, <1>2, <1>3, <1>4 DEF Forms

LEMMA SimpleClasses ==
  /\ \A c \in {"Kcp", "Ws", "Grpc", "HttpUpgrade", "XHTTP", "Tls", "Reality", "VmessSettings",
               "TrojanSettings", "ShadowsocksSettings", "HysteriaSettings"} :
        c \in DOMAIN Out!Table /\ Simple(Out!Table[c])
  /\ Out!Table["Kcp"].fields[1] = "mtu" /\ Out!Table["Kcp"].fields[2] = "tti"
  /\ {1, 2} \subseteq DOMAIN Out!Table["Kcp"].fields
  /\ {1, 2} \subseteq DOMAIN Out!Table["Ws"].fields
  /\ Out!Table["Ws"].fields[1] = "path" /\ Out!Table["Ws"].fields[2] = "host"
  /\ "host" \notin Out!Table["Ws"].full
  /\ {1, 2} \subseteq DOMAIN Out!Table["HttpUpgrade"].fields
  /\ Out!Table["HttpUpgrade"].fields[1] = "path" /\ Out!Table["HttpUpgrade"].fields[2] = "host"
  /\ "host" \notin Out!Table["HttpUpgrade"].full
  /\ {1, 2, 3} \subseteq DOMAIN Out!Table["XHTTP"].fields
  /\ Out!Table["XHTTP"].fields[1] = "path" /\ Out!Table["XHTTP"].fields[2] = "host"
  /\ Out!Table["XHTTP"].fields[3] = "mode" /\ "mode" \notin Out!Table["XHTTP"].full
  /\ Out!Table["Grpc"].fields = <<"serviceName", "authority", "multiMode">>
<1> USE DEF Simple, Out!Class, Out!Plain
<1>1. Simple(Out!Kcp) /\ Out!Kcp.fields[1] = "mtu" /\ Out!Kcp.fields[2] = "tti"
      /\ {1, 2} \subseteq DOMAIN Out!Kcp.fields
  BY DEF Out!Kcp
<1>2. Simple(Out!Ws) /\ Out!Ws.fields[1] = "path" /\ Out!Ws.fields[2] = "host"
      /\ {1, 2} \subseteq DOMAIN Out!Ws.fields /\ "host" \notin Out!Ws.full
  BY DEF Out!Ws
<1>3. Simple(Out!HttpUpgrade) /\ Out!HttpUpgrade.fields[1] = "path"
      /\ Out!HttpUpgrade.fields[2] = "host"
      /\ {1, 2} \subseteq DOMAIN Out!HttpUpgrade.fields /\ "host" \notin Out!HttpUpgrade.full
  BY DEF Out!HttpUpgrade
<1>4. Simple(Out!XHTTP) /\ Out!XHTTP.fields[1] = "path" /\ Out!XHTTP.fields[2] = "host"
      /\ Out!XHTTP.fields[3] = "mode" /\ {1, 2, 3} \subseteq DOMAIN Out!XHTTP.fields
      /\ "mode" \notin Out!XHTTP.full
  BY DEF Out!XHTTP
<1>5. Simple(Out!Grpc) /\ Out!Grpc.fields = <<"serviceName", "authority", "multiMode">>
  BY DEF Out!Grpc
<1>6. /\ Simple(Out!Tls) /\ Simple(Out!Reality) /\ Simple(Out!VmessSettings)
      /\ Simple(Out!TrojanSettings) /\ Simple(Out!ShadowsocksSettings)
      /\ Simple(Out!HysteriaSettings)
  BY DEF Out!Tls, Out!Reality, Out!VmessSettings, Out!TrojanSettings,
         Out!ShadowsocksSettings, Out!HysteriaSettings
<1> HIDE DEF Simple, Out!Class, Out!Plain
<1> QED
  BY <1>1, <1>2, <1>3, <1>4, <1>5, <1>6 DEF Out!Table

\* What a class says of itself when it has been saved.
Said(c, link) == Reread(c, FormOfLink(c, link))

LEMMA LinkValues ==
  ASSUME NEW link \in Links
  PROVE  /\ \A k \in ParamNames : link[k] \in Value /\ OrEmpty(link[k]) \in Values
         /\ NetworkNames \cup SecurityNames
              \cup {"user", "flow", "encryption", "method"} \subseteq ParamNames
  BY DEF Links, OrEmpty, Values, Value, ParamNames, NoParams, NetworkNames, SecurityNames

\* host and path of a TCP header are written, since its type is not the default.
LEMMA TcpSaid ==
  ASSUME NEW d, NEW link \in Links, NetworkCarried(d, link), HttpHeader(d)
  PROVE  /\ Said("Tcp", link).type = "other"
         /\ Said("Tcp", link).path = d.forms.TcpRequest.path
         /\ Said("Tcp", link).host = HostIn(d.forms.TcpRequest.headers)
<1> DEFINE args == <<link.headerType, link.host, link.path>>
           form == Made("Tcp", args)
           k == Out!Tcp
           gate == Out!Gate("Tcp", form)
<1>1. "Tcp" \in DOMAIN Out!Table /\ Out!Table["Tcp"] = k /\ Regular(k)
  BY OutStreamsRegular DEF Out!Table
<1>2. /\ k.fields = <<"type", "host", "path">> /\ k.gated = {"host", "path"}
      /\ k.orElse = {"path"} /\ k.full = {"type", "path"}
      /\ k.ifSet = {} /\ k.needs = {} /\ k.ifNew = {} /\ k.unwritten = {}
      /\ FieldsOf(k) = {"type", "host", "path"}
  BY DEF Out!Tcp, Out!Class, Out!Same, FieldsOf
<1> HIDE DEF k
<1>3. Said("Tcp", link) = Reread("Tcp", form)
  BY DEF Said, FormOfLink
<1>4. \A i \in DOMAIN args : args[i] \in Value
  BY LinkValues DEF NetworkNames
<1>5. /\ link.headerType = "other" /\ link.path = d.forms.TcpRequest.path
      /\ d.forms.TcpRequest.path \in Values \ {"empty"}
      /\ Carries(link.host, HostIn(d.forms.TcpRequest.headers))
  BY DEF NetworkCarried
<1>6. /\ form \in Forms(k) /\ form.type = "other" /\ form.path = d.forms.TcpRequest.path
      /\ form.host = HostIn(d.forms.TcpRequest.headers)
  <2>1. /\ form \in Forms(k)
        /\ \A n \in DOMAIN k.fields : form[k.fields[n]] =
             IF n \notin DOMAIN args \/ args[n] = "absent"
                  \/ (args[n] = "empty" /\ k.fields[n] \in k.orElse)
               THEN DefaultOf(k, k.fields[n]) ELSE args[n]
    BY <1>1, <1>4, MadeIs
  <2>2. 1 \in DOMAIN k.fields /\ 2 \in DOMAIN k.fields /\ 3 \in DOMAIN k.fields
        /\ k.fields[1] = "type" /\ k.fields[2] = "host" /\ k.fields[3] = "path"
    BY <1>2
  <2>3. /\ 1 \in DOMAIN args /\ 2 \in DOMAIN args /\ 3 \in DOMAIN args
        /\ args[1] = link.headerType /\ args[2] = link.host /\ args[3] = link.path
    OBVIOUS
  <2> HIDE DEF form, args
  <2>4. form["type"] = "other" /\ form["path"] = d.forms.TcpRequest.path
    BY <1>5, <2>1, <2>2, <2>3 DEF Values
  <2>5. form["host"] = HostIn(d.forms.TcpRequest.headers)
    BY <1>2, <1>5, <2>1, <2>2, <2>3 DEF Carries, IfAny, Values, DefaultOf
  <2> QED
    BY <2>1, <2>4, <2>5
<1>7. Out!Gate("Tcp", form)
  BY <1>6 DEF Out!Gate
<1>8. Reread("Tcp", form) = IF Lacks(k, form, gate) THEN NewForm(k)
                            ELSE [f \in FieldsOf(k) |-> Back(k, f, form[f], gate)]
  BY <1>1, <1>6, RereadIs
<1> HIDE DEF form
<1>9. ~Lacks(k, form, gate)
  BY <1>2 DEF Lacks
<1>10. \A f \in {"type", "host", "path"} : Reread("Tcp", form)[f] = form[f]
  BY <1>1, <1>2, <1>5, <1>6, <1>7, <1>8, <1>9, RegularBack DEF Dropped
<1> QED
  BY <1>3, <1>6, <1>10

\* The forms of the classes that leave nothing out.
LEMMA SaidSimple ==
  ASSUME NEW c \in DOMAIN Out!Table, Simple(Out!Table[c]), NEW link, NEW args,
         FormOfLink(c, link) = Made(c, args), \A i \in DOMAIN args : args[i] \in Value,
         NEW n \in DOMAIN Out!Table[c].fields, n \in DOMAIN args,
         NEW v, Carries(args[n], v),
         Out!Table[c].fields[n] \in Out!Table[c].full => args[n] = v
  PROVE  Said(c, link)[Out!Table[c].fields[n]] = v
<1> DEFINE k == Out!Table[c]
<1>1. Made(c, args) \in Forms(k)
      /\ Made(c, args)[k.fields[n]] =
           IF args[n] = "absent" \/ (args[n] = "empty" /\ k.fields[n] \in k.orElse)
             THEN DefaultOf(k, k.fields[n]) ELSE args[n]
  BY MadeIs
<1>2. Said(c, link) = Made(c, args)
  BY <1>1, SimpleReread DEF Said
<1>3. Simple(k) /\ (k.fields[n] \in k.full => args[n] = v)
  OBVIOUS
<1> HIDE DEF k
<1>4. Made(c, args)[k.fields[n]] = v
  BY <1>1, <1>3 DEF Simple, Carries, IfAny, DefaultOf, Values
<1> QED
  BY <1>2, <1>4 DEF k

LEMMA PathSaid ==
  ASSUME NEW d, NEW link \in Links, NEW c \in {"Ws", "HttpUpgrade"},
         link.path \in Values, link.host \in Values
  PROVE  Said(c, link).path = link.path /\ Said(c, link).host = link.host
<1> DEFINE args == <<link.path, link.host>>
<1>1. FormOfLink(c, link) = Made(c, args)
  BY DEF FormOfLink
<1>2. /\ \A i \in DOMAIN args : args[i] \in Value
      /\ 1 \in DOMAIN args /\ 2 \in DOMAIN args /\ args[1] = link.path /\ args[2] = link.host
  BY CarriesTyped
<1>3. Carries(link.path, link.path) /\ Carries(link.host, link.host)
  BY CarriesTyped
<1>4. /\ c \in DOMAIN Out!Table /\ Simple(Out!Table[c])
      /\ 1 \in DOMAIN Out!Table[c].fields /\ 2 \in DOMAIN Out!Table[c].fields
      /\ Out!Table[c].fields[1] = "path" /\ Out!Table[c].fields[2] = "host"
  BY SimpleClasses
<1> HIDE DEF args
<1>5. Said(c, link)[Out!Table[c].fields[1]] = link.path
  BY <1>1, <1>2, <1>3, <1>4, SaidSimple
<1>6. Said(c, link)[Out!Table[c].fields[2]] = link.host
  BY <1>1, <1>2, <1>3, <1>4, SaidSimple
<1> QED
  BY <1>4, <1>5, <1>6

LEMMA GrpcSaid ==
  ASSUME NEW link \in Links
  PROVE  /\ Said("Grpc", link).serviceName = OrEmpty(link.serviceName)
         /\ Said("Grpc", link).authority = OrEmpty(link.authority)
         /\ Said("Grpc", link).multiMode = OrEmpty(link.mode)
<1> DEFINE args == <<OrEmpty(link.serviceName), OrEmpty(link.authority), OrEmpty(link.mode)>>
           k == Out!Table["Grpc"]
<1>1. FormOfLink("Grpc", link) = Made("Grpc", args)
  BY DEF FormOfLink
<1>2. /\ DOMAIN args = {1, 2, 3} /\ args[1] = OrEmpty(link.serviceName)
      /\ args[2] = OrEmpty(link.authority) /\ args[3] = OrEmpty(link.mode)
      /\ \A i \in DOMAIN args : args[i] \in Values
  BY LinkValues DEF NetworkNames
<1> HIDE DEF args
<1>3. /\ "Grpc" \in DOMAIN Out!Table /\ Simple(k) /\ DOMAIN k.fields = {1, 2, 3}
      /\ k.fields[1] = "serviceName" /\ k.fields[2] = "authority"
      /\ k.fields[3] = "multiMode"
  BY SimpleClasses
<1> HIDE DEF k
<1>4. ASSUME NEW n \in {1, 2, 3}
      PROVE  Said("Grpc", link)[k.fields[n]] = args[n]
  <2>1. /\ n \in DOMAIN k.fields /\ n \in DOMAIN args /\ Carries(args[n], args[n])
        /\ \A i \in DOMAIN args : args[i] \in Value
    BY <1>2, <1>3, CarriesTyped
  <2> QED
    BY <1>1, <1>3, <2>1, SaidSimple DEF k
<1> QED
  BY <1>2, <1>3, <1>4

\* A number that is not empty is taken.
LEMMA KcpSaid ==
  ASSUME NEW link \in Links, link.mtu \in Values, link.tti \in Values
  PROVE  /\ link.mtu # "empty" => Said("Kcp", link).mtu = link.mtu
         /\ link.tti # "empty" => Said("Kcp", link).tti = link.tti
<1> DEFINE k == Out!Table["Kcp"]
           new == Made("Kcp", <<>>)
           form == ImportedKcp(link)
<1>1. "Kcp" \in DOMAIN Out!Table /\ Simple(k) /\ "mtu" \in FieldsOf(k) /\ "tti" \in FieldsOf(k)
  <2>1. /\ "Kcp" \in DOMAIN Out!Table /\ Simple(k) /\ k.fields[1] = "mtu" /\ k.fields[2] = "tti"
        /\ {1, 2} \subseteq DOMAIN k.fields
    BY SimpleClasses
  <2>2. Shaped(k)
    BY <2>1, OutTableRegular DEF Regular
  <2> HIDE DEF k
  <2> QED
    BY <2>1, <2>2 DEF Shaped
<1>2. new \in Forms(k)
  BY <1>1, MadeIs
<1>3. form = [new EXCEPT !.mtu = IF link.mtu \in {"absent", "empty"} THEN @ ELSE link.mtu,
                         !.tti = IF link.tti \in {"absent", "empty"} THEN @ ELSE link.tti]
  BY DEF ImportedKcp
<1>4. FormOfLink("Kcp", link) = form
  BY DEF FormOfLink
<1> HIDE DEF new, form, k
<1>5. /\ form \in Forms(k)
      /\ link.mtu # "empty" => form.mtu = link.mtu
      /\ link.tti # "empty" => form.tti = link.tti
  BY <1>1, <1>2, <1>3 DEF Forms, Values
<1>6. Said("Kcp", link) = form
  BY <1>1, <1>4, <1>5, SimpleReread DEF Said, k
<1> QED
  BY <1>5, <1>6

\* The mode is taken when there is one, and a new object has none.
LEMMA XHTTPSaid ==
  ASSUME NEW link \in Links, link.path \in Values, link.host \in Values
  PROVE  /\ Said("XHTTP", link).path = link.path /\ Said("XHTTP", link).host = link.host
         /\ \A m : Carries(link.mode, m) => Said("XHTTP", link).mode = m
<1> DEFINE k == Out!Table["XHTTP"]
           args == <<link.path, link.host>>
           new == Made("XHTTP", args)
           form == ImportedXHTTP(link)
<1>1. /\ "XHTTP" \in DOMAIN Out!Table /\ Simple(k)
      /\ 1 \in DOMAIN k.fields /\ 2 \in DOMAIN k.fields /\ 3 \in DOMAIN k.fields
      /\ k.fields[1] = "path" /\ k.fields[2] = "host" /\ k.fields[3] = "mode"
      /\ "mode" \notin k.full
  BY SimpleClasses
<1>2. {"path", "host", "mode"} \subseteq FieldsOf(k)
  <2>1. Shaped(k)
    BY <1>1, OutTableRegular DEF Regular
  <2> HIDE DEF k
  <2> QED
    BY <1>1, <2>1 DEF Shaped
<1>3. /\ \A i \in DOMAIN args : args[i] \in Value
      /\ 1 \in DOMAIN args /\ 2 \in DOMAIN args /\ 3 \notin DOMAIN args
      /\ args[1] = link.path /\ args[2] = link.host
  BY CarriesTyped
<1>4. /\ new \in Forms(k)
      /\ \A n \in DOMAIN k.fields : new[k.fields[n]] =
           IF n \notin DOMAIN args \/ args[n] = "absent"
                \/ (args[n] = "empty" /\ k.fields[n] \in k.orElse)
             THEN DefaultOf(k, k.fields[n]) ELSE args[n]
  BY <1>1, <1>3, MadeIs
<1>5. form = IF link.mode \in {"absent", "empty"} THEN new
             ELSE [new EXCEPT !.mode = link.mode]
  BY DEF ImportedXHTTP
<1>6. FormOfLink("XHTTP", link) = form
  BY DEF FormOfLink
<1>7. link.mode \in Value
  BY LinkValues DEF NetworkNames
<1> HIDE DEF args, new, form, k
<1>8. new["path"] = link.path /\ new["host"] = link.host /\ new["mode"] = "empty"
  BY <1>1, <1>3, <1>4 DEF Simple, Values, DefaultOf
<1>9. /\ form \in Forms(k) /\ form.path = link.path /\ form.host = link.host
      /\ form.mode = IF link.mode = "absent" THEN "empty" ELSE link.mode
  BY <1>2, <1>4, <1>5, <1>7, <1>8 DEF Forms, Values
<1>10. Said("XHTTP", link) = form
  BY <1>1, <1>6, <1>9, SimpleReread DEF Said, k
<1> QED
  BY <1>9, <1>10, CarriesThrough DEF OrEmpty

LEMMA SecurityClassesOut ==
  /\ Out!Table["Tls"].fields = <<"serverName", "alpn", "fingerprint", "echConfigList",
                                 "verifyPeerCertByName", "pinnedPeerCertSha256">>
  /\ Out!Table["Tls"].full = {}
  /\ Out!Table["Reality"].fields = <<"publicKey", "fingerprint", "serverName", "shortId",
                                     "spiderX", "mldsa65Verify">>
  /\ Out!Table["Reality"].full = {}
<1>1. /\ Out!Tls.fields = <<"serverName", "alpn", "fingerprint", "echConfigList",
                           "verifyPeerCertByName", "pinnedPeerCertSha256">>
      /\ Out!Tls.full = {}
  BY DEF Out!Tls, Out!Plain, Out!Class
<1>2. /\ Out!Reality.fields = <<"publicKey", "fingerprint", "serverName", "shortId",
                               "spiderX", "mldsa65Verify">>
      /\ Out!Reality.full = {}
  BY DEF Out!Reality, Out!Plain, Out!Class
<1> QED
  BY <1>1, <1>2 DEF Out!Table

LEMMA TlsSaid ==
  ASSUME NEW link \in Links
  PROVE  /\ Said("Tls", link).serverName = OrEmpty(link.sni)
         /\ Said("Tls", link).alpn = OrEmpty(link.alpn)
         /\ Said("Tls", link).fingerprint = OrEmpty(link.fp)
         /\ Said("Tls", link).echConfigList = OrEmpty(link.ech)
<1> DEFINE args == <<OrEmpty(link.sni), OrEmpty(link.alpn), link.fp, OrEmpty(link.ech)>>
           k == Out!Table["Tls"]
<1>1. FormOfLink("Tls", link) = Made("Tls", args)
  BY DEF FormOfLink
<1>2. link.sni \in Value /\ link.alpn \in Value /\ link.fp \in Value /\ link.ech \in Value
  BY LinkValues DEF SecurityNames
<1>3. /\ Carries(args[1], OrEmpty(link.sni)) /\ Carries(args[2], OrEmpty(link.alpn))
      /\ Carries(args[3], OrEmpty(link.fp)) /\ Carries(args[4], OrEmpty(link.ech))
      /\ DOMAIN args = {1, 2, 3, 4}
  BY <1>2, ValueCarried
<1> HIDE DEF args
<1>4. \A i \in DOMAIN args : args[i] \in Value
  BY <1>3, CarriesThrough
<1>5. /\ "Tls" \in DOMAIN Out!Table /\ Simple(k) /\ k.full = {}
      /\ 1 \in DOMAIN k.fields /\ 2 \in DOMAIN k.fields /\ 3 \in DOMAIN k.fields
      /\ 4 \in DOMAIN k.fields
      /\ k.fields[1] = "serverName" /\ k.fields[2] = "alpn" /\ k.fields[3] = "fingerprint"
      /\ k.fields[4] = "echConfigList"
  BY SimpleClasses, SecurityClassesOut
<1> HIDE DEF k
<1>6. ASSUME NEW n \in {1, 2, 3, 4}, NEW v, Carries(args[n], v)
      PROVE  Said("Tls", link)[k.fields[n]] = v
  <2>1. n \in DOMAIN k.fields /\ n \in DOMAIN args
    BY <1>3, <1>5
  <2> QED
    BY <1>1, <1>4, <1>5, <1>6, <2>1, SaidSimple DEF k
<1>7. /\ Said("Tls", link)[k.fields[1]] = OrEmpty(link.sni)
      /\ Said("Tls", link)[k.fields[2]] = OrEmpty(link.alpn)
      /\ Said("Tls", link)[k.fields[3]] = OrEmpty(link.fp)
      /\ Said("Tls", link)[k.fields[4]] = OrEmpty(link.ech)
  BY <1>3, <1>6
<1> QED
  BY <1>5, <1>7

LEMMA RealitySaid ==
  ASSUME NEW link \in Links
  PROVE  /\ Said("Reality", link).publicKey = OrEmpty(link.pbk)
         /\ Said("Reality", link).fingerprint = OrEmpty(link.fp)
         /\ Said("Reality", link).serverName = OrEmpty(link.sni)
         /\ Said("Reality", link).shortId = OrEmpty(link.sid)
         /\ Said("Reality", link).spiderX = OrEmpty(link.spx)
         /\ Said("Reality", link).mldsa65Verify = OrEmpty(link.pqv)
<1> DEFINE args == <<link.pbk, link.fp, OrEmpty(link.sni), OrEmpty(link.sid),
                     OrEmpty(link.spx), OrEmpty(link.pqv)>>
           k == Out!Table["Reality"]
<1>1. FormOfLink("Reality", link) = Made("Reality", args)
  BY DEF FormOfLink
<1>2. /\ link.pbk \in Value /\ link.fp \in Value /\ link.sni \in Value
      /\ link.sid \in Value /\ link.spx \in Value /\ link.pqv \in Value
  BY LinkValues DEF SecurityNames
<1>3. /\ Carries(args[1], OrEmpty(link.pbk)) /\ Carries(args[2], OrEmpty(link.fp))
      /\ Carries(args[3], OrEmpty(link.sni)) /\ Carries(args[4], OrEmpty(link.sid))
      /\ Carries(args[5], OrEmpty(link.spx)) /\ Carries(args[6], OrEmpty(link.pqv))
      /\ DOMAIN args = {1, 2, 3, 4, 5, 6}
  BY <1>2, ValueCarried
<1> HIDE DEF args
<1>4. \A i \in DOMAIN args : args[i] \in Value
  BY <1>3, CarriesThrough
<1>5. /\ "Reality" \in DOMAIN Out!Table /\ Simple(k) /\ k.full = {}
      /\ DOMAIN k.fields = {1, 2, 3, 4, 5, 6}
      /\ k.fields[1] = "publicKey" /\ k.fields[2] = "fingerprint"
      /\ k.fields[3] = "serverName" /\ k.fields[4] = "shortId" /\ k.fields[5] = "spiderX"
      /\ k.fields[6] = "mldsa65Verify"
  BY SimpleClasses, SecurityClassesOut
<1> HIDE DEF k
<1>6. ASSUME NEW n \in {1, 2, 3, 4, 5, 6}, NEW v, Carries(args[n], v)
      PROVE  Said("Reality", link)[k.fields[n]] = v
  <2>1. n \in DOMAIN k.fields /\ n \in DOMAIN args
    BY <1>3, <1>5
  <2> QED
    BY <1>1, <1>4, <1>5, <1>6, <2>1, SaidSimple DEF k
<1>7. /\ Said("Reality", link)[k.fields[1]] = OrEmpty(link.pbk)
      /\ Said("Reality", link)[k.fields[2]] = OrEmpty(link.fp)
      /\ Said("Reality", link)[k.fields[3]] = OrEmpty(link.sni)
      /\ Said("Reality", link)[k.fields[4]] = OrEmpty(link.sid)
      /\ Said("Reality", link)[k.fields[5]] = OrEmpty(link.spx)
      /\ Said("Reality", link)[k.fields[6]] = OrEmpty(link.pqv)
  BY <1>3, <1>6
<1> QED
  BY <1>5, <1>7

LEMMA UserSaid ==
  ASSUME NEW link \in Links, link.user \in Values
  PROVE  /\ Said("VmessSettings", link).id = link.user
         /\ link.method \in Values => Said("VmessSettings", link).security = link.method
         /\ Said("TrojanSettings", link).password = link.user
<1>1. /\ Out!VmessSettings.fields = <<"address", "port", "id", "security">>
      /\ Out!VmessSettings.full = {}
      /\ Out!TrojanSettings.fields = <<"address", "port", "password">>
      /\ Out!TrojanSettings.full = {}
  BY DEF Out!VmessSettings, Out!TrojanSettings, Out!Plain, Out!Class
<1>2. /\ Out!Table["VmessSettings"] = Out!VmessSettings
      /\ Out!Table["TrojanSettings"] = Out!TrojanSettings
  BY DEF Out!Table
<1>3. /\ "VmessSettings" \in DOMAIN Out!Table /\ Simple(Out!Table["VmessSettings"])
      /\ "TrojanSettings" \in DOMAIN Out!Table /\ Simple(Out!Table["TrojanSettings"])
  BY SimpleClasses
<1>4. /\ link.method \in Value /\ link.user \in Value /\ "given" \in Value
      /\ Carries(link.user, link.user)
  BY LinkValues, CarriesTyped DEF Value
<1>5. /\ Said("VmessSettings", link)["id"] = link.user
      /\ link.method \in Values => Said("VmessSettings", link)["security"] = link.method
  <2> DEFINE args == <<"given", "given", link.user, link.method>>
             k == Out!Table["VmessSettings"]
  <2>1. FormOfLink("VmessSettings", link) = Made("VmessSettings", args)
    BY DEF FormOfLink
  <2>2. /\ \A i \in DOMAIN args : args[i] \in Value
        /\ 3 \in DOMAIN args /\ args[3] = link.user
        /\ 4 \in DOMAIN args /\ args[4] = link.method
    BY <1>4
  <2>3. /\ 3 \in DOMAIN k.fields /\ k.fields[3] = "id" /\ k.full = {}
        /\ 4 \in DOMAIN k.fields /\ k.fields[4] = "security"
    BY <1>1, <1>2
  <2> HIDE DEF args
  <2>4. Said("VmessSettings", link)[k.fields[3]] = link.user
    BY <1>3, <1>4, <2>1, <2>2, <2>3, SaidSimple
  <2>5. link.method \in Values => Said("VmessSettings", link)[k.fields[4]] = link.method
    BY <1>3, <2>1, <2>2, <2>3, SaidSimple, CarriesTyped
  <2> QED
    BY <2>3, <2>4, <2>5
<1>6. Said("TrojanSettings", link)["password"] = link.user
  <2> DEFINE args == <<"given", "given", link.user>>
             k == Out!Table["TrojanSettings"]
  <2>1. FormOfLink("TrojanSettings", link) = Made("TrojanSettings", args)
    BY DEF FormOfLink
  <2>2. /\ \A i \in DOMAIN args : args[i] \in Value
        /\ 3 \in DOMAIN args /\ args[3] = link.user
    BY <1>4
  <2>3. 3 \in DOMAIN k.fields /\ k.fields[3] = "password" /\ k.full = {}
    BY <1>1, <1>2
  <2> HIDE DEF args
  <2>4. Said("TrojanSettings", link)[k.fields[3]] = link.user
    BY <1>3, <1>4, <2>1, <2>2, <2>3, SaidSimple
  <2> QED
    BY <2>3, <2>4
<1> QED
  BY <1>5, <1>6

\* The password and the method of Shadowsocks, and the version and the auth of Hysteria.
LEMMA SSSaid ==
  ASSUME NEW link \in Links, link.user \in Values, link.method = "given"
  PROVE  /\ Said("ShadowsocksSettings", link).password = link.user
         /\ Said("ShadowsocksSettings", link).method = "given"
<1> DEFINE args == <<"given", "given", link.user, link.method, "other">>
           k == Out!Table["ShadowsocksSettings"]
<1>1. /\ k.fields = <<"address", "port", "password", "method", "uot", "UoTVersion">>
      /\ k.full = {}
  <2>1. k = Out!ShadowsocksSettings
    BY DEF Out!Table
  <2> HIDE DEF k
  <2> QED
    BY <2>1 DEF Out!ShadowsocksSettings, Out!Plain, Out!Class
<1>2. "ShadowsocksSettings" \in DOMAIN Out!Table /\ Simple(k)
  BY SimpleClasses
<1>3. FormOfLink("ShadowsocksSettings", link) = Made("ShadowsocksSettings", args)
  BY DEF FormOfLink
<1>4. /\ 3 \in DOMAIN args /\ args[3] = link.user /\ 4 \in DOMAIN args /\ args[4] = "given"
      /\ \A i \in DOMAIN args : args[i] \in Value
  BY CarriesTyped DEF Value
<1>5. Carries(link.user, link.user) /\ Carries("given", "given")
  BY CarriesTyped DEF Values, Value
<1>6. /\ 3 \in DOMAIN k.fields /\ k.fields[3] = "password"
      /\ 4 \in DOMAIN k.fields /\ k.fields[4] = "method"
  BY <1>1
<1> HIDE DEF args
<1>7. Said("ShadowsocksSettings", link)[k.fields[3]] = link.user
  BY <1>1, <1>2, <1>3, <1>4, <1>5, <1>6, SaidSimple
<1>8. Said("ShadowsocksSettings", link)[k.fields[4]] = "given"
  BY <1>1, <1>2, <1>3, <1>4, <1>5, <1>6, SaidSimple
<1> QED
  BY <1>6, <1>7, <1>8

LEMMA HysteriaVersionSaid ==
  ASSUME NEW link
  PROVE  Said("HysteriaSettings", link).version = "default"
<1> DEFINE args == <<"given", "given", "default">>
           k == Out!Table["HysteriaSettings"]
<1>1. k.fields = <<"address", "port", "version">>
  <2>1. k = Out!HysteriaSettings
    BY DEF Out!Table
  <2> HIDE DEF k
  <2> QED
    BY <2>1 DEF Out!HysteriaSettings, Out!Plain, Out!Class
<1>2. "HysteriaSettings" \in DOMAIN Out!Table /\ Simple(k)
  BY SimpleClasses
<1>3. FormOfLink("HysteriaSettings", link) = Made("HysteriaSettings", args)
  BY DEF FormOfLink
<1>4. /\ 3 \in DOMAIN args /\ args[3] = "default"
      /\ \A i \in DOMAIN args : args[i] \in Value
  BY DEF Value
<1>5. Carries("default", "default")
  BY CarriesTyped DEF Values, Value
<1>6. 3 \in DOMAIN k.fields /\ k.fields[3] = "version"
  BY <1>1
<1> HIDE DEF args
<1>7. Said("HysteriaSettings", link)[k.fields[3]] = "default"
  BY <1>2, <1>3, <1>4, <1>5, <1>6, SaidSimple
<1> QED
  BY <1>6, <1>7

LEMMA HysteriaAuthSaid ==
  ASSUME NEW link, link.user \in Values
  PROVE  Said("Hysteria", link).auth = link.user
<1> DEFINE k == Out!Table["Hysteria"]
           form == FormOfLink("Hysteria", link)
           gate == Out!Gate("Hysteria", form)
<1>1. "Hysteria" \in DOMAIN Out!Table /\ Regular(k)
  BY OutTableRegular DEF Out!Table
<1>2. /\ "auth" \in FieldsOf(k) /\ k.needs = {}
      /\ "auth" \notin k.gated /\ "auth" \notin k.ifSet /\ "auth" \notin k.orElse
  <2>1. k = Out!Hysteria
    BY DEF Out!Table
  <2> HIDE DEF k
  <2> QED
    BY <2>1 DEF Out!Hysteria, Out!Class, FieldsOf
<1>3. Made("Hysteria", <<>>) \in Forms(k)
  BY <1>1, MadeIs
<1>4. form = [Made("Hysteria", <<>>) EXCEPT !.auth = link.user]
  BY DEF FormOfLink
<1> HIDE DEF form
<1>5. form \in Forms(k) /\ form["auth"] = link.user
  BY <1>2, <1>3, <1>4 DEF Forms
<1>6. Reread("Hysteria", form) = IF Lacks(k, form, gate) THEN NewForm(k)
                                 ELSE [f \in FieldsOf(k) |-> Back(k, f, form[f], gate)]
  BY <1>1, <1>5, RereadIs
<1> HIDE DEF k, gate
<1>7. ~Lacks(k, form, gate)
  BY <1>2 DEF Lacks
<1>8. Reread("Hysteria", form)["auth"] = link.user
  BY <1>1, <1>2, <1>5, <1>6, <1>7, RegularBack DEF Dropped, Regular, Complete
<1> QED
  BY <1>8 DEF Said, form

\* The settings of VLESS have the address and the port without which they would be new.
LEMMA VLESSSaid ==
  ASSUME NEW link \in Links, link.user \in Values, link.encryption \in Values,
         NEW flow, Carries(link.flow, flow)
  PROVE  /\ Said("VLESSSettings", link).id = link.user
         /\ Said("VLESSSettings", link).flow = flow
         /\ Said("VLESSSettings", link).encryption = link.encryption
<1> DEFINE args == <<"given", "given", link.user, OrEmpty(link.flow), link.encryption>>
           form == Made("VLESSSettings", args)
           k == Out!Table["VLESSSettings"]
           gate == Out!Gate("VLESSSettings", form)
<1>1. "VLESSSettings" \in DOMAIN Out!Table /\ Regular(k)
  BY OutTableRegular DEF Out!Table
<1>2. /\ k.fields = <<"address", "port", "id", "flow", "encryption", "reverseTag", "testpre",
                      "testseed">>
      /\ k.needs = {"address", "port"} /\ k.orElse = {}
      /\ {"address", "port", "id", "flow", "encryption"} \subseteq FieldsOf(k)
      /\ \A f \in {"address", "port", "id", "flow", "encryption"} :
            /\ f \notin k.ifSet /\ f \notin k.gated /\ f \notin k.full
            /\ f \notin k.unwritten /\ f \notin k.ifNew
  <2>1. k = Out!VLESSSettings
    BY DEF Out!Table
  <2> HIDE DEF k
  <2> QED
    BY <2>1 DEF Out!VLESSSettings, Out!Class, FieldsOf
<1>3. FormOfLink("VLESSSettings", link) = form
  BY DEF FormOfLink
<1>4. /\ args[1] = "given" /\ args[2] = "given" /\ args[3] = link.user /\ args[4] = flow
      /\ args[5] = link.encryption /\ DOMAIN args = {1, 2, 3, 4, 5}
  BY CarriesThrough
<1> HIDE DEF args
<1>5. flow \in Values /\ \A i \in DOMAIN args : args[i] \in Value
  BY <1>4, CarriesTyped DEF Carries, Value
<1>6. /\ form \in Forms(k)
      /\ \A n \in DOMAIN k.fields : form[k.fields[n]] =
           IF n \notin DOMAIN args \/ args[n] = "absent"
                \/ (args[n] = "empty" /\ k.fields[n] \in k.orElse)
             THEN DefaultOf(k, k.fields[n]) ELSE args[n]
  BY <1>1, <1>5, MadeIs
<1>7. {1, 2, 3, 4, 5} \subseteq DOMAIN k.fields
  BY <1>2
<1> HIDE DEF form
<1>8. /\ form["address"] = "given" /\ form["port"] = "given" /\ form["id"] = link.user
      /\ form["flow"] = flow /\ form["encryption"] = link.encryption
  BY <1>2, <1>4, <1>5, <1>6, <1>7 DEF Values
<1>9. Reread("VLESSSettings", form) = IF Lacks(k, form, gate) THEN NewForm(k)
                                      ELSE [f \in FieldsOf(k) |-> Back(k, f, form[f], gate)]
  BY <1>1, <1>6, RereadIs
<1> HIDE DEF k, gate
<1>10. ~Lacks(k, form, gate)
  BY <1>2, <1>8 DEF Lacks, Dropped
<1>11. \A f \in {"id", "flow", "encryption"} : Reread("VLESSSettings", form)[f] = form[f]
  BY <1>1, <1>2, <1>9, <1>10, RegularBack DEF Dropped
<1> QED
  BY <1>3, <1>8, <1>11 DEF Said

-----------------------------------------------------------------------------
(* All of it together. *)

\* Whatever class is made of a link is one of an outbound, with a value for each field.
LinkClasses ==
  {"VmessSettings", "VLESSSettings", "TrojanSettings", "ShadowsocksSettings",
   "HysteriaSettings", "Tcp", "Kcp", "Ws", "HttpUpgrade", "Grpc", "XHTTP", "Hysteria", "Tls",
   "Reality"}

LEMMA FormOfLinkTyped ==
  ASSUME NEW link \in Links, link.user \in Values, NEW c \in LinkClasses
  PROVE  c \in DOMAIN Out!Table /\ FormOfLink(c, link) \in Forms(Out!Table[c])
<1>1. c \in DOMAIN Out!Table
  BY DEF LinkClasses, Out!Table
<1> SUFFICES FormOfLink(c, link) \in Forms(Out!Table[c])
  BY <1>1
<1>2. \A k \in ParamNames : link[k] \in Value /\ OrEmpty(link[k]) \in Value
  BY LinkValues, CarriesTyped
<1>3. NetworkNames \cup SecurityNames \cup {"user", "flow", "encryption", "method"}
        \subseteq ParamNames
  BY LinkValues
<1>4. {"given", "other", "default"} \subseteq Value
  BY DEF Value
<1>5. \A args : (\A i \in DOMAIN args : args[i] \in Value) => Made(c, args) \in Forms(Out!Table[c])
  BY <1>1, MadeIs
<1>6. CASE c = "Kcp"
  <2>1. FormOfLink(c, link) = ImportedKcp(link) /\ Made("Kcp", <<>>) \in Forms(Out!Table[c])
    BY <1>5, <1>6 DEF FormOfLink
  <2>2. /\ link.mtu \in {"absent", "empty"} \/ link.mtu \in Values
        /\ link.tti \in {"absent", "empty"} \/ link.tti \in Values
    BY <1>2, <1>3 DEF Values, NetworkNames
  <2> QED
    BY <1>6, <2>1, <2>2 DEF ImportedKcp, Forms
<1>7. CASE c = "XHTTP"
  <2> DEFINE args == <<link.path, link.host>>
  <2>1. \A i \in DOMAIN args : args[i] \in Value
    BY <1>2, <1>3 DEF NetworkNames
  <2>2. FormOfLink(c, link) = ImportedXHTTP(link) /\ Made("XHTTP", args) \in Forms(Out!Table[c])
    BY <1>5, <1>7, <2>1 DEF FormOfLink
  <2>3. link.mode \in {"absent", "empty"} \/ link.mode \in Values
    BY <1>2, <1>3 DEF Values, NetworkNames
  <2> QED
    BY <1>7, <2>2, <2>3 DEF ImportedXHTTP, Forms
<1>8. CASE c = "Hysteria"
  <2>1. FormOfLink(c, link) = [Made(c, <<>>) EXCEPT !.auth = link.user]
        /\ Made(c, <<>>) \in Forms(Out!Table[c])
    BY <1>5, <1>8 DEF FormOfLink
  <2> QED
    BY <2>1 DEF Forms
<1>9. CASE c \in {"VmessSettings", "VLESSSettings", "TrojanSettings", "ShadowsocksSettings",
                  "HysteriaSettings"}
  <2> DEFINE v == <<"given", "given", link.user, link.method>>
             w == <<"given", "given", link.user, OrEmpty(link.flow), link.encryption>>
             t == <<"given", "given", link.user>>
             x == <<"given", "given", link.user, link.method, "other">>
             h == <<"given", "given", "default">>
  <2>1. /\ c = "VmessSettings" => FormOfLink(c, link) = Made(c, v)
        /\ c = "VLESSSettings" => FormOfLink(c, link) = Made(c, w)
        /\ c = "TrojanSettings" => FormOfLink(c, link) = Made(c, t)
        /\ c = "ShadowsocksSettings" => FormOfLink(c, link) = Made(c, x)
        /\ c = "HysteriaSettings" => FormOfLink(c, link) = Made(c, h)
    BY DEF FormOfLink
  <2>2. /\ \A i \in DOMAIN v : v[i] \in Value
        /\ \A i \in DOMAIN w : w[i] \in Value
        /\ \A i \in DOMAIN t : t[i] \in Value
        /\ \A i \in DOMAIN x : x[i] \in Value
        /\ \A i \in DOMAIN h : h[i] \in Value
    BY <1>2, <1>3, <1>4
  <2> HIDE DEF v, w, t, x, h
  <2> QED
    BY <1>5, <1>9, <2>1, <2>2
<1>10. CASE c \in {"Tcp", "Ws", "HttpUpgrade", "Grpc"}
  <2> DEFINE v == <<link.headerType, link.host, link.path>>
             w == <<link.path, link.host>>
             g == <<OrEmpty(link.serviceName), OrEmpty(link.authority), OrEmpty(link.mode)>>
  <2>1. /\ c = "Tcp" => FormOfLink(c, link) = Made(c, v)
        /\ c \in {"Ws", "HttpUpgrade"} => FormOfLink(c, link) = Made(c, w)
        /\ c = "Grpc" => FormOfLink(c, link) = Made(c, g)
    BY DEF FormOfLink
  <2>2. /\ \A i \in DOMAIN v : v[i] \in Value
        /\ \A i \in DOMAIN w : w[i] \in Value
        /\ \A i \in DOMAIN g : g[i] \in Value
    BY <1>2, <1>3 DEF NetworkNames
  <2> HIDE DEF v, w, g
  <2> QED
    BY <1>5, <1>10, <2>1, <2>2
<1>11. CASE c \in {"Tls", "Reality"}
  <2> DEFINE v == <<OrEmpty(link.sni), OrEmpty(link.alpn), link.fp, OrEmpty(link.ech)>>
             w == <<link.pbk, link.fp, OrEmpty(link.sni), OrEmpty(link.sid),
                    OrEmpty(link.spx), OrEmpty(link.pqv)>>
  <2>1. /\ c = "Tls" => FormOfLink(c, link) = Made(c, v)
        /\ c = "Reality" => FormOfLink(c, link) = Made(c, w)
    BY DEF FormOfLink
  <2>2. /\ \A i \in DOMAIN v : v[i] \in Value
        /\ \A i \in DOMAIN w : w[i] \in Value
    BY <1>2, <1>3 DEF SecurityNames
  <2> HIDE DEF v, w
  <2> QED
    BY <1>5, <1>11, <2>1, <2>2
<1> QED
  BY <1>1, <1>6, <1>7, <1>8, <1>9, <1>10, <1>11 DEF LinkClasses

\* The classes of the outbound.
FormClasses(d) ==
  {OutboundClass[d.protocol], NetworkClass[d.network]}
    \cup IF d.protocol = "hysteria" THEN {} ELSE SecurityClass[d.security]

LEMMA FormClassesAre ==
  ASSUME NEW d, HasLink(d)
  PROVE  /\ FormClasses(d) \subseteq LinkClasses
         /\ d.protocol # "hysteria" => /\ d.security = "tls" => "Tls" \in FormClasses(d)
                                       /\ d.security = "reality" => "Reality" \in FormClasses(d)
         /\ d.network = "tcp" => "Tcp" \in FormClasses(d)
         /\ d.network = "kcp" => "Kcp" \in FormClasses(d)
         /\ d.network = "ws" => "Ws" \in FormClasses(d)
         /\ d.network = "grpc" => "Grpc" \in FormClasses(d)
         /\ d.network = "httpupgrade" => "HttpUpgrade" \in FormClasses(d)
         /\ d.network = "xhttp" => "XHTTP" \in FormClasses(d)
         /\ d.protocol = "vmess" => "VmessSettings" \in FormClasses(d)
         /\ d.protocol = "vless" => "VLESSSettings" \in FormClasses(d)
         /\ d.network = "hysteria" => "Hysteria" \in FormClasses(d)
         /\ d.protocol = "trojan" => "TrojanSettings" \in FormClasses(d)
         /\ d.protocol = "shadowsocks" => "ShadowsocksSettings" \in FormClasses(d)
         /\ d.protocol = "hysteria" => "HysteriaSettings" \in FormClasses(d)
<1>1. /\ d.protocol \in Linked /\ d.network \in Networks \cup {"hysteria"}
      /\ d.security \in {"none", "tls", "reality"}
  BY DEF HasLink, Linkable
<1>2. /\ OutboundClass[d.protocol] \in LinkClasses
      /\ d.protocol = "vmess" => OutboundClass[d.protocol] = "VmessSettings"
      /\ d.protocol = "vless" => OutboundClass[d.protocol] = "VLESSSettings"
      /\ d.protocol = "trojan" => OutboundClass[d.protocol] = "TrojanSettings"
      /\ d.protocol = "shadowsocks" => OutboundClass[d.protocol] = "ShadowsocksSettings"
      /\ d.protocol = "hysteria" => OutboundClass[d.protocol] = "HysteriaSettings"
  BY <1>1 DEF OutboundClass, Linked, LinkClasses
<1>3. /\ NetworkClass[d.network] \in LinkClasses
      /\ d.network = "tcp" => NetworkClass[d.network] = "Tcp"
      /\ d.network = "kcp" => NetworkClass[d.network] = "Kcp"
      /\ d.network = "ws" => NetworkClass[d.network] = "Ws"
      /\ d.network = "grpc" => NetworkClass[d.network] = "Grpc"
      /\ d.network = "httpupgrade" => NetworkClass[d.network] = "HttpUpgrade"
      /\ d.network = "xhttp" => NetworkClass[d.network] = "XHTTP"
      /\ d.network = "hysteria" => NetworkClass[d.network] = "Hysteria"
  BY <1>1 DEF NetworkClass, Networks, LinkClasses
<1>4. /\ SecurityClass[d.security] \subseteq LinkClasses
      /\ d.security = "tls" => "Tls" \in SecurityClass[d.security]
      /\ d.security = "reality" => "Reality" \in SecurityClass[d.security]
  BY <1>1 DEF SecurityClass, LinkClasses
<1> QED
  BY <1>2, <1>3, <1>4 DEF FormClasses

LEMMA ImportedIs ==
  ASSUME NEW d, HasLink(d)
  PROVE  /\ Imported(d).protocol = d.protocol /\ Imported(d).network = d.network
         /\ Imported(d).security = IF d.protocol = "hysteria" THEN "none" ELSE d.security
         /\ Imported(d) = [Imported(d) EXCEPT !.forms =
                             [c \in FormClasses(d) |-> Said(c, Carried(d))]]
         /\ Imported(d).forms = [c \in FormClasses(d) |-> Said(c, Carried(d))]
<1> DEFINE sec == IF d.protocol = "hysteria" THEN "none" ELSE d.security
           o == FromParamLink(d.protocol, d.network, sec, Carried(d))
           forms == [c \in FormClasses(d) |-> FormOfLink(c, Carried(d))]
<1>1. d.protocol \in Linked /\ (d.protocol = "hysteria" <=> d.network = "hysteria")
  BY DEF HasLink, Linkable
<1>2. FromLink(d, GenLink(d)) = o
  BY <1>1, FromLinkIs
<1>3. {OutboundClass[d.protocol], NetworkClass[d.network]} \cup SecurityClass[sec]
        = FormClasses(d)
  BY DEF FormClasses, SecurityClass
<1>4. o = [protocol |-> d.protocol, network |-> d.network, security |-> sec, forms |-> forms]
  BY <1>3 DEF FromParamLink
<1>5. [c \in DOMAIN forms |-> Reread(c, forms[c])] = [c \in FormClasses(d) |-> Said(c, Carried(d))]
  BY DEF Said
<1> HIDE DEF forms, o
<1>6. Imported(d) = [o EXCEPT !.forms = [c \in DOMAIN forms |-> Reread(c, forms[c])]]
  BY <1>2, <1>4 DEF Imported, Edited
<1> QED
  BY <1>4, <1>5, <1>6

LEMMA NetworkSaid ==
  ASSUME NEW d, HasLink(d), NEW w \in NetworkWanted(d)
  PROVE  w[1] \in FormClasses(d) /\ Said(w[1], Carried(d))[w[2]] = w[3]
<1> DEFINE link == Carried(d)
<1>1. CASE HttpHeader(d)
  <2>1. d.network = "tcp" /\ d.protocol # "hysteria"
    BY <1>1 DEF HttpHeader, HasLink, Linkable
  <2>2. NetworkWanted(d) = {<<"Tcp", "type", "other">>,
                            <<"Tcp", "path", d.forms.TcpRequest.path>>,
                            <<"Tcp", "host", HostIn(d.forms.TcpRequest.headers)>>}
    BY <1>1, <2>1 DEF NetworkWanted
  <2>3. /\ Said("Tcp", link).type = "other"
        /\ Said("Tcp", link).path = d.forms.TcpRequest.path
        /\ Said("Tcp", link).host = HostIn(d.forms.TcpRequest.headers)
    BY <1>1, <2>1, AllCarried, TcpSaid
  <2> QED
    BY <2>1, <2>2, <2>3, FormClassesAre
<1>2. CASE d.network = "kcp"
  <2>1. ~HttpHeader(d) /\ d.protocol # "hysteria"
    BY <1>2 DEF HttpHeader, HasLink, Linkable
  <2>2. PICK f \in {"mtu", "tti"} : d.forms.Kcp[f] # "empty" /\ w = <<"Kcp", f, d.forms.Kcp[f]>>
    BY <1>2, <2>1 DEF NetworkWanted
  <2>3. /\ link \in Links
        /\ link.mtu = d.forms.Kcp.mtu /\ link.mtu \in Values
        /\ link.tti = d.forms.Kcp.tti /\ link.tti \in Values
    BY <1>2, <2>1, AllCarried DEF NetworkCarried
  <2>4. Said("Kcp", link)[f] = d.forms.Kcp[f]
    BY <2>2, <2>3, KcpSaid
  <2> QED
    BY <1>2, <2>2, <2>4, FormClassesAre
<1>3. CASE d.network = "ws"
  <2>1. ~HttpHeader(d) /\ d.protocol # "hysteria"
    BY <1>3 DEF HttpHeader, HasLink, Linkable
  <2>2. NetworkWanted(d) = {<<"Ws", "path", d.forms.Ws.path>>, <<"Ws", "host", HostOf(d, "Ws")>>}
    BY <1>3, <2>1 DEF NetworkWanted
  <2>3. /\ link \in Links
        /\ link.path = d.forms.Ws.path /\ link.path \in Values
        /\ link.host = HostOf(d, "Ws") /\ link.host \in Values
    BY <1>3, <2>1, AllCarried DEF NetworkCarried
  <2>4. Said("Ws", link).path = d.forms.Ws.path /\ Said("Ws", link).host = HostOf(d, "Ws")
    BY <2>3, PathSaid
  <2> QED
    BY <1>3, <2>2, <2>4, FormClassesAre
<1>4. CASE d.network = "grpc"
  <2>1. ~HttpHeader(d) /\ d.protocol # "hysteria"
    BY <1>4 DEF HttpHeader, HasLink, Linkable
  <2>2. FieldsOf(Grpc) = {"serviceName", "authority", "multiMode"}
    BY DEF FieldsOf, Grpc, Plain, Class, Same
  <2>3. PICK f \in {"serviceName", "authority", "multiMode"} : w = <<"Grpc", f, d.forms.Grpc[f]>>
    BY <1>4, <2>1, <2>2 DEF NetworkWanted
  <2>4. /\ link \in Links
        /\ Carries(link.serviceName, d.forms.Grpc.serviceName)
        /\ Carries(link.authority, d.forms.Grpc.authority)
        /\ Carries(link.mode, d.forms.Grpc.multiMode)
    BY <1>4, <2>1, AllCarried DEF NetworkCarried
  <2>5. /\ Said("Grpc", link).serviceName = d.forms.Grpc.serviceName
        /\ Said("Grpc", link).authority = d.forms.Grpc.authority
        /\ Said("Grpc", link).multiMode = d.forms.Grpc.multiMode
    <3> HIDE DEF link
    <3>1. /\ OrEmpty(link.serviceName) = d.forms.Grpc.serviceName
          /\ OrEmpty(link.authority) = d.forms.Grpc.authority
          /\ OrEmpty(link.mode) = d.forms.Grpc.multiMode
      BY <2>4, CarriesThrough
    <3> QED
      BY <2>4, <3>1, GrpcSaid
  <2> QED
    BY <1>4, <2>3, <2>5, FormClassesAre
<1>5. CASE d.network = "httpupgrade"
  <2>1. ~HttpHeader(d) /\ d.protocol # "hysteria"
    BY <1>5 DEF HttpHeader, HasLink, Linkable
  <2>2. NetworkWanted(d) = {<<"HttpUpgrade", "path", d.forms.HTTPUpgrade.path>>,
                            <<"HttpUpgrade", "host", HostOf(d, "HTTPUpgrade")>>}
    BY <1>5, <2>1 DEF NetworkWanted
  <2>3. /\ link \in Links
        /\ link.path = d.forms.HTTPUpgrade.path /\ link.path \in Values
        /\ link.host = HostOf(d, "HTTPUpgrade") /\ link.host \in Values
    BY <1>5, <2>1, AllCarried DEF NetworkCarried
  <2>4. /\ Said("HttpUpgrade", link).path = d.forms.HTTPUpgrade.path
        /\ Said("HttpUpgrade", link).host = HostOf(d, "HTTPUpgrade")
    BY <2>3, PathSaid
  <2> QED
    BY <1>5, <2>2, <2>4, FormClassesAre
<1>6. CASE d.network = "xhttp"
  <2>1. ~HttpHeader(d) /\ d.protocol # "hysteria"
    BY <1>6 DEF HttpHeader, HasLink, Linkable
  <2> DEFINE mode == IF d.protocol = "vmess" THEN "empty" ELSE d.forms.XHTTP.mode
  <2>2. \/ w = <<"XHTTP", "path", d.forms.XHTTP.path>>
        \/ w = <<"XHTTP", "host", HostOf(d, "XHTTP")>>
        \/ w = <<"XHTTP", "mode", mode>>
    BY <1>6, <2>1 DEF NetworkWanted
  <2>3. /\ link \in Links
        /\ link.path = d.forms.XHTTP.path /\ link.path \in Values
        /\ link.host = HostOf(d, "XHTTP") /\ link.host \in Values
        /\ Carries(link.mode, mode)
    <3>1. /\ link \in Links /\ NetworkCarried(d, link)
          /\ d.protocol # "vmess" => OthersCarried(d, link)
          /\ d.protocol = "vmess" => OthersLost(d, link)
      BY <2>1, AllCarried
    <3>2. Carries("absent", "empty")
      BY DEF Carries, IfAny, Values, Value
    <3> HIDE DEF link
    <3> QED
      BY <1>6, <3>1, <3>2 DEF NetworkCarried, OthersCarried, OthersLost
  <2>4. /\ Said("XHTTP", link).path = d.forms.XHTTP.path
        /\ Said("XHTTP", link).host = HostOf(d, "XHTTP")
        /\ Said("XHTTP", link).mode = mode
    BY <2>3, XHTTPSaid
  <2> QED
    BY <1>6, <2>2, <2>4, FormClassesAre
<1>7. CASE ~HttpHeader(d) /\ d.network = "tcp"
  BY <1>7 DEF NetworkWanted
<1>8. CASE d.network = "hysteria"
  <2>1. ~HttpHeader(d) /\ d.protocol = "hysteria"
    BY <1>8 DEF HttpHeader, HasLink, Linkable
  <2>2. w = <<"Hysteria", "auth", Quoted(HysteriaAuth(d))>>
    BY <1>8, <2>1 DEF NetworkWanted
  <2>3. link.user \in Values /\ link.user = Quoted(HysteriaAuth(d))
    BY <2>1, AllCarried DEF SettingsCarried
  <2>4. Said("Hysteria", link).auth = Quoted(HysteriaAuth(d))
    BY <2>3, HysteriaAuthSaid
  <2> QED
    BY <1>8, <2>2, <2>4, FormClassesAre
<1> QED
  BY <1>1, <1>2, <1>3, <1>4, <1>5, <1>6, <1>7, <1>8 DEF HasLink, Linkable, Networks

LEMMA SecuritySaid ==
  ASSUME NEW d, HasLink(d), NEW w \in SecurityWanted(d)
  PROVE  w[1] \in FormClasses(d) /\ Said(w[1], Carried(d))[w[2]] = w[3]
<1> DEFINE link == Carried(d)
<1>1. d.protocol # "hysteria" /\ d.security \in {"tls", "reality"}
  BY DEF SecurityWanted
<1>2. link \in Links /\ SecurityCarried(d, link)
      /\ (d.protocol # "vmess" => OthersCarried(d, link))
      /\ (d.protocol = "vmess" => OthersLost(d, link))
  BY <1>1, AllCarried
<1> HIDE DEF link
<1>3. CASE d.security = "tls"
  <2> DEFINE ech == IF d.protocol = "vmess" THEN "empty" ELSE d.forms.TlsSettings.echConfigList
  <2>1. \/ w = <<"Tls", "serverName", d.forms.Tls.sni>>
        \/ w = <<"Tls", "alpn", d.forms.Tls.alpn>>
        \/ w = <<"Tls", "fingerprint", d.forms.TlsSettings.fingerprint>>
        \/ w = <<"Tls", "echConfigList", ech>>
    BY <1>1, <1>3 DEF SecurityWanted
  <2>2. /\ Carries(link.fp, d.forms.TlsSettings.fingerprint)
        /\ Carries(link.alpn, d.forms.Tls.alpn) /\ Carries(link.sni, d.forms.Tls.sni)
        /\ Carries(link.ech, ech)
    <3>1. Carries("absent", "empty")
      BY DEF Carries, IfAny, Values, Value
    <3> QED
      BY <1>2, <1>3, <3>1 DEF SecurityCarried, OthersCarried, OthersLost
  <2>3. /\ Said("Tls", link).serverName = d.forms.Tls.sni
        /\ Said("Tls", link).alpn = d.forms.Tls.alpn
        /\ Said("Tls", link).fingerprint = d.forms.TlsSettings.fingerprint
        /\ Said("Tls", link).echConfigList = ech
    <3> HIDE DEF ech
    <3>1. /\ OrEmpty(link.fp) = d.forms.TlsSettings.fingerprint
          /\ OrEmpty(link.alpn) = d.forms.Tls.alpn /\ OrEmpty(link.sni) = d.forms.Tls.sni
          /\ OrEmpty(link.ech) = ech
      BY <2>2, CarriesThrough
    <3> QED
      BY <1>2, <3>1, TlsSaid
  <2> QED
    BY <1>1, <1>3, <2>1, <2>3, FormClassesAre DEF link
<1>4. CASE d.security = "reality"
  <2>1. \/ w = <<"Reality", "publicKey", d.forms.RealitySettings.publicKey>>
        \/ w = <<"Reality", "fingerprint", d.forms.RealitySettings.fingerprint>>
        \/ w = <<"Reality", "serverName", d.forms.Reality.serverNames>>
        \/ w = <<"Reality", "shortId", d.forms.Reality.shortIds>>
        \/ w = <<"Reality", "spiderX", d.forms.RealitySettings.spiderX>>
        \/ w = <<"Reality", "mldsa65Verify", d.forms.RealitySettings.mldsa65Verify>>
    BY <1>1, <1>4 DEF SecurityWanted
  <2>2. /\ Said("Reality", link).publicKey = d.forms.RealitySettings.publicKey
        /\ Said("Reality", link).fingerprint = d.forms.RealitySettings.fingerprint
        /\ Said("Reality", link).serverName = d.forms.Reality.serverNames
        /\ Said("Reality", link).shortId = d.forms.Reality.shortIds
        /\ Said("Reality", link).spiderX = d.forms.RealitySettings.spiderX
        /\ Said("Reality", link).mldsa65Verify = d.forms.RealitySettings.mldsa65Verify
    <3>1. /\ Carries(link.pbk, d.forms.RealitySettings.publicKey)
          /\ Carries(link.fp, d.forms.RealitySettings.fingerprint)
          /\ Carries(link.sni, d.forms.Reality.serverNames)
          /\ Carries(link.sid, d.forms.Reality.shortIds)
          /\ Carries(link.spx, d.forms.RealitySettings.spiderX)
          /\ Carries(link.pqv, d.forms.RealitySettings.mldsa65Verify)
      BY <1>2, <1>4 DEF SecurityCarried
    <3> QED
      BY <1>2, <3>1, CarriesThrough, RealitySaid
  <2> QED
    BY <1>1, <1>4, <2>1, <2>2, FormClassesAre DEF link
<1> QED
  BY <1>1, <1>3, <1>4

LEMMA SettingsSaid ==
  ASSUME NEW d, HasLink(d), NEW w \in SettingsWanted(d)
  PROVE  w[1] \in FormClasses(d) /\ Said(w[1], Carried(d))[w[2]] = w[3]
<1> DEFINE link == Carried(d)
<1>1. d.protocol \in Linked
  BY DEF HasLink, Linkable
<1>2. link \in Links /\ link.user \in Values /\ SettingsCarried(d, link)
  BY AllCarried DEF SettingsCarried
<1> HIDE DEF link
<1>3. CASE d.protocol = "vmess"
  <2>1. \/ w = <<"VmessSettings", "id", d.forms.VMESS.id>>
        \/ w = <<"VmessSettings", "security", d.forms.VMESS.security>>
    BY <1>3 DEF SettingsWanted
  <2>2. /\ Said("VmessSettings", link).id = d.forms.VMESS.id
        /\ Said("VmessSettings", link).security = d.forms.VMESS.security
    BY <1>2, <1>3, UserSaid DEF SettingsCarried
  <2> QED
    BY <1>3, <2>1, <2>2, FormClassesAre DEF link
<1>4. CASE d.protocol = "vless"
  <2>1. \/ w = <<"VLESSSettings", "id", Quoted(d.forms.VLESS.id)>>
        \/ w = <<"VLESSSettings", "flow", d.forms.VLESS.flow>>
        \/ w = <<"VLESSSettings", "encryption", d.forms.VLESSSettings.encryption>>
    BY <1>4 DEF SettingsWanted
  <2>2. /\ Said("VLESSSettings", link).id = Quoted(d.forms.VLESS.id)
        /\ Said("VLESSSettings", link).flow = d.forms.VLESS.flow
        /\ Said("VLESSSettings", link).encryption = d.forms.VLESSSettings.encryption
    BY <1>2, <1>4, VLESSSaid DEF SettingsCarried
  <2> QED
    BY <1>4, <2>1, <2>2, FormClassesAre DEF link
<1>5. CASE d.protocol = "trojan"
  <2>1. w = <<"TrojanSettings", "password", Quoted(d.forms.Trojan.password)>>
    BY <1>5 DEF SettingsWanted
  <2>2. Said("TrojanSettings", link).password = Quoted(d.forms.Trojan.password)
    BY <1>2, <1>5, UserSaid DEF SettingsCarried
  <2> QED
    BY <1>5, <2>1, <2>2, FormClassesAre DEF link
<1>6. CASE d.protocol = "shadowsocks"
  <2>1. \/ w = <<"ShadowsocksSettings", "method", "given">>
        \/ w = <<"ShadowsocksSettings", "password", SSPassword(d)>>
    BY <1>6 DEF SettingsWanted
  <2>2. link.user = SSPassword(d) /\ link.method = "given"
    BY <1>2, <1>6 DEF SettingsCarried
  <2>3. /\ Said("ShadowsocksSettings", link).password = SSPassword(d)
        /\ Said("ShadowsocksSettings", link).method = "given"
    BY <1>2, <2>2, SSSaid
  <2> QED
    BY <1>6, <2>1, <2>3, FormClassesAre DEF link
<1>7. CASE d.protocol = "hysteria"
  <2>1. w = <<"HysteriaSettings", "version", "default">>
    BY <1>7 DEF SettingsWanted
  <2> QED
    BY <1>7, <2>1, HysteriaVersionSaid, FormClassesAre
<1> QED
  BY <1>1, <1>3, <1>4, <1>5, <1>6, <1>7 DEF Linked

LEMMA LinkSays ==
  ASSUME NEW d, HasLink(d)
  PROVE  Says(Imported(d), d)
<1>1. ASSUME NEW w \in NetworkWanted(d) \cup SecurityWanted(d) \cup SettingsWanted(d)
      PROVE  w[1] \in FormClasses(d) /\ Said(w[1], Carried(d))[w[2]] = w[3]
  BY NetworkSaid, SecuritySaid, SettingsSaid
<1>2. /\ Imported(d).protocol = d.protocol /\ Imported(d).network = d.network
      /\ Imported(d).security = IF d.protocol = "hysteria" THEN "none" ELSE d.security
      /\ Imported(d).forms = [c \in FormClasses(d) |-> Said(c, Carried(d))]
  BY ImportedIs
<1> QED
  BY <1>1, <1>2 DEF Says

LEMMA ImportedKept ==
  ASSUME NEW d, HasLink(d)
  PROVE  Edited(Imported(d)) = Imported(d)
<1> DEFINE forms == [c \in FormClasses(d) |-> Said(c, Carried(d))]
<1>1. Carried(d) \in Links /\ Carried(d).user \in Values
  BY AllCarried DEF SettingsCarried
<1>2. ASSUME NEW c \in FormClasses(d)
      PROVE  Reread(c, forms[c]) = forms[c]
  <2>1. c \in LinkClasses
    BY FormClassesAre
  <2>2. c \in DOMAIN Out!Table /\ FormOfLink(c, Carried(d)) \in Forms(Out!Table[c])
    BY <1>1, <2>1, FormOfLinkTyped
  <2> QED
    BY <2>2, RereadTwice DEF Said
<1>3. /\ Imported(d) = [Imported(d) EXCEPT !.forms = forms] /\ Imported(d).forms = forms
  BY ImportedIs
<1>4. [c \in DOMAIN forms |-> Reread(c, forms[c])] = forms
  BY <1>2
<1> HIDE DEF forms
<1>5. Edited(Imported(d)) =
        [Imported(d) EXCEPT !.forms = [c \in DOMAIN forms |-> Reread(c, forms[c])]]
  BY <1>3 DEF Edited
<1> QED
  BY <1>3, <1>4, <1>5

(***************************************************************************)
(* The outbound made of the link of an inbound has its protocol, network,  *)
(* security and values, whatever was entered in the dialog: users are as   *)
(* the link spells them, and lost are the mode of xHTTP and the ECH list   *)
(* of VMess, the TLS of Hysteria, and nothing else that is in NetworkWanted,*)
(* SecurityWanted and SettingsWanted (genLink of inbound.js; fromLink,     *)
(* fromJson and toJson of outbound.js).                                    *)
(***************************************************************************)
THEOREM LinksCarry == InboundSpec => []LinkCarries
<1>1. IInv => LinkCarries
  BY OpenedHasLink, LinkSays DEF LinkCarries
<1> QED
  BY <1>1, Invariance, PTL

(***************************************************************************)
(* The outbound that was made of a link is not changed by being opened and *)
(* saved again, nor is a field that is entered in an outbound (addOutbound *)
(* and editOutbound, the classes of outbound.js).                          *)
(***************************************************************************)
THEOREM OutboundsAreKept == InboundSpec => []OutboundKept
<1>1. IInv => OutboundKept
  BY EnteredKept, OpenedHasLink, ImportedKept DEF OutboundKept
<1> QED
  BY <1>1, Invariance, PTL
=============================================================================
