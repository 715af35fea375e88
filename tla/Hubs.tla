------------------------------------ MODULE Hubs --------------------------------
(* Which of a hub's protocols a node dials, and where: src/thalovant/          *)
(* protocols.py, identity.py, the choice of client.py 122-178 and the          *)
(* bootstrap of control.py 2194-2215, 3823-3842.  An endpoint is a URL of a    *)
(* scheme; what it points at is kept only as the key it was read from.         *)
EXTENDS Naturals, Sequences, SequencesExt

URL(scheme, of) == [scheme |-> scheme, of |-> of]
NOURL == URL("none", "none")
Known(endpoint) == endpoint # NOURL
Protocols == <<"wss", "https", "mqtt">>

(* _first_value(): the first key that is there, whatever it holds.             *)
FirstOf(values, keys, absent) ==
  LET there == SelectSeq(keys, LAMBDA k: k \in DOMAIN values) IN IF there = <<>> THEN absent ELSE values[there[1]]

-----------------------------------------------------------------------------
(* HubProtocolSettings.  A flag is "on", "off", or neither; "protocols" is     *)
(* read when it has any, "network" otherwise.                                  *)
Enabled(flag, fallback) == IF flag = "on" THEN TRUE ELSE IF flag = "off" THEN FALSE ELSE fallback

Settings(values) ==
  LET flags == IF DOMAIN values.protocols # {} THEN values.protocols ELSE values.network
  IN [wss |-> Enabled(FirstOf(flags, <<"wss", "websocket">>, "other"), TRUE),
      http |-> Enabled(FirstOf(flags, <<"http", "https">>, "other"), FALSE),
      mqtt |-> Enabled(FirstOf(flags, <<"mqtt">>, "other"), FALSE)]

IsEnabled(settings, protocol) ==
  CASE protocol = "wss" -> settings.wss [] protocol = "https" -> settings.http [] OTHER -> settings.mqtt

(* _normalize_endpoint(): a URL of a scheme the SDK knows, or a bare host.     *)
Normalized(value) ==
  IF value.scheme \in {"http", "https", "ws", "wss", "mqtt", "mqtts", "bare"} THEN value ELSE NOURL

(* HubDataPlaneEndpoints.from_mapping(): the first table that is not empty, or *)
(* else what stands beside them, an MQTT block by its endpoint.                *)
Endpoints(values) ==
  LET source == IF DOMAIN values.endpoints # {} THEN values.endpoints ELSE values.beside
      read(keys) == Normalized(FirstOf(source, keys, NOURL))
  IN [https |-> read(<<"https", "http">>), wss |-> read(<<"wss", "ws">>), mqtt |-> read(<<"mqtt", "mqtts">>)]

EndpointOf(endpoints, protocol) == endpoints[protocol]

(* endpoint_from_domain(): the domain, with the scheme of the protocol.        *)
FromDomain(domain, protocol) ==
  IF protocol = "wss" THEN URL(IF domain.scheme \in {"ws", "wss"} THEN domain.scheme ELSE "wss", domain.of)
  ELSE IF protocol = "https" THEN URL("https", domain.of) ELSE NOURL

(* from_hub(): what the API says, or the hub's domain for what is enabled.     *)
EndpointsOfHub(hub) ==
  LET said == Endpoints(hub)
      derived(protocol) ==
        IF Known(said[protocol]) THEN said[protocol]
        ELSE IF IsEnabled(Settings(hub), protocol) THEN FromDomain(hub.domain, protocol) ELSE NOURL
  IN IF ~Known(hub.domain) THEN said
     ELSE [https |-> derived("https"), wss |-> derived("wss"), mqtt |-> said.mqtt]

\* mutant: the first endpoint there is, enabled or not.
SelectAny(endpoints, settings, preferred) ==
  LET usable == SelectSeq(preferred, LAMBDA p: Known(EndpointOf(endpoints, p)))
  IN IF usable = <<>> THEN "none" ELSE usable[1]

(* select_data_plane_endpoint()                                                *)
Select(endpoints, settings, preferred) ==
  LET usable == SelectSeq(preferred, LAMBDA p: IsEnabled(settings, p) /\ Known(EndpointOf(endpoints, p)))
  IN IF usable = <<>> THEN "none" ELSE usable[1]

-----------------------------------------------------------------------------
(* ThalovantIdentity: where its hub is, and MQTT credentials or none.          *)
Identity(master, endpoints, settings, mqtt) ==
  [master |-> master, endpoints |-> endpoints, protocols |-> settings, mqtt |-> mqtt]

(* MqttBrokerCredentials.from_mapping(): all three, or none.                   *)
Credentials(block) ==
  IF {"endpoint", "username", "password"} \subseteq DOMAIN block THEN block ELSE <<>>

IdentityOf(values) == Identity(values.master, Endpoints(values), Settings(values), Credentials(values.mqtt))

(* endpoint_base(): HTTPS always has one, from default_master if need be.      *)
EndpointBase(identity) ==
  IF Known(identity.endpoints.https) THEN identity.endpoints.https
  ELSE URL(CASE identity.master.scheme = "wss" -> "https" [] identity.master.scheme = "ws" -> "http"
             [] OTHER -> identity.master.scheme, identity.master.of)

EndpointFor(identity, protocol) ==
  IF protocol = "https" THEN EndpointBase(identity)
  ELSE IF Known(identity.endpoints[protocol]) THEN identity.endpoints[protocol]
  ELSE IF protocol = "wss" /\ identity.master.scheme \in {"wss", "ws"} THEN identity.master ELSE NOURL

(* as_dict(include_secrets=True): what an identity file holds.                 *)
Shown(endpoints) == [p \in {q \in DOMAIN endpoints: Known(endpoints[q])} |-> endpoints[p]]
Beside(mqtt) == IF "endpoint" \in DOMAIN mqtt THEN [p \in {"mqtt"} |-> mqtt.endpoint] ELSE <<>>

IdentityDict(identity) ==
  [master |-> identity.master, mqtt |-> identity.mqtt, endpoints |-> Shown(identity.endpoints),
   beside |-> Beside(identity.mqtt), protocols |-> <<>>, network |-> <<>>]

(* _default_runtime_protocol(): what a client dials unless told.               *)
DefaultProtocol(identity) ==
  IF identity.protocols.wss /\ Known(EndpointFor(identity, "wss")) THEN "wss"
  ELSE IF identity.protocols.http \/ Known(EndpointFor(identity, "https")) THEN "https"
  ELSE IF identity.protocols.mqtt /\ identity.mqtt # <<>> THEN "mqtt" ELSE "none"

(* create_client_identity(): a hub's resource, and the identify block of what  *)
(* the API created, or NOIDENTIFY.  The block says which master and broker, the*)
(* resource which endpoints and protocols; without any master it raises.       *)
DefaultMaster(hub, endpoints, selected) ==
  IF Known(endpoints.https) THEN endpoints.https
  ELSE IF Known(hub.domain) THEN FromDomain(hub.domain, "https")
  ELSE IF selected # "none" THEN endpoints[selected] ELSE NOURL

NOIDENTIFY == [master |-> NOURL, mqtt |-> <<>>, given |-> FALSE]
Identify(master, mqtt) == [master |-> master, mqtt |-> mqtt, given |-> TRUE]
\* mutant: the identity is not told which protocols the hub has.
FlagsForgotten(settings) == <<>>

Flagged(settings) == [p \in DOMAIN settings |-> IF settings[p] THEN "on" ELSE "off"]

Bootstrapped(hub, identify, preferred) ==
  LET settings == Settings(hub)
      endpoints == EndpointsOfHub(hub)
      selected == Select(endpoints, settings, preferred)
  IN [selected |-> selected,
      identity |->
        IF identify.given
        THEN IdentityOf([master |-> identify.master, mqtt |-> identify.mqtt, endpoints |-> Shown(endpoints),
                         beside |-> Beside(identify.mqtt), protocols |-> Flagged(settings), network |-> <<>>])
        ELSE Identity(DefaultMaster(hub, endpoints, selected), endpoints, settings, <<>>)]

-----------------------------------------------------------------------------
(* What a bootstrap reports as the hub's endpoint is enabled there and what    *)
(* the node will dial with the identity it was given, whichever of the tables, *)
(* the domain or the default it came from, unless that is MQTT, which no       *)
(* identity dials by default.  One case differs: the resource has WSS on and no*)
(* WSS endpoint, and the identify block names a WSS master; that master is what*)
(* the node dials (protocols.py 205-220, client.py 122-137, identity.py 282).  *)
MasterIsWSS(hub, identify) ==
  /\ identify.master.scheme \in {"wss", "ws"}
  /\ IsEnabled(Settings(hub), "wss") /\ ~Known(EndpointsOfHub(hub).wss)

Dials(made, protocol, endpoint) ==
  DefaultProtocol(made.identity) = protocol /\ EndpointFor(made.identity, protocol) = endpoint

Usable(made) == made.selected \in {"wss", "https"} /\ Known(made.identity.master)

BootstrapIsDialled(hub, identify) ==
  LET made == Bootstrapped(hub, identify, Protocols)
  IN Usable(made) =>
       /\ IsEnabled(Settings(hub), made.selected)
       /\ IF MasterIsWSS(hub, identify) THEN Dials(made, "wss", identify.master)
          ELSE Dials(made, made.selected, EndpointsOfHub(hub)[made.selected])

(* The same without that case.                                                 *)
SelectedIsDialled(hub, identify) ==
  LET made == Bootstrapped(hub, identify, Protocols)
  IN Usable(made) => Dials(made, made.selected, EndpointsOfHub(hub)[made.selected])

(* An identity saved with its secrets and read back dials the hub in the same  *)
(* way at the same place, as long as its hub has WSS (identity.py 110, 299-330,*)
(* docs/quickstart.md 67-83).                                                  *)
SavedIsDialledTheSame(identity) ==
  LET read == IdentityOf(IdentityDict(identity))
  IN identity.protocols.wss =>
       /\ DefaultProtocol(read) = DefaultProtocol(identity)
       /\ \A p \in {"wss", "https"}: EndpointFor(read, p) = EndpointFor(identity, p)
       /\ read.mqtt = identity.mqtt

(* The same of the protocols it says are enabled.                              *)
SavedKeepsProtocols(identity) == IdentityOf(IdentityDict(identity)).protocols = identity.protocols
=============================================================================
