----------------------------- MODULE MCTransports -----------------------------
(* The asyncio transport on a WebSocket, the threaded one to an MQTT broker,   *)
(* and the carrier that polls over HTTPS: a behaviour is one of the three.     *)
EXTENDS HiveTransport, MqttTransport, HttpsCarrier, TLC
Interchangeable == Permutations(Connectors) \cup Permutations(Disconnectors)
                   \cup Permutations(Dialers) \cup Permutations(Replicas)

VARIABLE part
AllInit == part \in {"wss", "mqtt", "https"} /\ Init /\ MqttInit /\ CarrierInit
AllNext == \/ part = "wss" /\ Next /\ UNCHANGED <<part, mVars, httpsVars>>
           \/ part = "mqtt" /\ MqttNext /\ UNCHANGED <<part, vars, httpsVars>>
           \/ part = "https" /\ CarrierNext /\ UNCHANGED <<part, vars, mVars>>
AllSpec == AllInit /\ [][AllNext]_<<part, vars, mVars, httpsVars>>

(* What is open is accounted for: the link that is up is the current one's, and*)
(* no carrier, socket or admission is left behind the transport's back         *)
(* (_hive.py 540-870; transport.py 716-726; HttpsCarrier: _hive.py 1258-1369).*)
OpenIsAccounted ==
  /\ LiveIsCurrent /\ NothingForgotten
  /\ ConnectedIsCurrent /\ NoStraySocket
  /\ HeldIsKnown

(* The frames a hub sent are read in order with none skipped, or the session   *)
(* ends and its reader is told (transport.py 919-975, _hive.py 1277-1343).     *)
FramesInOrder == NoFrameSkipped /\ NoFrameLost /\ EndIsHeard

(* A link goes down for a reason of its own, and whoever waits is told: what   *)
(* was overtaken does not take down the link in its place (_hive.py 590-602,   *)
(* 757-776, 843-861, 914-919; transport.py 430-488, 716-775, 919-975).         *)
LinksEndForAReason == EndsForAReason /\ MqttEndsForAReason
=============================================================================
