----------------------------- MODULE MqttTransport -----------------------------
(* HiveMindMQTTTransport (src/thalovant/transport.py 289-488, 550-1049):       *)
(* threads that connect(), a thread that disconnects, and for each paho client *)
(* the broker's callbacks (its network thread) and a worker that reads what    *)
(* came in.  An action is a stretch under _lifecycle_lock, or one blocking     *)
(* call.  No cleanup fails: _close_detached() suppresses what paho raises.     *)
EXTENDS Naturals, Sequences, FiniteSets

CONSTANTS Dialers,      \* threads that call connect(), once each
          MaxClients,   \* paho clients built in all
          QueueSize,    \* of the receive queue (256)
          MaxFrames     \* frames a hub sends on a link; the first ends the handshake

Clients == 1..MaxClients
NoOne == 0
Stop == 0               \* None in the receive queue

ASSUME MqttShape == MaxClients \in Nat \ {0} /\ QueueSize \in Nat \ {0} /\ MaxFrames \in Nat

VARIABLES
  client,       \* _client
  generation, mqttConnecting, mqttClosing,
  flags,        \* which of _connected, _subscribed, _handshake are set
  lastError,    \* "none", "refused", "other"
  socket,       \* each client: "none", "open", "shut"
  gone,         \* thalovant_disconnected
  cleaned,      \* thalovant_cleanup_started
  looping,      \* the network thread runs
  worker,       \* "none", "runs", "ended"
  inbox,        \* the receive queue of each client: frame numbers, or Stop
  sent, given,  \* frames the hub has sent; frames the worker has handled, of each client
  place, has, gen, try,  \* each dialer: where it is, its client, its generation, "kk", "refused" or "xx"
  closer, closes,     \* disconnect(): "idle", "closes", "over", and the client it closes
  reserved, built   \* connections begun, clients built

mVars == <<client, generation, mqttConnecting, mqttClosing, flags, lastError, socket, gone, cleaned,
           looping, worker, inbox, sent, given, place, has, gen, try, closer, closes, reserved, built>>
state == <<client, generation, mqttConnecting, mqttClosing, flags, lastError>>
clientVars == <<socket, gone, cleaned, looping, worker, inbox, sent, given>>
counts == <<reserved, built>>
dialers == <<place, has, gen, try, counts>>
closers == <<closer, closes>>

Places == {"idle", "cleans", "builds", "installed", "dials", "dialled", "connects", "subscribes",
           "shakes", "finishes", "aborts", "closesOwn", "over"}

MqttTypeOK ==
  /\ client \in Clients \cup {NoOne} /\ generation \in Nat
  /\ mqttConnecting \in BOOLEAN /\ mqttClosing \in BOOLEAN
  /\ flags \subseteq {"connected", "subscribed", "handshake"}
  /\ lastError \in {"none", "refused", "other"}
  /\ socket \in [Clients -> {"none", "open", "shut"}]
  /\ gone \in [Clients -> BOOLEAN] /\ looping \in [Clients -> BOOLEAN]
  /\ cleaned \in [Clients -> BOOLEAN]
  /\ worker \in [Clients -> {"none", "runs", "ended"}]
  /\ \A c \in Clients: Len(inbox[c]) <= QueueSize /\ given[c] <= sent[c] /\ sent[c] <= MaxFrames
  /\ place \in [Dialers -> Places] /\ has \in [Dialers -> Clients \cup {NoOne}]
  /\ gen \in [Dialers -> Nat] /\ try \in [Dialers -> {"kk", "refused", "xx"}]
  /\ closer \in {"idle", "closes", "over"} /\ closes \in Clients \cup {NoOne}
  /\ reserved \in 0..MaxClients /\ built \in 0..reserved

MqttInit ==
  /\ client = NoOne /\ generation = 0 /\ mqttConnecting = FALSE /\ mqttClosing = FALSE
  /\ flags = {} /\ lastError = "none"
  /\ socket = [c \in Clients |-> "none"] /\ gone = [c \in Clients |-> FALSE]
  /\ cleaned = [c \in Clients |-> FALSE] /\ looping = [c \in Clients |-> FALSE]
  /\ worker = [c \in Clients |-> "none"] /\ inbox = [c \in Clients |-> <<>>]
  /\ sent = [c \in Clients |-> 0] /\ given = [c \in Clients |-> 0]
  /\ place = [d \in Dialers |-> "idle"] /\ has = [d \in Dialers |-> NoOne]
  /\ gen = [d \in Dialers |-> 0] /\ try = [d \in Dialers |-> "kk"]
  /\ closer = "idle" /\ closes = NoOne /\ reserved = 0 /\ built = 0

Go(d, next) == place' = [place EXCEPT ![d] = next]
MqttConnected == client # NoOne /\ socket[client] = "open" /\ {"connected", "handshake"} \subseteq flags

(* put_nowait(): a full queue takes nothing.                                   *)
Put(c, frame) == IF Len(inbox[c]) < QueueSize THEN [inbox EXCEPT ![c] = Append(@, frame)] ELSE inbox

-----------------------------------------------------------------------------
(* _close_detached(): the status is published, the socket shut and the network *)
(* thread stopped; the worker's join() and the channel's close() change nothing *)
(* here.                                                                       *)
Shuts(c) ==
  /\ gone' = [gone EXCEPT ![c] = TRUE] /\ inbox' = Put(c, Stop)
  /\ looping' = [looping EXCEPT ![c] = FALSE]
  /\ socket' = [socket EXCEPT ![c] = IF @ = "open" THEN "shut" ELSE @]
  /\ UNCHANGED <<worker, sent, given>>

(* _close_client_once(): the first to come closes, any other returns at once.  *)
Cleans(c) ==
  IF c = NoOne \/ cleaned[c] THEN UNCHANGED clientVars
  ELSE cleaned' = [cleaned EXCEPT ![c] = TRUE] /\ Shuts(c)

(* _reserve_connection().                                                      *)
Reserve(d) ==
  /\ place[d] = "idle"
  /\ IF MqttConnected \/ mqttConnecting \/ mqttClosing
     THEN Go(d, "over") /\ UNCHANGED <<state, has, gen, reserved>>
     ELSE /\ reserved < MaxClients /\ reserved' = reserved + 1 /\ has' = [has EXCEPT ![d] = client]
          /\ mqttConnecting' = TRUE /\ generation' = generation + 1 /\ gen' = [gen EXCEPT ![d] = generation + 1]
          /\ client' = NoOne /\ mqttClosing' = (client # NoOne)
          /\ flags' = {} /\ lastError' = "none"
          /\ Go(d, IF client # NoOne THEN "cleans" ELSE "builds")
  /\ UNCHANGED <<clientVars, try, built, closers>>

(* _cleanup_reserved().                                                        *)
Cleaned(d) ==
  /\ place[d] = "cleans" /\ Cleans(has[d]) /\ mqttClosing' = FALSE /\ Go(d, "builds")
  /\ UNCHANGED <<client, generation, mqttConnecting, flags, lastError, has, gen, try, counts, closers>>

\* mutant: an attempt that was cancelled goes on.
Anyway(d) == TRUE

Mine(d) == gen[d] = generation /\ mqttConnecting

(* A new client, its channel, queue and worker; _install_client().             *)
Install(d) ==
  /\ place[d] = "builds" /\ built' = built + 1 /\ has' = [has EXCEPT ![d] = built']
  /\ IF Mine(d) THEN client' = built' /\ Go(d, "installed") ELSE Go(d, "aborts") /\ UNCHANGED client
  /\ UNCHANGED <<generation, mqttConnecting, mqttClosing, flags, lastError, clientVars, gen, try, reserved, closers>>

(* The worker starts, unless another thread has taken the client meanwhile.    *)
StartWorker(d) ==
  /\ place[d] = "installed"
  /\ IF client # has[d] THEN Go(d, "aborts") /\ UNCHANGED worker
     ELSE Go(d, "dials") /\ worker' = [worker EXCEPT ![has[d]] = "runs"]
  /\ UNCHANGED <<state, socket, gone, cleaned, looping, inbox, sent, given, has, gen, try, counts, closers>>

Dial(d) ==
  /\ place[d] = "dials"
  /\ \/ socket' = [socket EXCEPT ![has[d]] = "open"] /\ Go(d, "dialled")
     \/ Go(d, "aborts") /\ UNCHANGED socket
  /\ UNCHANGED <<state, gone, cleaned, looping, worker, inbox, sent, given, has, gen, try, counts, closers>>

\* mutant: a dial that ends after a disconnect leaves its socket to the cleanup.
LeavesSocket(d) == UNCHANGED socket

ShutsLate(d) == socket' = [socket EXCEPT ![has[d]] = "shut"]

(* The dial is over: the network thread starts, or the late socket is shut.    *)
Dialled(d) ==
  /\ place[d] = "dialled"
  /\ IF client = has[d] /\ ~gone[has[d]]
     THEN looping' = [looping EXCEPT ![has[d]] = TRUE] /\ Go(d, "connects") /\ UNCHANGED socket
     ELSE Go(d, "aborts") /\ ShutsLate(d) /\ UNCHANGED looping
  /\ UNCHANGED <<state, gone, cleaned, worker, inbox, sent, given, has, gen, try, counts, closers>>

Awaited(d) == CASE place[d] = "connects" -> "connected" [] place[d] = "subscribes" -> "subscribed"
                [] OTHER -> "handshake"
Cancelled(d) == client # has[d] \/ gone[has[d]]

(* _wait_mqtt_event(): an error first, then the cancellation, then the event.  *)
Waited(d) ==
  /\ place[d] \in {"connects", "subscribes", "shakes"}
  /\ IF (client = has[d] /\ lastError # "none") \/ Cancelled(d)
     THEN /\ Go(d, "aborts") /\ UNCHANGED flags
          /\ try' = [try EXCEPT ![d] = IF client = has[d] /\ lastError = "refused" /\ @ = "kk"
                                       THEN "refused" ELSE @]
     ELSE /\ Awaited(d) \in flags
          /\ Go(d, CASE place[d] = "connects" -> "subscribes" [] place[d] = "subscribes" -> "shakes"
                     [] OTHER -> "finishes")
          /\ flags' = IF place[d] = "connects" THEN flags \ {"subscribed"} ELSE flags
          /\ UNCHANGED try
  /\ UNCHANGED <<client, generation, mqttConnecting, mqttClosing, lastError, clientVars, has, gen, counts, closers>>

TimedOut(d) ==
  /\ place[d] \in {"connects", "subscribes", "shakes"} /\ Awaited(d) \notin flags /\ Go(d, "aborts")
  /\ UNCHANGED <<state, clientVars, has, gen, try, counts, closers>>

(* _finish_connection().                                                       *)
Finish(d) ==
  /\ place[d] = "finishes"
  /\ IF client = has[d] /\ Mine(d)
     THEN mqttConnecting' = FALSE /\ Go(d, "over")
     ELSE Go(d, "aborts") /\ UNCHANGED mqttConnecting
  /\ UNCHANGED <<client, generation, mqttClosing, flags, lastError, clientVars, has, gen, try, counts, closers>>

(* _abort_connection(): of its own generation it ends the attempt; of an older *)
(* one it only cleans up its own client.                                       *)
MqttAborts(d) ==
  /\ place[d] = "aborts"
  /\ IF gen[d] = generation
     THEN /\ client' = NoOne /\ mqttConnecting' = FALSE /\ mqttClosing' = TRUE
          /\ lastError' = (IF lastError = "none" THEN "other" ELSE lastError)
          /\ Go(d, "closesOwn") /\ UNCHANGED clientVars
     ELSE Cleans(has[d]) /\ Go(d, "over") /\ UNCHANGED <<client, mqttConnecting, mqttClosing, lastError>>
  /\ UNCHANGED <<generation, flags, has, gen, try, counts, closers>>

MqttAborted(d) ==
  /\ place[d] = "closesOwn" /\ Cleans(has[d]) /\ mqttClosing' = FALSE /\ Go(d, "over")
  /\ UNCHANGED <<client, generation, mqttConnecting, flags, lastError, has, gen, try, counts, closers>>

(* connect() after a KK refusal tries once more, with XX.                      *)
Retry(d) ==
  /\ place[d] = "over" /\ try[d] = "refused" /\ Go(d, "idle") /\ try' = [try EXCEPT ![d] = "xx"]
  /\ UNCHANGED <<state, clientVars, has, gen, counts, closers>>

-----------------------------------------------------------------------------
(* _disconnect(), as disconnect() and as _retire_connection() call it.         *)
MqttDisconnect ==
  /\ closer = "idle" /\ generation' = generation + 1 /\ mqttConnecting' = FALSE
  /\ IF mqttClosing THEN closer' = "over" /\ UNCHANGED <<client, mqttClosing, closes>>
     ELSE /\ client' = NoOne /\ mqttClosing' = (client # NoOne) /\ closes' = client /\ closer' = "closes"
  /\ UNCHANGED <<flags, lastError, clientVars, dialers>>

MqttDisconnected ==
  /\ closer = "closes" /\ Cleans(closes) /\ closer' = "over" /\ closes' = NoOne
  /\ mqttClosing' = FALSE
  /\ flags' = IF client = NoOne THEN {} ELSE flags
  /\ UNCHANGED <<client, generation, mqttConnecting, lastError, dialers>>

-----------------------------------------------------------------------------
(* The callbacks of paho; those of a client that is not the current one return.*)
OnConnect(c) ==
  /\ looping[c] /\ socket[c] = "open" /\ c = client /\ "connected" \notin flags
  /\ \/ flags' = flags \cup {"connected"} /\ UNCHANGED lastError
     \/ lastError' = "other" /\ UNCHANGED flags
  /\ UNCHANGED <<client, generation, mqttConnecting, mqttClosing, clientVars, dialers, closers>>

OnSubscribe(c) ==
  /\ looping[c] /\ socket[c] = "open" /\ c = client /\ \E d \in Dialers: has[d] = c /\ place[d] = "subscribes"
  /\ \/ flags' = flags \cup {"subscribed"} /\ UNCHANGED lastError
     \/ lastError' = "other" /\ UNCHANGED flags
  /\ UNCHANGED <<client, generation, mqttConnecting, mqttClosing, clientVars, dialers, closers>>

(* The broker ends the connection.                                             *)
OnDisconnect(c) ==
  /\ looping[c] /\ socket[c] = "open" /\ socket' = [socket EXCEPT ![c] = "shut"]
  /\ IF c = client
     THEN /\ gone' = [gone EXCEPT ![c] = TRUE] /\ flags' = {} /\ inbox' = Put(c, Stop)
          /\ lastError' \in {lastError, "other"}
     ELSE UNCHANGED <<gone, flags, inbox, lastError>>
  /\ UNCHANGED <<client, generation, mqttConnecting, mqttClosing, cleaned, looping, worker, sent, given, dialers, closers>>

\* mutant: a frame that finds the queue full is dropped.
Drops(c) == UNCHANGED <<gone, flags, socket, lastError>>

Overflows(c) ==
  /\ gone' = [gone EXCEPT ![c] = TRUE] /\ flags' = flags \ {"connected", "handshake"}
  /\ socket' = [socket EXCEPT ![c] = "shut"] /\ lastError' = "other"

OnMessage(c) ==
  /\ looping[c] /\ socket[c] = "open" /\ c = client /\ "subscribed" \in flags /\ sent[c] < MaxFrames
  /\ sent' = [sent EXCEPT ![c] = @ + 1]
  /\ IF Len(inbox[c]) < QueueSize
     THEN inbox' = Put(c, sent[c] + 1) /\ UNCHANGED <<gone, flags, socket, lastError>>
     ELSE Overflows(c) /\ UNCHANGED inbox
  /\ UNCHANGED <<client, generation, mqttConnecting, mqttClosing, cleaned, looping, worker, given, dialers, closers>>

\* mutant: a worker asks only whether its own client was told to go.
StillTold(c) == ~gone[c]

Reads(c) == c = client /\ ~gone[c]

(* The worker ends: between frames, or at Stop.                                *)
WorkerEnds(c) ==
  /\ worker[c] = "runs" /\ worker' = [worker EXCEPT ![c] = "ended"]
  /\ ~Reads(c) \/ (inbox[c] # <<>> /\ Head(inbox[c]) = Stop)
  /\ UNCHANGED <<state, socket, gone, cleaned, looping, inbox, sent, given, dialers, closers>>

(* A frame: the handshake's last, or one more for the handlers.                *)
Handle(c) ==
  /\ worker[c] = "runs" /\ Reads(c) /\ inbox[c] # <<>> /\ Head(inbox[c]) # Stop
  /\ inbox' = [inbox EXCEPT ![c] = Tail(@)] /\ given' = [given EXCEPT ![c] = Head(inbox[c])]
  /\ flags' = flags \cup {"handshake"}
  /\ UNCHANGED <<client, generation, mqttConnecting, mqttClosing, lastError, socket, gone, cleaned,
                 looping, worker, sent, dialers, closers>>

(* A frame that cannot be read, or a refusal, ends the session.                *)
HandleFails(c) ==
  /\ worker[c] = "runs" /\ Reads(c) /\ inbox[c] # <<>> /\ Head(inbox[c]) # Stop
  /\ inbox' = [inbox EXCEPT ![c] = Tail(@)] /\ worker' = [worker EXCEPT ![c] = "ended"]
  /\ gone' = [gone EXCEPT ![c] = TRUE] /\ socket' = [socket EXCEPT ![c] = "shut"]
  /\ flags' = flags \ {"connected", "handshake"}
  /\ IF "handshake" \in flags THEN lastError' = "other" ELSE lastError' \in {"refused", "other"}
  /\ UNCHANGED <<client, generation, mqttConnecting, mqttClosing, cleaned, looping, sent, given, dialers, closers>>

(* A send times out: nothing more is sent, and the client is left to connect().*)
MqttSendFails ==
  /\ MqttConnected /\ lastError' = "other" /\ flags' = flags \ {"connected", "handshake"}
  /\ UNCHANGED <<client, generation, mqttConnecting, mqttClosing, clientVars, dialers, closers>>

DialerStep(d) ==
  \/ Cleaned(d) \/ Install(d) \/ StartWorker(d) \/ Dial(d) \/ Dialled(d) \/ Waited(d) \/ TimedOut(d)
  \/ Finish(d) \/ MqttAborts(d) \/ MqttAborted(d) \/ Retry(d)

MqttNext ==
  \/ \E d \in Dialers: Reserve(d) \/ DialerStep(d)
  \/ \E c \in Clients: \/ OnConnect(c) \/ OnSubscribe(c) \/ OnDisconnect(c) \/ OnMessage(c)
                       \/ WorkerEnds(c) \/ Handle(c) \/ HandleFails(c)
  \/ MqttDisconnect \/ MqttDisconnected \/ MqttSendFails

MqttSpec == MqttInit /\ [][MqttNext]_mVars

-----------------------------------------------------------------------------
Attempting(c) == \E d \in Dialers: has[d] = c /\ place[d] \notin {"idle", "over"}

(* No socket is left open behind the transport's back: an open one is the      *)
(* current client's, or its own dial is still in hand and will shut it,        *)
(* whenever a disconnect came (716-726, 430-456).                              *)
NoStraySocket == \A c \in Clients: socket[c] = "open" => c \in {client, closes} \/ Attempting(c)

(* On a session that has not been ended, each frame the hub sent has reached   *)
(* the handlers or waits its turn: a queue that overflows, a frame that cannot *)
(* be read or a broker that leaves ends the session (919-953, 955-975).        *)
NoFrameSkipped ==
  \A c \in Clients: c = client /\ ~gone[c] => sent[c] = given[c] + Len(inbox[c])

(* The transport is connected only by the handshake of its current client, and *)
(* what an older one still reads changes nothing (978-987).                    *)
ConnectedIsCurrent == MqttConnected => given[client] > 0

(* The link goes down because its session ended, a send failed, a disconnect    *)
(* took it, or the dial that made it gave up: no older dial, callback or        *)
(* cleanup takes it down (430-488, 716-775, 919-1002).                          *)
MqttEndsForAReason ==
  [][MqttConnected /\ ~MqttConnected' =>
       \/ client' = client /\ gone'[client] /\ ~cleaned'[client]
       \/ client' = client /\ lastError' = "other"
       \/ client' = NoOne /\ generation' # generation
       \/ client' = NoOne /\ \E d \in Dialers: has[d] = client /\ gen[d] = generation /\ place[d] = "aborts"]_mVars

=============================================================================
