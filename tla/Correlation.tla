------------------------------- MODULE Correlation ------------------------------
(* Which ask an event belongs to: the ids a request is sent under and the ones *)
(* an event is read with.  src/thalovant/events.py 198-452, context.py 8-160   *)
(* and the routing of a reply, client.py 253-280.                              *)
EXTENDS Naturals, Sequences

CONSTANTS Carried   \* CONVERSATION_SESSION_FIELDS
ASSUME CarriedNames == Carried \subseteq STRING

(* A context: its strings, its session, and who it is from and for.  A key is  *)
(* absent from a map that does not hold it; "" is a falsy value.               *)
Context(top, session) == [top |-> top, session |-> session, source |-> <<>>, destination |-> <<>>]
EMPTY == Context(<<>>, <<>>)
Rewritten(context, top, session) ==
  [top |-> top, session |-> session, source |-> context.source, destination |-> context.destination]
In(map, key) == IF key \in DOMAIN map THEN map[key] ELSE ""
Or(a, b) == IF a # "" THEN a ELSE b
Over(map, under) ==
  [k \in DOMAIN map \cup DOMAIN under |-> IF k \in DOMAIN map THEN map[k] ELSE under[k]]
Single(key, value) == [k \in {key} |-> value]
WithKey(map, key, value) == IF value = "" THEN map ELSE Over(Single(key, value), map)
WithDefault(map, key, value) == IF value = "" THEN map ELSE Over(map, Single(key, value))

(* The ids of a mapping, a context and an event: what is said first counts.    *)
RequestIdIn(map) == Or(In(map, "request_id"), Or(In(map, "thalovant_request_id"), In(map, "correlation_id")))
RequestIdFrom(context) == Or(RequestIdIn(context.top), RequestIdIn(context.session))
SessionIdFrom(context) == Or(In(context.session, "session_id"), In(context.top, "session_id"))
EventRequestId(event) == Or(RequestIdFrom(event.context), RequestIdIn(event.data))

(* _context_with_correlation(): the ids given outrank the context's; a place   *)
(* and a language only fill in.                                                *)
WithCorrelation(context, given) ==
  LET session == WithDefault(WithDefault(WithKey(context.session, "session_id", given.session_id),
                                         "site_id", given.site_id), "lang", given.lang)
      top == WithKey(context.top, "request_id", given.request_id)
  IN Rewritten(context, WithKey(top, "thalovant_request_id", given.request_id),
                      WithKey(session, "request_id", given.request_id))

(* _merge_context(): a session is merged key by key.                           *)
MergeContext(base, extra) == Rewritten(base, Over(extra.top, base.top), Over(extra.session, base.session))

(* carry_conversation(): only the fields of the conversation, where this turn  *)
(* says nothing of its own.                                                    *)
Carry(previous, session) ==
  LET kept == {f \in Carried \cap DOMAIN previous: previous[f] # ""}
  IN Over(session, [f \in kept |-> previous[f]])

(* build_client_context(), for the session; request_context().                 *)
ClientContext(context, sessionId) ==
  Rewritten(context, WithDefault(context.top, "session_id", sessionId), WithDefault(context.session, "session_id", sessionId))
RequestContext(context, sttLang, pipeline) ==
  Rewritten(context, WithKey(context.top, "stt_lang", sttLang), WithKey(context.session, "pipeline", pipeline))

\* mutant: the sessions decide whenever both sides name one.
SessionDecides(event, expected) ==
  LET asked == SessionIdFrom(expected)
      heard == SessionIdFrom(event.context)
  IN IF asked # "" /\ heard # "" THEN asked = heard
     ELSE RequestIdFrom(expected) = "" \/ EventRequestId(event) \in {"", RequestIdFrom(expected)}

(* _event_matches_context(): the request id decides when both sides carry one, *)
(* else the session when both do, and nothing else speaks against it.          *)
MatchesContext(event, expected) ==
  LET asked == RequestIdFrom(expected)
      heard == EventRequestId(event)
  IN IF asked # "" /\ heard # "" THEN heard = asked
     ELSE \/ "" \in {SessionIdFrom(expected), SessionIdFrom(event.context)}
          \/ SessionIdFrom(event.context) = SessionIdFrom(expected)

(* reply_context(): back to the sender, from the first it was for.             *)
Routed(context, source, destination) ==
  [top |-> context.top, session |-> context.session, source |-> source, destination |-> destination]
ReplyContext(context) ==
  Routed(context, IF context.destination # <<>> THEN <<context.destination[1]>> ELSE context.source, context.source)

-----------------------------------------------------------------------------
(* What a hub does to a request: it files it under a session of its own, and   *)
(* its events carry the whole context, some of the ids, or none.               *)
TheIds(map, keys) == [k \in DOMAIN map \cap keys |-> map[k]]
Echoes(sent, hubSession) ==
  LET own == Context(sent.top, Over(Single("session_id", hubSession), sent.session))
      id == RequestIdFrom(sent)
  IN {[context |-> own, data |-> <<>>],
      [context |-> Context(<<>>, own.session), data |-> <<>>],
      [context |-> Context(TheIds(own.top, {"thalovant_request_id"}), TheIds(own.session, {"session_id"})), data |-> <<>>],
      [context |-> Context(<<>>, Single("session_id", hubSession)), data |-> WithKey(<<>>, "correlation_id", id)],
      [context |-> EMPTY, data |-> <<>>]}

(* A request that is sent under an id is answered under that id, whatever ids  *)
(* the caller's context still held (318-342, 437-452), and every event its hub *)
(* makes of it is taken, though the hub files it under a session of its own;   *)
(* no event that names another request is (396-423).  The id of the session    *)
(* is the one given, else the one the context held (431-434, context.py        *)
(* 78-83); merging loses no key of the session (305-315), a carried field      *)
(* never outranks the turn's own (378-393), and the reply to a reply is        *)
(* routed as the message was (client.py 253-280).                              *)
EventsAreCorrelated(given, base, extra, hubSession, stranger) ==
  LET merged == MergeContext(base, extra)
      sent == WithCorrelation(merged, given)
      asked == WithCorrelation(EMPTY, given)
  IN /\ given.request_id # "" =>
          /\ RequestIdFrom(sent) = given.request_id
          /\ \A e \in Echoes(sent, hubSession): MatchesContext(e, sent) /\ (RequestIdFrom(e.context) # "" => MatchesContext(e, asked))
          /\ \A e \in Echoes(WithCorrelation(merged, [given EXCEPT !.request_id = stranger]), given.session_id):
               EventRequestId(e) # "" => ~MatchesContext(e, sent)
     /\ SessionIdFrom(sent) = Or(given.session_id, SessionIdFrom(merged))
     /\ LET client == ClientContext(merged, given.session_id)
        IN SessionIdFrom(client) = Or(In(merged.session, "session_id"), Or(given.session_id, SessionIdFrom(merged)))
     /\ \A k \in DOMAIN base.session \ DOMAIN extra.session: RequestContext(merged, "fr", "").session[k] = base.session[k]
     /\ \A k \in DOMAIN extra.session: merged.session[k] = extra.session[k]
     /\ LET next == Carry(sent.session, extra.session)
        IN /\ \A k \in DOMAIN extra.session: next[k] = extra.session[k]
           /\ DOMAIN next \subseteq Carried \cup DOMAIN extra.session
     /\ \A source, destination \in {<<>>, <<"a">>, <<"b">>}:
          (destination # <<>> => source # <<>>) =>
             LET routed == Routed(sent, source, destination)
             IN destination # <<>> => ReplyContext(ReplyContext(routed)) = routed
=============================================================================
