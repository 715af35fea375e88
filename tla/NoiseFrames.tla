------------------------------ MODULE NoiseFrames ------------------------------
(* The frames of an established session: encrypt_message(), decrypt_frame()    *)
(* and the cipher counters (src/thalovant/_noise.py 186-218, 466-545), driven  *)
(* by _send() and _write() (src/thalovant/_hive.py 875-919).  A message is cut *)
(* into chunks, a frame each; callers share one lock; the network may lose,    *)
(* repeat or swap frames.  The peer reads with the same code.                  *)
EXTENDS Naturals, Sequences, SequencesExt

CONSTANTS Senders,      \* calls of _send(), one message each
          SizeOf,       \* SizeOf[c]: the bytes of its message
          IsJson,       \* IsJson[c]: its kind, else binary
          ChunkSize, ReassemblyCap, Nobody,
          MaxNetworkFaults

ASSUME FrameShape ==
  /\ SizeOf \in [Senders -> Nat] /\ IsJson \in [Senders -> BOOLEAN]
  /\ ChunkSize \in Nat \ {0} /\ ReassemblyCap \in Nat /\ Nobody \notin Senders
  /\ MaxNetworkFaults \in Nat

VARIABLES
  stage,      \* each call: "new", "queued", "holds", "sent", "withdrawn", "failed"
  waiting,    \* callers of _send() queued for the lock, in order
  holder,     \* who holds it
  frames,     \* the sealed frames the holder has still to send
  sealedBy,   \* history: the calls in the order their messages were sealed
  sendNonce, wire, receiveNonce,
  open,       \* the chunked message being put together
  delivered,  \* the messages decrypt_frame() has returned
  dead,       \* the peer's session met an error: _fail_live(), close()
  broken,     \* the sender's link did
  tampered    \* frames the network lost, repeated or swapped

frameVars == <<stage, waiting, holder, frames, sealedBy, sendNonce, wire, receiveNonce, open,
               delivered, dead, broken, tampered>>

Bytes(c) == [i \in 1..SizeOf[c] |-> <<c, i>>]
Message(c) == [bytes |-> Bytes(c), json |-> IsJson[c]]
NoMessage == [bytes |-> <<>>, json |-> FALSE, busy |-> FALSE]

Markers == {"whole", "first", "more", "last"}

FrameTypeOK ==
  /\ stage \in [Senders -> {"new", "queued", "holds", "sent", "withdrawn", "failed"}]
  /\ waiting \in Seq(Senders) /\ holder \in Senders \cup {Nobody}
  /\ \A i \in DOMAIN frames: frames[i].marker \in Markers
  /\ sealedBy \in Seq(Senders) /\ sendNonce \in Nat /\ receiveNonce \in 0..sendNonce
  /\ \A i \in DOMAIN wire: wire[i].nonce < sendNonce
  /\ open.busy \in BOOLEAN /\ dead \in BOOLEAN /\ broken \in BOOLEAN
  /\ tampered \in 0..MaxNetworkFaults

FramesInit ==
  /\ stage = [c \in Senders |-> "new"] /\ waiting = <<>> /\ holder = Nobody
  /\ frames = <<>> /\ sealedBy = <<>> /\ sendNonce = 0 /\ wire = <<>> /\ receiveNonce = 0
  /\ open = NoMessage /\ delivered = <<>> /\ dead = FALSE /\ broken = FALSE /\ tampered = 0

Stage(c, to) == stage' = [stage EXCEPT ![c] = to]

-----------------------------------------------------------------------------
(* How many chunks, and where chunk i (from 0) ends.                           *)
Chunks(size) == IF size <= ChunkSize THEN 1 ELSE (size + ChunkSize - 1) \div ChunkSize

\* mutant: the last chunk is missed when it is full.
MarkerByRest(i, size) ==
  IF size <= ChunkSize THEN "whole" ELSE IF i = 0 THEN "first"
  ELSE IF i * ChunkSize > size - ChunkSize THEN "last" ELSE "more"

MarkerOf(i, size) ==
  IF size <= ChunkSize THEN "whole" ELSE IF i = 0 THEN "first"
  ELSE IF i * ChunkSize >= size - ChunkSize THEN "last" ELSE "more"

Sealed(c) ==
  [i \in 1..Chunks(SizeOf[c]) |->
     [nonce |-> sendNonce + i - 1, marker |-> MarkerOf(i - 1, SizeOf[c]), json |-> IsJson[c],
      body |-> SubSeq(Bytes(c), (i - 1) * ChunkSize + 1, Min({i * ChunkSize, SizeOf[c]}))]]

(* _send(): the lock is free, or the call waits for it.                        *)
Send(c) ==
  /\ stage[c] = "new" /\ ~broken
  /\ Stage(c, "queued") /\ waiting' = Append(waiting, c)
  /\ UNCHANGED <<holder, frames, sealedBy, sendNonce, wire, receiveNonce, open, delivered, dead,
                 broken, tampered>>

(* A call cancelled while it waits is withdrawn whole; later, it is shielded.  *)
Cancel(c) ==
  /\ stage[c] = "queued" /\ Stage(c, "withdrawn")
  /\ waiting' = SelectSeq(waiting, LAMBDA d: d # c)
  /\ UNCHANGED <<holder, frames, sealedBy, sendNonce, wire, receiveNonce, open, delivered, dead,
                 broken, tampered>>

(* _write() seals the whole message at once.                                   *)
Seal(c) ==
  /\ waiting # <<>> /\ Head(waiting) = c /\ holder = Nobody
  /\ Stage(c, "holds") /\ waiting' = Tail(waiting) /\ holder' = c
  /\ frames' = Sealed(c) /\ sendNonce' = sendNonce + Chunks(SizeOf[c])
  /\ sealedBy' = Append(sealedBy, c)
  /\ UNCHANGED <<wire, receiveNonce, open, delivered, dead, broken, tampered>>

WriteFrame(c) ==
  /\ holder = c /\ frames # <<>>
  /\ wire' = Append(wire, Head(frames)) /\ frames' = Tail(frames)
  /\ IF Len(frames) = 1 THEN Stage(c, "sent") /\ holder' = Nobody
     ELSE UNCHANGED <<stage, holder>>
  /\ UNCHANGED <<waiting, sealedBy, sendNonce, receiveNonce, open, delivered, dead, broken, tampered>>

(* carrier.send() fails or times out, its frame perhaps on the wire.           *)
WriteFails(c) ==
  /\ holder = c /\ frames # <<>>
  /\ wire' \in {wire, Append(wire, Head(frames))}
  /\ Stage(c, "failed") /\ holder' = Nobody /\ frames' = <<>> /\ broken' = TRUE
  /\ UNCHANGED <<waiting, sealedBy, sendNonce, receiveNonce, open, delivered, dead, tampered>>

-----------------------------------------------------------------------------
\* mutant: a frame past a lost one opens too.
AnyNonce(f) == f.nonce >= receiveNonce

Opens(f) == f.nonce = receiveNonce

Continues(f) == f.marker \in {"more", "last"}
Grown(f) == open.bytes \o f.body

(* A frame that does not open, or is out of place, or grows past the cap.      *)
Wrong(f) ==
  \/ ~Opens(f) \/ Continues(f) # open.busy
  \/ f.marker # "whole" /\ Len(Grown(f)) > ReassemblyCap

Receive ==
  /\ wire # <<>> /\ ~dead /\ wire' = Tail(wire)
  /\ LET f == Head(wire) IN
     /\ dead' = Wrong(f)
     /\ receiveNonce' = IF Opens(f) THEN f.nonce + 1 ELSE receiveNonce
     /\ IF Wrong(f) THEN open' = NoMessage /\ UNCHANGED delivered
        ELSE CASE f.marker = "whole" ->
                    /\ delivered' = Append(delivered, [bytes |-> f.body, json |-> f.json])
                    /\ UNCHANGED open
               [] f.marker = "first" ->
                    open' = [bytes |-> f.body, json |-> f.json, busy |-> TRUE] /\ UNCHANGED delivered
               [] f.marker = "more" ->
                    open' = [open EXCEPT !.bytes = Grown(f)] /\ UNCHANGED delivered
               [] f.marker = "last" ->
                    /\ delivered' = Append(delivered, [bytes |-> Grown(f), json |-> open.json])
                    /\ open' = NoMessage
  /\ UNCHANGED <<stage, waiting, holder, frames, sealedBy, sendNonce, broken, tampered>>

Tamper ==
  /\ tampered < MaxNetworkFaults /\ tampered' = tampered + 1
  /\ \E i \in DOMAIN wire:
       wire' \in {RemoveAt(wire, i), InsertAt(wire, i, wire[i])}
                 \cup {[wire EXCEPT ![i] = wire[j], ![j] = wire[i]]: j \in DOMAIN wire \ {i}}
  /\ UNCHANGED <<stage, waiting, holder, frames, sealedBy, sendNonce, receiveNonce, open,
                 delivered, dead, broken>>

FramesNext ==
  \/ \E c \in Senders: Send(c) \/ Cancel(c) \/ Seal(c) \/ WriteFrame(c) \/ WriteFails(c)
  \/ Receive \/ Tamper

FramesSpec == FramesInit /\ [][FramesNext]_frameVars

-----------------------------------------------------------------------------
(* What the peer reads is a prefix of what was sealed, whole messages in the   *)
(* order they were sealed, whatever the network did and however the callers    *)
(* came and went: never half a message, two mixed, one twice or one missing    *)
(* (_noise.py 478-532, _hive.py 880-888).                                      *)
ReadAsSealed ==
  IsPrefix(delivered, [i \in 1..Len(sealedBy) |-> Message(sealedBy[i])])

TooBig(c) == SizeOf[c] > Max({ChunkSize, ReassemblyCap})

(* On a network that did nothing, with no write failed, reading stops at a      *)
(* message past the cap and nowhere else: the frames of the others add up.     *)
NothingLost ==
  tampered = 0 /\ ~broken /\ holder = Nobody /\ (wire = <<>> \/ dead)
    /\ Len(delivered) < Len(sealedBy)
    => TooBig(sealedBy[Len(delivered) + 1])

(* Messages arrive whole and in order, and on a network that did nothing all   *)
(* of them do (_noise.py 478-532).                                             *)
MessagesAreWhole == ReadAsSealed /\ NothingLost
=============================================================================
