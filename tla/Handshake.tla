----------------------------- MODULE Handshake ------------------------------
(***************************************************************************)
(* What travels from an extension to the hub on one connection: the        *)
(* register message (client.go, always JSON), then the messages of the     *)
(* session in the codec it names.  validateConnection (server/conn_base.go)*)
(* reads the register message with a decoder of its own and drops it,      *)
(* and what it had buffered; the session decodes the rest                  *)
(* (codec/gogoprotobuf, codec/stdjson).                                    *)
(*                                                                         *)
(* The wire is a sequence of tokens, each written and read as a unit:      *)
(* the register message, its newline, the size and the body of a protobuf  *)
(* message, a JSON message; a connection that breaks within a Write is not *)
(* modelled.  On a packet connection every Write is a datagram, which may  *)
(* be lost or overtaken; newlines stay inside theirs.                      *)
(***************************************************************************)
EXTENDS Naturals, Sequences

CONSTANT MaxMsgs
ASSUME HandshakeAssumption == MaxMsgs \in Nat

VARIABLES
    codec,      \* what the register message asks for
    packet,     \* the transport
    patient,    \* the extension sends only after it got a command (nothing makes it)
    whole,      \* a Read returns no less than one Write, of the register message
    wire,
    cpc, n,     \* the extension; messages it has begun to encode
    hpc,        \* the hub: validate, session, or how the session's Decode failed
    greeted,    \* the hub has sent a command
    dpc,        \* the message whose body Decode waits for, or 0
    delivered   \* messages decoded

setup == <<codec, packet, patient, whole>>
handshakeVars == <<setup, wire, cpc, n, hpc, greeted, dpc, delivered>>

Token == [part : {"register", "newline", "size", "body", "value"}, msg : 0..MaxMsgs]
Part(p, m) == [part |-> p, msg |-> m]

HandshakeTypeOK ==
    /\ codec \in {"json", "protobuf"}
    /\ packet \in BOOLEAN /\ patient \in BOOLEAN /\ whole \in BOOLEAN
    /\ wire \in Seq(Token)
    /\ cpc \in {"start", "idle", "encoding", "closed"} /\ n \in 0..MaxMsgs
    /\ hpc \in {"validate", "session", "eof", "unexpected", "garbled"}
    /\ greeted \in BOOLEAN
    /\ dpc \in 0..MaxMsgs
    /\ delivered \in Seq(1..MaxMsgs)

HandshakeInit ==
    /\ codec \in {"json", "protobuf"}
    /\ packet \in BOOLEAN /\ patient \in BOOLEAN /\ whole \in BOOLEAN
    /\ wire = <<>> /\ cpc = "start" /\ n = 0
    /\ hpc = "validate" /\ greeted = FALSE
    /\ dpc = 0 /\ delivered = <<>>

-----------------------------------------------------------------------------
(* The extension.                                                          *)

Newline == IF packet THEN <<>> ELSE <<Part("newline", 0)>>

Register ==
    /\ cpc = "start" /\ cpc' = "idle"
    /\ wire' = wire \o <<Part("register", 0)>> \o Newline
    /\ UNCHANGED <<setup, n, hpc, greeted, dpc, delivered>>

\* Encode: JSON in one Write, protobuf in two.
Encode ==
    /\ cpc = "idle" /\ n < MaxMsgs
    /\ patient => greeted
    /\ n' = n + 1
    /\ \/ /\ codec = "json" /\ UNCHANGED cpc
          /\ wire' = wire \o <<Part("value", n + 1)>> \o Newline
       \/ /\ codec = "protobuf" /\ cpc' = "encoding"
          /\ wire' = Append(wire, Part("size", n + 1))
    /\ UNCHANGED <<setup, hpc, greeted, dpc, delivered>>

EncodeBody ==
    /\ cpc = "encoding" /\ cpc' = "idle"
    /\ wire' = Append(wire, Part("body", n))
    /\ UNCHANGED <<setup, n, hpc, greeted, dpc, delivered>>

\* The connection is closed, or breaks, between two Writes.
Disconnect ==
    /\ cpc \in {"idle", "encoding"} /\ cpc' = "closed"
    /\ UNCHANGED <<setup, wire, n, hpc, greeted, dpc, delivered>>

\* s without its i-th element (the one operator of SequencesExt this module
\* needs; with all of that module the proofs take several times as long).
RemoveAt(s, i) == SubSeq(s, 1, i - 1) \o SubSeq(s, i + 1, Len(s))

\* Datagrams are lost, and overtake each other.
Lose ==
    /\ packet
    /\ \E i \in DOMAIN wire : wire' = RemoveAt(wire, i)
    /\ UNCHANGED <<setup, cpc, n, hpc, greeted, dpc, delivered>>

Overtake ==
    /\ packet
    /\ \E i \in DOMAIN wire : i > 1 /\ wire' = <<wire[i]>> \o RemoveAt(wire, i)
    /\ UNCHANGED <<setup, cpc, n, hpc, greeted, dpc, delivered>>

-----------------------------------------------------------------------------
(* The hub.                                                                *)

\* The decoder of validateConnection reads k tokens, at least the register
\* message; what else it read is dropped with it.
Validate ==
    /\ hpc = "validate" /\ wire # <<>>
    /\ Head(wire).part = "register" /\ hpc' = "session"
    /\ \E k \in DOMAIN wire :
          /\ packet => k = 1
          /\ whole /\ ~packet => k > 1
          /\ wire' = SubSeq(wire, k + 1, Len(wire))
    /\ UNCHANGED <<setup, cpc, n, greeted, dpc, delivered>>

\* A first datagram that is no register message is ignored.
ValidateFails ==
    /\ hpc = "validate" /\ wire # <<>>
    /\ Head(wire).part # "register"
    /\ wire' = Tail(wire)
    /\ UNCHANGED <<setup, cpc, n, hpc, greeted, dpc, delivered>>

\* The session sends its first command.
Greet ==
    /\ hpc = "session" /\ ~greeted /\ greeted' = TRUE
    /\ UNCHANGED <<setup, wire, cpc, n, hpc, dpc, delivered>>

Decoding == hpc = "session" /\ wire # <<>>

\* The JSON decoder skips white space between messages.
DecodeJson ==
    /\ Decoding /\ codec = "json"
    /\ delivered' = IF Head(wire).part = "value" THEN Append(delivered, Head(wire).msg)
                                                 ELSE delivered
    /\ hpc' = IF Head(wire).part = "register" THEN "garbled" ELSE hpc
    /\ wire' = Tail(wire)
    /\ UNCHANGED <<setup, cpc, n, greeted, dpc>>

\* ReadUvarint takes whatever comes next for a size.
DecodeSize ==
    /\ Decoding /\ codec = "protobuf" /\ dpc = 0
    /\ IF Head(wire).part = "size" THEN dpc' = Head(wire).msg /\ UNCHANGED hpc
                                   ELSE hpc' = "garbled" /\ UNCHANGED dpc
    /\ wire' = Tail(wire)
    /\ UNCHANGED <<setup, cpc, n, greeted, delivered>>

DecodeBodyOnce ==
    /\ Decoding /\ codec = "protobuf" /\ dpc # 0
    /\ dpc' = 0
    /\ \/ /\ Head(wire) = Part("body", dpc)
          /\ delivered' = Append(delivered, dpc) /\ UNCHANGED hpc
       \/ hpc' = "garbled" /\ UNCHANGED delivered
    /\ wire' = Tail(wire)
    /\ UNCHANGED <<setup, cpc, n, greeted>>

\* ReadFull waits for as many bytes as the size said.
DecodeBody ==
    /\ Decoding /\ codec = "protobuf" /\ dpc # 0
    /\ IF Head(wire) = Part("body", dpc)
         THEN dpc' = 0 /\ delivered' = Append(delivered, dpc) /\ UNCHANGED hpc
         ELSE hpc' = "garbled" /\ UNCHANGED <<dpc, delivered>>
    /\ wire' = Tail(wire)
    /\ UNCHANGED <<setup, cpc, n, greeted>>

DecodeEofAnywhere ==
    /\ hpc = "session" /\ wire = <<>> /\ cpc = "closed" /\ ~packet
    /\ hpc' = "eof"
    /\ UNCHANGED <<setup, wire, cpc, n, greeted, dpc, delivered>>

\* io.EOF between messages, "failed to read message body" within one.
DecodeEof ==
    /\ hpc = "session" /\ wire = <<>> /\ cpc = "closed" /\ ~packet
    /\ hpc' = IF dpc = 0 THEN "eof" ELSE "unexpected"
    /\ UNCHANGED <<setup, wire, cpc, n, greeted, dpc, delivered>>

-----------------------------------------------------------------------------
HandshakeNext ==
    \/ Register \/ Encode \/ EncodeBody \/ Disconnect \/ Lose \/ Overtake
    \/ Validate \/ ValidateFails \/ Greet
    \/ DecodeJson \/ DecodeSize \/ DecodeBody \/ DecodeEof

HandshakeSpec == HandshakeInit /\ [][HandshakeNext]_handshakeVars

-----------------------------------------------------------------------------
(* Properties.                                                             *)

\* The extension waits for the hub, and the newline after the register message
\* does no harm: JSON skips it, or it was read together with the message.
Orderly == patient /\ (codec = "json" \/ (whole /\ ~packet))

\* On an orderly connection framing is never lost, whatever datagrams are:
\* the session decodes messages of the extension and nothing else, and on a
\* stream all of them and in order, although validateConnection drops bytes.
FramingKept ==
    Orderly =>
        /\ hpc # "garbled"
        /\ ~packet => delivered = [i \in 1..Len(delivered) |-> i] /\ Len(delivered) <= n

\* On an orderly stream Decode ends with io.EOF, which the session takes for a
\* regular end, only when every message the extension began has been decoded.
CleanEndIsComplete ==
    Orderly /\ ~packet /\ hpc = "eof" => Len(delivered) = n

\* Without an orderly start: no message is lost on a stream.
EarlyMessagesArrive == ~packet /\ hpc = "eof" => Len(delivered) = n
\* No stream of a patient extension loses its framing.
NewlineIsHarmless == patient /\ ~packet => hpc # "garbled"
\* Protobuf keeps its framing on packet connections.
DatagramsKeepFraming == patient => hpc # "garbled"

=============================================================================
