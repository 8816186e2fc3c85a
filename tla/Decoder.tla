------------------------------- MODULE Decoder -------------------------------
(***************************************************************************)
(* An open decoder of the libavcodec the project ships: what               *)
(* avcodec_send_packet and avcodec_receive_frame do with the packet        *)
(* waiting in the bitstream filter, the packet being decoded, the pictures *)
(* the codec keeps for later and the frame decoded ahead.  What the codec  *)
(* makes of a packet is a choice.  A frame is named by its packet.         *)
(*                                                                         *)
(* A call that decodes runs through the loop of                            *)
(* decode_simple_receive_frame, one iteration an action; dpc says which    *)
(* call is in it.  Flush packets, which no code here sends, are left out.  *)
(***************************************************************************)
EXTENDS Naturals, FiniteSets

CONSTANTS
    MaxPackets,  \* bound of the model: packets offered
    Delay,       \* pictures a codec may keep back
    Subframes    \* pieces a packet may be decoded in: 1 for video

ASSUME PacketAssumption   == MaxPackets \in Nat
ASSUME DelayAssumption    == Delay \in Nat
ASSUME SubframeAssumption == Subframes \in Nat \ {0}

Packet == 1..MaxPackets
None == 0

VARIABLES
    dpc,      \* "idle", or the call that is decoding
    dret,     \* what the last call returned
    bsf,      \* the packet in the bitstream filter
    inPkt,    \* in_pkt, the packet being decoded
    left,     \* pieces of it not decoded yet
    inside,   \* pictures the codec keeps
    bufFrame, \* buffer_frame: the frame decoded ahead by a send
    frame     \* the caller's frame

queues == <<bsf, inPkt, left, inside, bufFrame>>
dvars == <<dpc, dret, queues, frame>>

Returns == {"OK", "EAGAIN", "ERROR"}

DecoderTypeOK ==
    /\ dpc \in {"idle", "send", "receive"}
    /\ dret \in Returns
    /\ {bsf, inPkt, bufFrame, frame} \subseteq Packet \cup {None}
    /\ left \in 0..Subframes - 1
    /\ inside \subseteq Packet

(* avcodec_open2 *)
DecoderInit ==
    /\ dpc = "idle" /\ dret = "OK"
    /\ bsf = None /\ inPkt = None /\ left = 0 /\ inside = {}
    /\ bufFrame = None /\ frame = None

(* Mutant: a full filter is overwritten. *)
avcodec_send_packet_overwrites(p) ==
    /\ dpc = "idle"
    /\ bsf' = p
    /\ IF bufFrame = None THEN dpc' = "send" /\ UNCHANGED dret
                          ELSE dret' = "OK" /\ UNCHANGED dpc
    /\ UNCHANGED <<inPkt, left, inside, bufFrame, frame>>

(* avcodec_send_packet: the filter takes one packet; when no frame was     *)
(* decoded ahead the call tries to decode one.                             *)
avcodec_send_packet(p) ==
    /\ dpc = "idle"
    /\ IF bsf # None
       THEN dret' = "EAGAIN" /\ UNCHANGED <<dpc, bsf>>
       ELSE /\ bsf' = p
            /\ IF bufFrame = None THEN dpc' = "send" /\ UNCHANGED dret
                                  ELSE dret' = "OK" /\ UNCHANGED dpc
    /\ UNCHANGED <<inPkt, left, inside, bufFrame, frame>>

(* Mutant: the frame decoded ahead is copied, not moved. *)
avcodec_receive_frame_copies ==
    /\ dpc = "idle"
    /\ IF bufFrame # None
       THEN frame' = bufFrame /\ dret' = "OK" /\ UNCHANGED dpc
       ELSE frame' = None /\ dpc' = "receive" /\ UNCHANGED dret
    /\ UNCHANGED queues

(* avcodec_receive_frame: the caller's frame is released, then it is the   *)
(* frame decoded ahead, which may turn out invalid, or one is decoded.     *)
avcodec_receive_frame ==
    /\ dpc = "idle"
    /\ IF bufFrame # None
       THEN /\ bufFrame' = None
            /\ \/ frame' = bufFrame /\ dret' = "OK"
               \/ frame' = None /\ dret' = "ERROR"
            /\ UNCHANGED dpc
       ELSE frame' = None /\ dpc' = "receive" /\ UNCHANGED <<dret, bufFrame>>
    /\ UNCHANGED <<bsf, inPkt, left, inside>>

(* The call that was decoding returns. *)
Return(r) == dpc' = "idle" /\ dret' = r

(* Mutant: the packet waiting in the filter is overlooked. *)
DecodeStarved_early ==
    /\ dpc # "idle" /\ inPkt = None
    /\ Return(IF dpc = "send" THEN "OK" ELSE "EAGAIN")
    /\ UNCHANGED <<queues, frame>>

(* No packet is left: a receive asks for one, a send is content.           *)
DecodeStarved ==
    /\ dpc # "idle" /\ inPkt = None /\ bsf = None
    /\ Return(IF dpc = "send" THEN "OK" ELSE "EAGAIN")
    /\ UNCHANGED <<queues, frame>>

(* The packet in work, or the next one, in the n pieces it has left.       *)
InWork(p, n) ==
    \/ inPkt # None /\ p = inPkt /\ n = left /\ UNCHANGED bsf
    \/ inPkt = None /\ bsf # None /\ p = bsf /\ n \in 1..Subframes /\ bsf' = None

(* The packet is broken: what is left of it is dropped. *)
DecodeFails ==
    /\ dpc # "idle"
    /\ \E p \in Packet, n \in 1..Subframes : InWork(p, n)
    /\ inPkt' = None /\ left' = 0
    /\ Return("ERROR")
    /\ UNCHANGED <<inside, bufFrame, frame>>

(* Mutant: what is left is counted before the piece is taken off. *)
Consume_late(p, n) ==
    /\ InWork(p, n)
    /\ inPkt' = IF n = 1 THEN None ELSE p
    /\ left' = n

(* One piece of the packet in work is consumed. *)
Consume(p, n) ==
    /\ InWork(p, n)
    /\ inPkt' = IF n = 1 THEN None ELSE p
    /\ left' = n - 1

(* A piece yields no frame: the codec keeps the picture, or skips it; the  *)
(* loop goes on.                                                           *)
DecodeKeeps ==
    /\ dpc # "idle"
    /\ \E p \in Packet, n \in 1..Subframes :
          /\ Consume(p, n)
          /\ inside' \in {inside, inside \cup {p}}
    /\ Cardinality(inside') <= Delay
    /\ UNCHANGED <<dpc, dret, bufFrame, frame>>

(* A piece yields a frame, its own or one kept before: into buffer_frame   *)
(* when a send decodes, into the caller's when a receive does, where it    *)
(* may turn out invalid.                                                   *)
DecodeYields ==
    /\ dpc # "idle"
    /\ \E p \in Packet, n \in 1..Subframes :
          /\ Consume(p, n)
          /\ \E f \in inside \cup {p} :
                /\ inside' \in {inside \ {f}, (inside \cup {p}) \ {f}}
                /\ \/ dpc = "send" /\ bufFrame' = f /\ UNCHANGED frame /\ Return("OK")
                   \/ dpc = "receive" /\ frame' = f /\ UNCHANGED bufFrame /\ Return("OK")
                   \/ dpc = "receive" /\ UNCHANGED <<frame, bufFrame>> /\ Return("ERROR")
    /\ Cardinality(inside') <= Delay

Decode == DecodeStarved \/ DecodeFails \/ DecodeKeeps \/ DecodeYields
=============================================================================
