---------------------------- MODULE DecoderClient ----------------------------
(***************************************************************************)
(* A decoder under a client that calls avcodec_send_packet and             *)
(* avcodec_receive_frame in any order, and offers a refused packet again:  *)
(* what libavcodec/avcodec.h promises about the two calls.                 *)
(***************************************************************************)
EXTENDS Decoder, Sequences

VARIABLES
    sent,   \* packets accepted so far
    call,   \* the last call, "none" before the first
    before, \* history: the call before it and what that returned
    frames  \* history: the frames the client got

cvars == <<dvars, sent, call, before, frames>>

ClientTypeOK ==
    /\ DecoderTypeOK
    /\ sent \in 0..MaxPackets
    /\ call \in {"none", "send", "receive"}
    /\ before \in [call : {"none", "send", "receive"}, ret : Returns]
    /\ frames \in Seq(Packet)

ClientInit ==
    /\ DecoderInit
    /\ sent = 0 /\ call = "none" /\ frames = <<>>
    /\ before = [call |-> "none", ret |-> "OK"]

Calls(c) == call' = c /\ before' = [call |-> call, ret |-> dret]

Send ==
    /\ sent < MaxPackets
    /\ avcodec_send_packet(sent + 1)
    /\ sent' = IF bsf = None THEN sent + 1 ELSE sent
    /\ Calls("send")
    /\ UNCHANGED frames

(* The frame is received at once or when its decoding ends. *)
Got == frames' = IF frame' # None THEN Append(frames, frame') ELSE frames

Receive == avcodec_receive_frame /\ Got /\ Calls("receive") /\ UNCHANGED sent

Decoding ==
    /\ Decode
    /\ IF dpc = "receive" THEN Got ELSE UNCHANGED frames
    /\ UNCHANGED <<sent, call, before>>

ClientNext == Send \/ Receive \/ Decoding

ClientSpec == ClientInit /\ [][ClientNext]_cvars
-----------------------------------------------------------------------------
Answered == dpc = "idle"

(* A decoder that has no frame takes the next packet: a send after a       *)
(* receive that returned EAGAIN does not return EAGAIN (avcodec.h:154-157, *)
(* decode.c:607-641, bsf.c:220).                                           *)
ReceiveAgainMeansSend ==
    Answered /\ call = "send" /\ before.call = "receive" /\ before.ret = "EAGAIN"
        => dret # "EAGAIN"

(* The other direction of avcodec.h:154-157: "an AVERROR(EAGAIN) return    *)
(* value on a send/receive call on one end implies that a receive/send     *)
(* call on the other end will succeed, or at least will not fail with      *)
(* AVERROR(EAGAIN)".                                                       *)
SendAgainMeansReceive ==
    Answered /\ call = "receive" /\ before.call = "send" /\ before.ret = "EAGAIN"
        => dret # "EAGAIN"

(* What is inside a decoder that is not decoding: a packet waits in the    *)
(* filter only behind a frame decoded ahead, behind one just taken or      *)
(* invalid, or behind pieces of a packet; in no case is it overtaken       *)
(* (decode.c:634-638, 705-711).                                            *)
PacketsWaitInTurn ==
    /\ inPkt # None /\ bsf # None => inPkt < bsf
    /\ bsf # None => bsf = sent /\ \A f \in inside \cup {bufFrame, frame} : f < bsf

(* No picture is given out twice, and none is given out of a piece that is *)
(* still inside: of a packet come at most as many frames as it has pieces, *)
(* those it may still yield and those kept or decoded ahead counted with   *)
(* them (decode.c:705-711: the frame decoded ahead is moved, not copied).  *)
EachFrameOnce ==
    \A p \in Packet :
        LET one(b) == IF b THEN 1 ELSE 0
        IN Cardinality({i \in DOMAIN frames : frames[i] = p})
               + one(p = bufFrame) + one(p \in inside)
               + (IF p = inPkt THEN left ELSE 0)
               + (IF p = bsf THEN Subframes ELSE 0) <= Subframes
=============================================================================
