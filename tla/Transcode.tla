------------------------------ MODULE Transcode ------------------------------
(***************************************************************************)
(* The transcoding of one stream by av/src/Transcode.c: transcode_video    *)
(* and encode_video, or transcode_audio and encode_audio, which differ in  *)
(* nothing but the contexts they use.  The caller offers one packet after  *)
(* the other and takes what lies in its output packet after each call; the *)
(* codecs are those of the modules Decoder and Encoder.                    *)
(*                                                                         *)
(* The contexts are open when the model starts, as these functions ask of  *)
(* their caller.  Both streams go by m_nRemuxVideo.                        *)
(***************************************************************************)
EXTENDS Decoder, Encoder, Sequences

ASSUME StreamAssumption == Frame = Packet

VARIABLES
    remuxVideo, \* m_nRemuxVideo, set before the first call
    pc,       \* where transcode_video is, "idle" between two calls
    ret,      \* what it returned
    n,        \* packets the caller has offered
    got,      \* history: the packets the caller got
    encoded,  \* history: frames whose packets the encoder gave out
    failures  \* history: library calls that failed, at most 2 are counted

tvars == <<dvars, evars, remuxVideo, pc, ret, n, got, encoded, failures>>

Points == {"idle", "sent", "received", "fed", "drained"}

TranscodeTypeOK ==
    /\ DecoderTypeOK /\ EncoderTypeOK
    /\ remuxVideo \in BOOLEAN
    /\ pc \in Points
    /\ ret \in Returns
    /\ n \in 0..MaxPackets
    /\ got \in Seq(Packet)
    /\ encoded \subseteq Packet \cup {None}
    /\ failures \in 0..2

TranscodeInit ==
    /\ DecoderInit /\ EncoderInit
    /\ remuxVideo \in BOOLEAN
    /\ pc = "idle" /\ ret = "OK" /\ n = 0
    /\ got = <<>> /\ encoded = {} /\ failures = 0

Failed(r) == failures' = IF r = "ERROR" /\ failures < 2 THEN failures + 1 ELSE failures

(* The calling code is at p and the library call it made has returned.     *)
At(p) == pc = p /\ dpc = "idle" /\ epc = "idle"

(* The function returns r; the caller takes what is in its output packet.  *)
Leave(r) == pc' = "idle" /\ ret' = r
Hand(p) == got' = IF p # None THEN Append(got, p) ELSE got

(* The caller's next packet is sent to the decoder. *)
Begin ==
    /\ At("idle") /\ n < MaxPackets
    /\ n' = n + 1
    /\ avcodec_send_packet(n + 1)
    /\ pc' = "sent"
    /\ UNCHANGED <<evars, remuxVideo, ret, got, encoded, failures>>

(* Mutants of SendRefused: the decoder is read when it has no room, or the *)
(* packet is remuxed whatever the decoder says.                            *)
SendRefused_drains ==
    /\ At("sent") /\ dret # "OK"
    /\ avcodec_receive_frame
    /\ pc' = "received"
    /\ UNCHANGED <<evars, ret, n, got, encoded, failures>>
SendRefused_remuxes ==
    /\ At("sent") /\ dret # "OK"
    /\ Leave(dret) /\ Failed(dret)
    /\ Hand(n) /\ out' = NoFrame
    /\ UNCHANGED <<dvars, epc, eret, pictures, lastShort, n, encoded>>

(* The decoder has refused the packet, for good or for now: nothing else   *)
(* is done with it.                                                        *)
SendRefused ==
    /\ At("sent") /\ dret # "OK"
    /\ Leave(dret) /\ Failed(dret)
    /\ Hand(out) /\ out' = NoFrame
    /\ UNCHANGED <<dvars, epc, eret, pictures, lastShort, n, encoded>>

(* Mutant: the flag is not asked. *)
remux_unasked ==
    /\ At("sent") /\ dret = "OK"
    /\ Leave("OK")
    /\ Hand(n) /\ out' = NoFrame
    /\ UNCHANGED <<dvars, epc, eret, pictures, lastShort, n, encoded, failures>>

(* remux moves the packet itself to the output packet. *)
remux ==
    /\ At("sent") /\ dret = "OK" /\ remuxVideo
    /\ Leave("OK")
    /\ Hand(n) /\ out' = NoFrame
    /\ UNCHANGED <<dvars, epc, eret, pictures, lastShort, n, encoded, failures>>

FirstFrame ==
    /\ At("sent") /\ dret = "OK" /\ ~remuxVideo
    /\ avcodec_receive_frame
    /\ pc' = "received"
    /\ UNCHANGED <<evars, ret, n, got, encoded, failures>>

(* Mutant: EAGAIN does not end the loop. *)
FramesEnd_again ==
    /\ At("received") /\ dret # "OK"
    /\ Failed(dret)
    /\ IF dret = "EAGAIN"
       THEN avcodec_receive_frame /\ UNCHANGED <<evars, pc, ret, n, got, encoded>>
       ELSE /\ Leave(dret)
            /\ Hand(out) /\ out' = NoFrame
            /\ UNCHANGED <<dvars, epc, eret, pictures, lastShort, n, encoded>>

(* The decoder is drained, or has failed: the call ends. *)
FramesEnd ==
    /\ At("received") /\ dret # "OK"
    /\ Leave(IF dret = "EAGAIN" THEN "OK" ELSE dret) /\ Failed(dret)
    /\ Hand(out) /\ out' = NoFrame
    /\ UNCHANGED <<dvars, epc, eret, pictures, lastShort, n, encoded>>

(* encode_video begins. *)
FrameToEncoder ==
    /\ At("received") /\ dret = "OK"
    /\ \E size \in Sizes : avcodec_send_frame(frame, size)
    /\ pc' = "fed"
    /\ UNCHANGED <<dvars, ret, n, got, encoded, failures>>

(* Mutant: the encoder is only fed. *)
FrameRefused_always ==
    /\ At("fed")
    /\ Failed(eret)
    /\ avcodec_receive_frame
    /\ pc' = "received"
    /\ UNCHANGED <<evars, ret, n, got, encoded>>

(* A frame the encoder refused is passed over in silence: encode_video     *)
(* skips its loop and returns 0.                                           *)
FrameRefused ==
    /\ At("fed") /\ eret # "OK"
    /\ Failed(eret)
    /\ avcodec_receive_frame
    /\ pc' = "received"
    /\ UNCHANGED <<evars, ret, n, got, encoded>>

(* The receive loop of encode_video: the packet received before is lost    *)
(* with the next call.                                                     *)
NextPacket ==
    /\ At("fed") \/ At("drained")
    /\ eret = "OK"
    /\ avcodec_receive_packet
    /\ encoded' = IF pc = "drained" THEN encoded \cup {out} ELSE encoded
    /\ pc' = "drained"
    /\ UNCHANGED <<dvars, ret, n, got, failures>>

(* Mutant: one frame is received for each packet. *)
PacketsEnd_returns ==
    /\ At("drained") /\ eret = "EAGAIN"
    /\ Leave("OK")
    /\ Hand(out) /\ out' = NoFrame
    /\ UNCHANGED <<dvars, epc, eret, pictures, lastShort, n, encoded, failures>>

(* encode_video returns 0 and the next frame is received. *)
PacketsEnd ==
    /\ At("drained") /\ eret = "EAGAIN"
    /\ avcodec_receive_frame
    /\ pc' = "received"
    /\ UNCHANGED <<evars, ret, n, got, encoded, failures>>

(* encode_video fails and transcode_video with it, in the midst of the     *)
(* packet.                                                                 *)
EncodingFails ==
    /\ At("drained") /\ eret = "ERROR"
    /\ Leave("ERROR") /\ Failed("ERROR")
    /\ Hand(out) /\ out' = NoFrame
    /\ UNCHANGED <<dvars, epc, eret, pictures, lastShort, n, encoded>>

DecoderWorks == Decode /\ UNCHANGED <<evars, pc, ret, n, got, encoded, failures>>
EncoderWorks == Encode /\ UNCHANGED <<dvars, pc, ret, n, got, encoded, failures>>

Transcoding ==
    /\ \/ SendRefused \/ remux \/ FirstFrame \/ FramesEnd
       \/ FrameToEncoder \/ FrameRefused \/ NextPacket \/ PacketsEnd \/ EncodingFails
       \/ DecoderWorks \/ EncoderWorks
    /\ UNCHANGED remuxVideo

(* The caller has no more packets. *)
InputEnds == At("idle") /\ n = MaxPackets /\ UNCHANGED tvars

TranscodeNext == Begin \/ Transcoding \/ InputEnds

TranscodeSpec == TranscodeInit /\ [][TranscodeNext]_tvars
TranscodeFairSpec == TranscodeSpec /\ WF_tvars(Transcoding)
-----------------------------------------------------------------------------
(* Between two calls the decoder's filter still holds a packet: the next   *)
(* one will be refused.                                                    *)
Stalled == pc = "idle" /\ bsf # None

(* main.c:252-256 of the video: "H264 -> H265".  What the encoder made of  *)
(* it is to be in the caller's hands when a call is over; the receive loop *)
(* only ends with a call that has released the output packet               *)
(* (Transcode.c:183-188 and 206-211, encode.c:486).                        *)
EncodedIsDelivered ==
    pc = "idle" => encoded \subseteq {got[k] : k \in DOMAIN got}

(* Transcoding a video the decoder never refuses a packet with EAGAIN,     *)
(* whatever has failed before: each call drains it (Transcode.c:338-361).  *)
VideoNeverStalls == ~remuxVideo /\ Subframes = 1 => ~Stalled /\ ret # "EAGAIN"

(* The encoder takes every frame of the right size: it is drained before   *)
(* the next one is there (Transcode.c:181-198, 204-220).                   *)
EncoderAlwaysTakes == At("fed") => eret # "EAGAIN"

(* A decoder in which a call left part of a packet can stall, but only     *)
(* after two calls have failed: one that left the part and one that left   *)
(* the next packet behind it (Transcode.c:312-326, 324).                   *)
StallNeedsTwoFailures == ~remuxVideo /\ Stalled => Subframes > 1 /\ failures = 2

(* What has stalled once stays so: each later packet is refused with       *)
(* EAGAIN before anything is received (Transcode.c:304-305, 338-339), and  *)
(* the caller gets nothing any more.                                       *)
Stuck == bsf # None /\ (pc = "idle" \/ (At("sent") /\ dret = "EAGAIN"))
StallIsForever == [][Stuck => Stuck' /\ got' = got]_tvars

(* Remuxing, the decoder is fed and never read: it stalls behind its first *)
(* frame, and the packet it is stuck with is the last one the caller ever  *)
(* gets (Transcode.c:338-339, 347, 363-366; decode.c:634).                 *)
RemuxStopsAtFirstFrame ==
    remuxVideo /\ Stalled =>
        bufFrame # None /\ got # <<>> /\ got[Len(got)] = bsf

(* A call of transcode_video or transcode_audio returns: its two nested    *)
(* loops run out of frames and packets (Transcode.c:183-198, 349-361).     *)
CallsReturn == pc # "idle" ~> pc = "idle"
=============================================================================
