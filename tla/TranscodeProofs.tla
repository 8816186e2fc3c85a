--------------------------- MODULE TranscodeProofs ---------------------------
(***************************************************************************)
(* What the transcoding of a stream guarantees for every number of         *)
(* packets, every delay of the codecs and every set of frames.             *)
(***************************************************************************)
EXTENDS Transcode, TLAPS

USE DEF None, NoFrame

(* The calls and the loop of a decoder keep its types. *)
LEMMA DecoderType ==
  ASSUME DecoderTypeOK,
         \/ \E p \in Packet : avcodec_send_packet(p)
         \/ avcodec_receive_frame
         \/ Decode
         \/ UNCHANGED dvars
  PROVE  DecoderTypeOK'
<1> USE DEF DecoderTypeOK, Returns, Return
<1>1. CASE \E p \in Packet : avcodec_send_packet(p)
  BY <1>1 DEF avcodec_send_packet
<1>2. CASE avcodec_receive_frame
  BY <1>2 DEF avcodec_receive_frame
<1>3. ASSUME NEW p \in Packet, NEW k \in 1..Subframes, Consume(p, k)
      PROVE  /\ left' \in 0..Subframes - 1
             /\ inPkt' \in Packet \cup {None} /\ bsf' \in Packet \cup {None}
  BY <1>3, SubframeAssumption DEF Consume, InWork
<1>4. CASE DecodeStarved
  BY <1>4 DEF DecodeStarved, queues
<1>5. CASE DecodeFails
  <2>1. bsf' \in Packet \cup {None}
    BY <1>5 DEF DecodeFails, InWork
  <2> QED BY <1>5, <2>1, SubframeAssumption DEF DecodeFails
<1>6. CASE DecodeKeeps
  <2>1. PICK p \in Packet, k \in 1..Subframes :
            Consume(p, k) /\ inside' \in {inside, inside \cup {p}}
    BY <1>6 DEF DecodeKeeps
  <2> QED BY <1>3, <1>6, <2>1 DEF DecodeKeeps
<1>7. CASE DecodeYields
  <2>1. PICK p \in Packet, k \in 1..Subframes :
           /\ Consume(p, k)
           /\ \E f \in inside \cup {p} :
                 /\ inside' \in {inside \ {f}, (inside \cup {p}) \ {f}}
                 /\ \/ dpc = "send" /\ bufFrame' = f /\ UNCHANGED frame /\ Return("OK")
                    \/ dpc = "receive" /\ frame' = f /\ UNCHANGED bufFrame /\ Return("OK")
                    \/ dpc = "receive" /\ UNCHANGED <<frame, bufFrame>> /\ Return("ERROR")
    BY <1>7 DEF DecodeYields
  <2>2. inside' \subseteq Packet /\ bufFrame' \in Packet \cup {None}
        /\ frame' \in Packet \cup {None} /\ dpc' = "idle" /\ dret' \in Returns
    BY <2>1
  <2> QED BY <1>3, <2>1, <2>2
<1>8. CASE UNCHANGED dvars
  BY <1>8 DEF dvars, queues
<1> QED BY <1>1, <1>2, <1>4, <1>5, <1>6, <1>7, <1>8 DEF Decode

(* So do those of an encoder. *)
LEMMA EncoderType ==
  ASSUME EncoderTypeOK,
         \/ \E f \in Frame \cup {NoFrame}, size \in Sizes : avcodec_send_frame(f, size)
         \/ avcodec_receive_packet
         \/ Encode
         \/ UNCHANGED evars
         \/ out' = NoFrame /\ UNCHANGED <<epc, eret, pictures, lastShort>>
  PROVE  EncoderTypeOK'
<1> USE DEF EncoderTypeOK, pictures
<1>1. CASE \E f \in Frame \cup {NoFrame}, size \in Sizes : avcodec_send_frame(f, size)
  <2>1. lastShort' \in BOOLEAN
    BY <1>1 DEF avcodec_send_frame
  <2>2. epc' \in {"idle", "send", "receive"} /\ eret' \in {"OK", "EAGAIN", "ERROR"}
    BY <1>1 DEF avcodec_send_frame
  <2>3. encIn' \in Frame \cup {NoFrame} /\ UNCHANGED <<held, encOut, out>>
    BY <1>1 DEF avcodec_send_frame
  <2> QED BY <2>1, <2>2, <2>3
<1>2. CASE avcodec_receive_packet
  BY <1>2 DEF avcodec_receive_packet
<1>3. CASE EncodeStarved
  BY <1>3 DEF EncodeStarved
<1>4. CASE EncodeFails
  BY <1>4 DEF EncodeFails
<1>5. CASE EncodeKeeps
  BY <1>5 DEF EncodeKeeps
<1>6. CASE EncodeYields
  BY <1>6 DEF EncodeYields
<1>7. CASE UNCHANGED evars \/ (out' = NoFrame /\ UNCHANGED <<epc, eret, pictures, lastShort>>)
  BY <1>7 DEF evars
<1> QED BY <1>1, <1>2, <1>3, <1>4, <1>5, <1>6, <1>7 DEF Encode

(* Every step is a step of the decoder or leaves it, and likewise of the   *)
(* encoder and of the code between the two.                                *)
LEMMA StepParts ==
  ASSUME TranscodeTypeOK, [TranscodeNext]_tvars
  PROVE  /\ \/ \E p \in Packet : avcodec_send_packet(p)
            \/ avcodec_receive_frame
            \/ Decode
            \/ UNCHANGED dvars
         /\ \/ \E f \in Frame \cup {NoFrame}, size \in Sizes : avcodec_send_frame(f, size)
            \/ avcodec_receive_packet
            \/ Encode
            \/ UNCHANGED evars
            \/ out' = NoFrame /\ UNCHANGED <<epc, eret, pictures, lastShort>>
<1>1. CASE Begin
  <2>1. n + 1 \in Packet
    BY <1>1, PacketAssumption DEF Begin, TranscodeTypeOK, Packet
  <2> QED BY <1>1, <2>1 DEF Begin
<1>2. CASE SendRefused \/ remux \/ FramesEnd \/ EncodingFails
  BY <1>2 DEF SendRefused, remux, FramesEnd, EncodingFails
<1>3. CASE FirstFrame \/ FrameRefused \/ PacketsEnd
  BY <1>3 DEF FirstFrame, FrameRefused, PacketsEnd
<1>4. CASE FrameToEncoder
  <2>1. frame \in Frame \cup {NoFrame}
    BY StreamAssumption DEF TranscodeTypeOK, DecoderTypeOK
  <2> QED BY <1>4, <2>1 DEF FrameToEncoder
<1>5. CASE NextPacket
  BY <1>5 DEF NextPacket
<1>6. CASE DecoderWorks \/ EncoderWorks
  BY <1>6 DEF DecoderWorks, EncoderWorks
<1>7. CASE InputEnds \/ UNCHANGED tvars
  BY <1>7 DEF InputEnds, tvars
<1> QED BY <1>1, <1>2, <1>3, <1>4, <1>5, <1>6, <1>7 DEF TranscodeNext, Transcoding

LEMMA FlagKept == [TranscodeNext]_tvars => remuxVideo' = remuxVideo
  BY DEF TranscodeNext, Begin, Transcoding, InputEnds, tvars

(* The state of the codecs and of the calling code has its type throughout *)
(* (Transcode.c:302-369).                                                  *)
THEOREM TranscodeTypeCorrect == TranscodeSpec => []TranscodeTypeOK
<1>1. TranscodeInit => TranscodeTypeOK
  <2> SUFFICES ASSUME TranscodeInit PROVE TranscodeTypeOK
    OBVIOUS
  <2>1. DecoderTypeOK
    BY SubframeAssumption DEF TranscodeInit, DecoderInit, DecoderTypeOK, Returns
  <2>2. EncoderTypeOK
    BY DEF TranscodeInit, EncoderInit, EncoderTypeOK
  <2>3. n \in 0..MaxPackets /\ failures \in 0..2
    BY PacketAssumption DEF TranscodeInit
  <2>4. got \in Seq(Packet) /\ encoded \subseteq Packet \cup {None}
    BY DEF TranscodeInit
  <2>5. remuxVideo \in BOOLEAN /\ pc \in Points /\ ret \in Returns
    BY DEF TranscodeInit, Points, Returns
  <2> QED BY <2>1, <2>2, <2>3, <2>4, <2>5 DEF TranscodeTypeOK
<1>2. TranscodeTypeOK /\ [TranscodeNext]_tvars => TranscodeTypeOK'
  <2> SUFFICES ASSUME TranscodeTypeOK, [TranscodeNext]_tvars
               PROVE  TranscodeTypeOK'
    OBVIOUS
  <2>1. DecoderTypeOK' /\ EncoderTypeOK' /\ remuxVideo' \in BOOLEAN
    BY FlagKept, StepParts, DecoderType, EncoderType DEF TranscodeTypeOK
  <2>2. /\ dret \in Returns /\ n \in 0..MaxPackets /\ got \in Seq(Packet)
        /\ out \in Packet \cup {None} /\ failures \in 0..2
        /\ ret \in Returns /\ pc \in Points /\ encoded \subseteq Packet \cup {None}
    BY StreamAssumption DEF TranscodeTypeOK, DecoderTypeOK, EncoderTypeOK
  <2>3. /\ \A r : failures' = failures \/ Failed(r) => failures' \in 0..2
        /\ \A p \in Packet \cup {None} : Hand(p) => got' \in Seq(Packet)
    <3>1. ASSUME NEW r, Failed(r) PROVE failures' \in 0..2
      BY <2>2, <3>1 DEF Failed
    <3>2. ASSUME NEW p \in Packet \cup {None}, Hand(p) PROVE got' \in Seq(Packet)
      <4>1. got' = got \/ (p \in Packet /\ got' = Append(got, p))
        BY <3>2 DEF Hand
      <4>2. got \in Seq(Packet)
        BY <2>2
      <4> QED BY <4>1, <4>2
    <3> QED BY <2>2, <3>1, <3>2
  <2> USE DEF TranscodeTypeOK
  <2>4. CASE Begin
    BY <2>1, <2>2, <2>4, PacketAssumption DEF Begin, Points
  <2>5. CASE SendRefused
    BY <2>1, <2>2, <2>3, <2>5 DEF SendRefused, Leave, Points
  <2>6. CASE remux
    <3>1. n \in Packet \cup {None}
      BY <2>2, PacketAssumption DEF Packet
    <3> QED BY <2>1, <2>2, <2>3, <2>6, <3>1 DEF remux, Leave, Points, Returns
  <2>7. CASE FirstFrame
    BY <2>1, <2>2, <2>7 DEF FirstFrame, Points
  <2>8. CASE FramesEnd
    BY <2>1, <2>2, <2>3, <2>8 DEF FramesEnd, Leave, Points, Returns
  <2>9. CASE FrameToEncoder
    BY <2>1, <2>2, <2>9 DEF FrameToEncoder, Points
  <2>10. CASE FrameRefused
    BY <2>1, <2>2, <2>3, <2>10 DEF FrameRefused, Points
  <2>11. CASE NextPacket
    BY <2>1, <2>2, <2>11 DEF NextPacket, Points
  <2>12. CASE PacketsEnd
    BY <2>1, <2>2, <2>12 DEF PacketsEnd, Points
  <2>13. CASE EncodingFails
    BY <2>1, <2>2, <2>3, <2>13 DEF EncodingFails, Leave, Points, Returns
  <2>14. CASE DecoderWorks \/ EncoderWorks
    BY <2>1, <2>2, <2>14 DEF DecoderWorks, EncoderWorks
  <2>15. CASE InputEnds \/ UNCHANGED tvars
    BY <2>1, <2>2, <2>15 DEF InputEnds, tvars
  <2> QED BY <2>4, <2>5, <2>6, <2>7, <2>8, <2>9, <2>10, <2>11, <2>12, <2>13,
             <2>14, <2>15 DEF TranscodeNext, Transcoding
<1>3. QED
  BY <1>1, <1>2, PTL DEF TranscodeSpec

-----------------------------------------------------------------------------
(* Transcoding a video, a call leaves the decoder empty behind it: the     *)
(* receive loop goes on until the decoder has no packet and no frame, and  *)
(* a loop left early by a failure has found it empty as well.              *)
Drained ==
    /\ inPkt = None /\ left = 0
    /\ ret # "EAGAIN"
    /\ pc = "idle" => dpc = "idle" /\ bsf = None /\ bufFrame = None
    /\ pc = "sent" =>
          /\ dpc = "send" => bufFrame = None
          /\ dpc = "idle" => bsf = None /\ dret # "EAGAIN"
          /\ dpc = "idle" /\ dret = "ERROR" => bufFrame = None
          /\ dpc # "receive"
    /\ pc \in {"received", "fed", "drained"} =>
          bsf = None /\ bufFrame = None /\ dpc # "send"
    /\ pc \in {"fed", "drained"} => dpc = "idle"

DrainInv == TranscodeTypeOK /\ (~remuxVideo /\ Subframes = 1 => Drained)

(* The decoder of a video never stalls (Transcode.c:338-361). *)
THEOREM VideoIsDrained == TranscodeSpec => []VideoNeverStalls
<1>1. TranscodeInit /\ TranscodeTypeOK => DrainInv
  BY DEF TranscodeInit, DecoderInit, DrainInv, Drained
<1>2. DrainInv /\ [TranscodeNext]_tvars /\ TranscodeTypeOK' => DrainInv'
  <2> SUFFICES ASSUME TranscodeTypeOK, Drained, ~remuxVideo, Subframes = 1,
                      [TranscodeNext]_tvars, TranscodeTypeOK'
               PROVE  Drained'
    BY FlagKept DEF DrainInv
  <2> USE DEF Drained
  <2>0. /\ pc \in Points /\ dret \in Returns /\ n \in Nat
        /\ dpc \in {"idle", "send", "receive"}
    BY PacketAssumption DEF TranscodeTypeOK, DecoderTypeOK
  <2>1. CASE Begin
    BY <2>0, <2>1 DEF Begin, At, avcodec_send_packet
  <2>2. CASE SendRefused
    BY <2>0, <2>2 DEF SendRefused, At, Leave, dvars, queues, Returns
  <2>3. CASE remux
    BY <2>3 DEF remux
  <2>4. CASE FirstFrame
    BY <2>0, <2>4 DEF FirstFrame, At, avcodec_receive_frame
  <2>5. CASE FramesEnd
    BY <2>0, <2>5 DEF FramesEnd, At, Leave, dvars, queues, Returns
  <2>6. CASE FrameToEncoder
    BY <2>0, <2>6 DEF FrameToEncoder, At, dvars, queues
  <2>7. CASE FrameRefused
    BY <2>0, <2>7 DEF FrameRefused, At, avcodec_receive_frame
  <2>8. CASE NextPacket
    BY <2>0, <2>8 DEF NextPacket, At, dvars, queues
  <2>9. CASE PacketsEnd
    BY <2>0, <2>9 DEF PacketsEnd, At, avcodec_receive_frame
  <2>10. CASE EncodingFails
    BY <2>0, <2>10 DEF EncodingFails, At, Leave, dvars, queues
  <2>11. CASE DecoderWorks
    <3>1. ASSUME NEW p \in Packet, NEW k \in 1..Subframes, Consume(p, k)
          PROVE  inPkt' = None /\ left' = 0 /\ bsf # None /\ bsf' = None
      BY <3>1 DEF Consume, InWork
    <3>2. pc' = pc /\ ret' = ret /\ dpc # "idle"
      BY <2>11 DEF DecoderWorks, Decode, DecodeStarved, DecodeFails, DecodeKeeps,
                  DecodeYields
    <3>3. CASE DecodeStarved
      BY <2>0, <3>2, <3>3 DEF DecodeStarved, Return, queues, Points
    <3>4. CASE DecodeFails
      BY <2>0, <3>2, <3>4 DEF DecodeFails, InWork, Return, Points
    <3>5. CASE DecodeKeeps
      BY <2>0, <3>1, <3>2, <3>5 DEF DecodeKeeps, Points
    <3>6. CASE DecodeYields
      BY <2>0, <3>1, <3>2, <3>6 DEF DecodeYields, Return, Points
    <3> QED BY <2>11, <3>3, <3>4, <3>5, <3>6 DEF DecoderWorks, Decode
  <2>12. CASE EncoderWorks
    BY <2>12 DEF EncoderWorks, dvars, queues
  <2>13. CASE InputEnds \/ UNCHANGED tvars
    BY <2>13 DEF InputEnds, tvars, dvars, queues
  <2> QED BY <2>1, <2>2, <2>3, <2>4, <2>5, <2>6, <2>7, <2>8, <2>9, <2>10,
             <2>11, <2>12, <2>13 DEF TranscodeNext, Transcoding
<1>3. DrainInv => VideoNeverStalls
  BY DEF DrainInv, Drained, VideoNeverStalls, Stalled
<1>4. QED
  BY <1>1, <1>2, <1>3, TranscodeTypeCorrect, PTL DEF TranscodeSpec

-----------------------------------------------------------------------------
(* encode_video and encode_audio leave the encoder empty: nothing waits in *)
(* it when the next frame is decoded, and behind a frame just sent there   *)
(* is at most its own packet.                                              *)
EmptyInv ==
    /\ TranscodeTypeOK
    /\ pc \notin {"fed", "drained"} =>
          epc = "idle" /\ encIn = NoFrame /\ encOut = NoFrame
    /\ pc = "fed" =>
          /\ epc = "send" => encOut = NoFrame
          /\ epc = "idle" => encIn = NoFrame /\ eret # "EAGAIN"
          /\ epc = "idle" /\ eret = "ERROR" => encOut = NoFrame
          /\ epc # "receive"
    /\ pc = "drained" => epc # "send" /\ encIn = NoFrame /\ encOut = NoFrame

(* The encoder takes every frame that has the right size                   *)
(* (Transcode.c:181-198, 204-220).                                         *)
THEOREM EncoderIsDrained == TranscodeSpec => []EncoderAlwaysTakes
<1>1. TranscodeInit /\ TranscodeTypeOK => EmptyInv
  BY DEF TranscodeInit, EncoderInit, EmptyInv
<1>2. EmptyInv /\ [TranscodeNext]_tvars /\ TranscodeTypeOK' => EmptyInv'
  <2> SUFFICES ASSUME EmptyInv, [TranscodeNext]_tvars, TranscodeTypeOK'
               PROVE  EmptyInv'
    OBVIOUS
  <2> USE DEF EmptyInv
  <2>0. pc \in Points /\ epc \in {"idle", "send", "receive"}
        /\ eret \in {"OK", "EAGAIN", "ERROR"}
    BY DEF TranscodeTypeOK, EncoderTypeOK
  <2>1. CASE Begin
    BY <2>1 DEF Begin, At, evars, pictures
  <2>2. CASE SendRefused
    BY <2>2 DEF SendRefused, At, Leave, pictures
  <2>3. CASE remux
    BY <2>3 DEF remux, At, Leave, pictures
  <2>4. CASE FirstFrame
    BY <2>4 DEF FirstFrame, At, evars, pictures
  <2>5. CASE FramesEnd
    BY <2>5 DEF FramesEnd, At, Leave, pictures
  <2>6. CASE FrameToEncoder
    BY <2>6 DEF FrameToEncoder, At, avcodec_send_frame
  <2>7. CASE FrameRefused
    BY <2>0, <2>7 DEF FrameRefused, At, evars, pictures
  <2>8. CASE NextPacket
    BY <2>0, <2>8 DEF NextPacket, At, avcodec_receive_packet
  <2>9. CASE PacketsEnd
    BY <2>9 DEF PacketsEnd, At, evars, pictures
  <2>10. CASE EncodingFails
    BY <2>10 DEF EncodingFails, At, Leave, pictures
  <2>11. CASE DecoderWorks
    BY <2>11 DEF DecoderWorks, evars, pictures
  <2>12. CASE EncoderWorks
    <3>1. pc' = pc /\ epc # "idle"
      BY <2>12 DEF EncoderWorks, Encode, EncodeStarved, EncodeFails, EncodeKeeps,
                  EncodeYields
    <3>2. CASE EncodeStarved
      BY <2>0, <3>1, <3>2 DEF EncodeStarved, pictures
    <3>3. CASE EncodeFails
      BY <2>0, <3>1, <3>3 DEF EncodeFails
    <3>4. CASE EncodeKeeps
      BY <2>0, <3>1, <3>4 DEF EncodeKeeps
    <3>5. CASE EncodeYields
      BY <2>0, <3>1, <3>5 DEF EncodeYields
    <3> QED BY <2>12, <3>2, <3>3, <3>4, <3>5 DEF EncoderWorks, Encode
  <2>13. CASE InputEnds \/ UNCHANGED tvars
    BY <2>13 DEF InputEnds, tvars, evars, pictures
  <2> QED BY <2>1, <2>2, <2>3, <2>4, <2>5, <2>6, <2>7, <2>8, <2>9, <2>10,
             <2>11, <2>12, <2>13 DEF TranscodeNext, Transcoding
<1>3. EmptyInv => EncoderAlwaysTakes
  BY DEF EmptyInv, EncoderAlwaysTakes, At
<1>4. QED
  BY <1>1, <1>2, <1>3, TranscodeTypeCorrect, PTL DEF TranscodeSpec

-----------------------------------------------------------------------------
(* Between two calls neither codec is at work, and until the decoder was   *)
(* read nothing lies in the output packet.                                 *)
RestInv ==
    /\ TranscodeTypeOK
    /\ pc = "idle" => dpc = "idle" /\ epc = "idle"
    /\ pc \in {"idle", "sent"} => epc = "idle" /\ out = NoFrame

LEMMA RestAlways == TranscodeSpec => []RestInv
<1>1. TranscodeInit /\ TranscodeTypeOK => RestInv
  BY DEF TranscodeInit, DecoderInit, EncoderInit, RestInv
<1>2. RestInv /\ [TranscodeNext]_tvars /\ TranscodeTypeOK' => RestInv'
  <2> SUFFICES ASSUME RestInv, [TranscodeNext]_tvars, TranscodeTypeOK'
               PROVE  RestInv'
    OBVIOUS
  <2> USE DEF RestInv
  <2>1. CASE Begin
    BY <2>1 DEF Begin, At, evars
  <2>2. CASE SendRefused \/ remux \/ FramesEnd \/ EncodingFails
    BY <2>2 DEF SendRefused, remux, FramesEnd, EncodingFails, At, dvars
  <2>3. CASE FirstFrame \/ FrameRefused \/ PacketsEnd
    BY <2>3 DEF FirstFrame, FrameRefused, PacketsEnd
  <2>4. CASE FrameToEncoder \/ NextPacket
    BY <2>4 DEF FrameToEncoder, NextPacket
  <2>5. CASE DecoderWorks
    BY <2>5 DEF DecoderWorks, Decode, DecodeStarved, DecodeFails, DecodeKeeps,
               DecodeYields, evars
  <2>6. CASE EncoderWorks
    BY <2>6 DEF EncoderWorks, Encode, EncodeStarved, EncodeFails, EncodeKeeps,
               EncodeYields
  <2>7. CASE InputEnds \/ UNCHANGED tvars
    BY <2>7 DEF InputEnds, tvars, dvars, evars
  <2> QED BY <2>1, <2>2, <2>3, <2>4, <2>5, <2>6, <2>7
          DEF TranscodeNext, Transcoding
<1>3. QED
  BY <1>1, <1>2, TranscodeTypeCorrect, PTL DEF TranscodeSpec

(* What has stalled stays so, whatever the caller does (Transcode.c:304,   *)
(* 338): a decoder whose filter is full is not read any more.              *)
THEOREM StalledForGood == TranscodeSpec => StallIsForever
<1>1. RestInv /\ [TranscodeNext]_tvars => [Stuck => Stuck' /\ got' = got]_tvars
  <2> SUFFICES ASSUME RestInv, TranscodeNext, Stuck
               PROVE  Stuck' /\ got' = got
    BY DEF RestInv
  <2> USE DEF RestInv, Stuck, At
  <2>1. CASE Begin
    BY <2>1 DEF Begin, avcodec_send_packet, evars
  <2>2. CASE SendRefused
    BY <2>2 DEF SendRefused, Leave, Hand, dvars, queues
  <2>3. CASE InputEnds
    BY <2>3 DEF InputEnds, tvars, dvars, queues, evars
  <2>4. ASSUME remux \/ FirstFrame \/ FramesEnd \/ FrameToEncoder \/ FrameRefused
               \/ NextPacket \/ PacketsEnd \/ EncodingFails
        PROVE  FALSE
    BY <2>4 DEF remux, FirstFrame, FramesEnd, FrameToEncoder, FrameRefused,
               NextPacket, PacketsEnd, EncodingFails
  <2>5. ASSUME DecoderWorks \/ EncoderWorks
        PROVE  FALSE
    BY <2>5 DEF DecoderWorks, Decode, DecodeStarved, DecodeFails, DecodeKeeps,
               DecodeYields, EncoderWorks, Encode, EncodeStarved, EncodeFails,
               EncodeKeeps, EncodeYields
  <2> QED BY <2>1, <2>2, <2>3, <2>4, <2>5 DEF TranscodeNext, Transcoding
<1>2. QED
  BY <1>1, RestAlways, PTL DEF TranscodeSpec, StallIsForever

-----------------------------------------------------------------------------
(* What a call may leave in a decoder that is drained: after one failure   *)
(* part of a packet, after two a packet behind it in the filter.           *)
LeftBehind ==
    /\ pc = "idle" =>
          /\ dpc = "idle" /\ bufFrame = None
          /\ failures = 0 => inPkt = None
          /\ failures # 2 => bsf = None
    /\ pc = "sent" =>
          /\ dpc # "receive"
          /\ dpc = "send" => bufFrame = None /\ (failures = 0 => inPkt = None \/ bsf = None)
          /\ dpc = "idle" /\ dret # "OK" => bufFrame = None
          /\ dpc = "idle" /\ dret = "EAGAIN" => failures = 2
          /\ dpc = "idle" /\ failures = 0 => bsf = None /\ (dret = "ERROR" => inPkt = None)
    /\ pc \in {"received", "fed", "drained"} =>
          /\ dpc # "send" /\ bufFrame = None
          /\ failures = 0 => bsf = None
          /\ dpc = "idle" /\ dret = "EAGAIN" => inPkt = None /\ bsf = None
    /\ pc \in {"fed", "drained"} => dpc = "idle" /\ dret = "OK"

LeftInv == ~remuxVideo => LeftBehind

(* What the loop of a decoder does with the packets in it. *)
LEMMA DecodeQueues ==
  ASSUME Decode
  PROVE  /\ dpc # "idle" /\ bsf' \in {bsf, None}
         /\ \/ DecodeStarved
            \/ dpc' = "idle" /\ dret' = "ERROR" /\ inPkt' = None
                  /\ UNCHANGED <<bufFrame, frame>> /\ (inPkt = None => bsf' = None)
            \/ /\ inPkt = None => bsf' = None
               /\ \/ UNCHANGED <<dpc, dret, bufFrame, frame>>
                  \/ dpc' = "idle" /\ dpc = "send" /\ dret' = "OK" /\ bufFrame' \in inside \cup Packet
                  \/ dpc' = "idle" /\ dpc = "receive" /\ dret' \in {"OK", "ERROR"} /\ UNCHANGED bufFrame
<1>1. ASSUME NEW p \in Packet, NEW k \in 1..Subframes, InWork(p, k)
      PROVE  bsf' \in {bsf, None} /\ (inPkt = None => bsf' = None)
  BY <1>1 DEF InWork
<1>2. CASE DecodeStarved
  BY <1>2 DEF DecodeStarved, queues
<1>3. CASE DecodeFails
  BY <1>1, <1>3 DEF DecodeFails, Return
<1>4. CASE DecodeKeeps
  BY <1>1, <1>4 DEF DecodeKeeps, Consume
<1>5. CASE DecodeYields
  <2>1. PICK p \in Packet, k \in 1..Subframes :
           /\ Consume(p, k)
           /\ \E f \in inside \cup {p} :
                 /\ inside' \in {inside \ {f}, (inside \cup {p}) \ {f}}
                 /\ \/ dpc = "send" /\ bufFrame' = f /\ UNCHANGED frame /\ Return("OK")
                    \/ dpc = "receive" /\ frame' = f /\ UNCHANGED bufFrame /\ Return("OK")
                    \/ dpc = "receive" /\ UNCHANGED <<frame, bufFrame>> /\ Return("ERROR")
    BY <1>5 DEF DecodeYields
  <2>2. bsf' \in {bsf, None} /\ (inPkt = None => bsf' = None)
    BY <1>1, <2>1 DEF Consume
  <2>3. dpc # "idle"
    BY <1>5 DEF DecodeYields
  <2> QED BY <2>1, <2>2, <2>3 DEF Return
<1> QED BY <1>2, <1>3, <1>4, <1>5 DEF Decode

(* A call that has failed is counted. *)
LEMMA FailureCounted ==
  ASSUME failures \in 0..2, NEW r, Failed(r)
  PROVE  /\ failures' \in 0..2
         /\ r = "ERROR" => failures' # 0 /\ (failures # 0 => failures' = 2)
         /\ r # "ERROR" => failures' = failures
         /\ failures # 0 => failures' # 0
         /\ failures = 2 => failures' = 2
BY DEF Failed

LEMMA LeftInvStep ==
  ASSUME TranscodeTypeOK, LeftInv, [TranscodeNext]_tvars
  PROVE  LeftInv'
<1> SUFFICES ASSUME ~remuxVideo, LeftBehind PROVE LeftBehind'
  BY FlagKept DEF LeftInv
<1> USE DEF LeftBehind
<1>0. /\ pc \in Points /\ dret \in Returns /\ failures \in 0..2 /\ n \in Nat
      /\ dpc \in {"idle", "send", "receive"}
  BY PacketAssumption DEF TranscodeTypeOK, DecoderTypeOK
<1>1. CASE Begin
  <2>1. /\ pc = "idle" /\ dpc = "idle" /\ pc' = "sent"
        /\ UNCHANGED <<inPkt, bufFrame, failures>>
        /\ \/ bsf # None /\ dret' = "EAGAIN" /\ UNCHANGED <<dpc, bsf>>
           \/ bsf = None /\ dpc' = "send"
    BY <1>1 DEF Begin, At, avcodec_send_packet
  <2> QED BY <1>0, <2>1
<1>2. CASE SendRefused
  <2>1. /\ pc = "sent" /\ dpc = "idle" /\ dret # "OK" /\ pc' = "idle"
        /\ UNCHANGED <<dpc, dret, bsf, inPkt, bufFrame>>
    BY <1>2 DEF SendRefused, At, Leave, dvars, queues
  <2>2. Failed(dret)
    BY <1>2 DEF SendRefused
  <2> QED BY <1>0, <2>1, <2>2, FailureCounted DEF Returns
<1>3. CASE remux
  BY <1>3 DEF remux
<1>4. CASE FirstFrame
  <2>1. /\ pc = "sent" /\ dpc = "idle" /\ dret = "OK" /\ pc' = "received"
        /\ UNCHANGED <<bsf, inPkt, failures>> /\ bufFrame' = None
        /\ \/ dpc' = "idle" /\ dret' \in {"OK", "ERROR"}
           \/ dpc' = "receive"
    BY <1>4 DEF FirstFrame, At, avcodec_receive_frame
  <2> QED BY <1>0, <2>1
<1>5. CASE FramesEnd
  <2>1. /\ pc = "received" /\ dpc = "idle" /\ dret # "OK" /\ pc' = "idle"
        /\ UNCHANGED <<dpc, dret, bsf, inPkt, bufFrame>>
    BY <1>5 DEF FramesEnd, At, Leave, dvars, queues
  <2>2. Failed(dret)
    BY <1>5 DEF FramesEnd
  <2> QED BY <1>0, <2>1, <2>2, FailureCounted DEF Returns
<1>6. CASE FrameToEncoder
  <2>1. /\ pc = "received" /\ dpc = "idle" /\ dret = "OK" /\ pc' = "fed"
        /\ UNCHANGED <<dpc, dret, bsf, inPkt, bufFrame, failures>>
    BY <1>6 DEF FrameToEncoder, At, dvars, queues
  <2> QED BY <1>0, <2>1
<1>7. CASE FrameRefused
  <2>1. /\ pc = "fed" /\ dpc = "idle" /\ pc' = "received" /\ dret = "OK"
        /\ UNCHANGED <<bsf, inPkt, bufFrame>> /\ dpc' = "receive"
    BY <1>7 DEF FrameRefused, At, avcodec_receive_frame
  <2>2. Failed(eret)
    BY <1>7 DEF FrameRefused
  <2> QED BY <1>0, <2>1, <2>2, FailureCounted
<1>8. CASE NextPacket
  <2>1. /\ pc \in {"fed", "drained"} /\ pc' = "drained"
        /\ UNCHANGED <<dpc, dret, bsf, inPkt, bufFrame, failures>>
    BY <1>8 DEF NextPacket, At, dvars, queues
  <2> QED BY <1>0, <2>1
<1>9. CASE PacketsEnd
  <2>1. /\ pc = "drained" /\ dpc = "idle" /\ pc' = "received" /\ dret = "OK"
        /\ UNCHANGED <<bsf, inPkt, bufFrame, failures>> /\ dpc' = "receive"
    BY <1>9 DEF PacketsEnd, At, avcodec_receive_frame
  <2> QED BY <1>0, <2>1
<1>10. CASE EncodingFails
  <2>1. /\ pc = "drained" /\ dpc = "idle" /\ pc' = "idle"
        /\ UNCHANGED <<dpc, dret, bsf, inPkt, bufFrame>>
    BY <1>10 DEF EncodingFails, At, Leave, dvars, queues
  <2>2. Failed("ERROR")
    BY <1>10 DEF EncodingFails
  <2> QED BY <1>0, <2>1, <2>2, FailureCounted
<1>11. CASE DecoderWorks
  <2>1. Decode /\ UNCHANGED <<pc, failures>>
    BY <1>11 DEF DecoderWorks
  <2>2. dpc # "idle" /\ bsf' \in {bsf, None} /\ pc \notin {"idle", "fed", "drained"}
    BY <1>0, <2>1, DecodeQueues
  <2>3. CASE DecodeStarved
    <3>1. /\ inPkt = None /\ bsf = None /\ UNCHANGED <<inPkt, bsf, bufFrame>> /\ dpc' = "idle"
          /\ dret' = (IF dpc = "send" THEN "OK" ELSE "EAGAIN")
      BY <2>3 DEF DecodeStarved, Return, queues
    <3> QED BY <1>0, <2>1, <2>2, <3>1 DEF Points
  <2>4. ASSUME dpc' = "idle", dret' = "ERROR", inPkt' = None, UNCHANGED bufFrame,
               inPkt = None => bsf' = None
        PROVE  LeftBehind'
    BY <1>0, <2>1, <2>2, <2>4 DEF Points
  <2>5. ASSUME inPkt = None => bsf' = None, UNCHANGED <<dpc, dret, bufFrame>>
        PROVE  LeftBehind'
    BY <1>0, <2>1, <2>2, <2>5 DEF Points
  <2>6. ASSUME inPkt = None => bsf' = None, dpc' = "idle", dpc = "send", dret' = "OK"
        PROVE  LeftBehind'
    BY <1>0, <2>1, <2>2, <2>6 DEF Points
  <2>7. ASSUME dpc' = "idle", dpc = "receive", dret' \in {"OK", "ERROR"}, UNCHANGED bufFrame
        PROVE  LeftBehind'
    BY <1>0, <2>1, <2>2, <2>7 DEF Points
  <2> QED BY <2>1, <2>3, <2>4, <2>5, <2>6, <2>7, DecodeQueues
<1>12. CASE EncoderWorks
  <2>1. UNCHANGED <<pc, dpc, dret, bsf, inPkt, bufFrame, failures>>
    BY <1>12 DEF EncoderWorks, dvars, queues
  <2> QED BY <2>1
<1>13. CASE InputEnds \/ UNCHANGED tvars
  <2>1. UNCHANGED <<pc, dpc, dret, bsf, inPkt, bufFrame, failures>>
    BY <1>13 DEF InputEnds, tvars, dvars, queues
  <2> QED BY <2>1
<1> QED BY <1>1, <1>2, <1>3, <1>4, <1>5, <1>6, <1>7, <1>8, <1>9, <1>10,
           <1>11, <1>12, <1>13 DEF TranscodeNext, Transcoding

(* The decoder of an audio stream stalls only after two calls of the       *)
(* library have failed: one that left part of a packet in it, and one that *)
(* left the next packet behind it (Transcode.c:312-326).                   *)
THEOREM StallTakesTwoFailures == TranscodeSpec => []StallNeedsTwoFailures
<1>1. TranscodeInit => LeftInv
  BY DEF TranscodeInit, DecoderInit, LeftInv, LeftBehind
<1>2. TranscodeTypeOK /\ LeftInv /\ [TranscodeNext]_tvars => LeftInv'
  BY LeftInvStep
<1>3. TranscodeTypeOK /\ LeftInv /\ VideoNeverStalls => StallNeedsTwoFailures
  <2> SUFFICES ASSUME TranscodeTypeOK, LeftInv, VideoNeverStalls, ~remuxVideo, Stalled
               PROVE  Subframes > 1 /\ failures = 2
    BY DEF StallNeedsTwoFailures
  <2>1. Subframes # 1
    BY DEF VideoNeverStalls
  <2>2. failures = 2
    BY DEF LeftInv, LeftBehind, Stalled
  <2> QED BY <2>1, <2>2, SubframeAssumption
<1> QED BY <1>1, <1>2, <1>3, TranscodeTypeCorrect, VideoIsDrained, PTL DEF TranscodeSpec

-----------------------------------------------------------------------------
(* Remuxing, the decoder is never read: what lies in its filter is the     *)
(* last packet the caller got, behind the first frame.                     *)
FirstStays ==
    /\ pc \in {"idle", "sent"} /\ dpc # "receive"
    /\ pc = "idle" => dpc = "idle"
    /\ dpc = "send" => bufFrame = None /\ (bsf = None \/ (bsf = n /\ inPkt = None))
    /\ dpc = "idle" /\ bufFrame = None => inPkt = None /\ bsf = None
    /\ At("sent") /\ dret = "OK" /\ bsf # None => bsf = n
    /\ At("sent") /\ dret = "ERROR" => bufFrame = None
    /\ Stuck => got # <<>> /\ got[Len(got)] = bsf

FirstInv == remuxVideo => FirstStays

LEMMA FirstInvStep ==
  ASSUME TranscodeTypeOK, RestInv, FirstInv, [TranscodeNext]_tvars
  PROVE  FirstInv'
<1> SUFFICES ASSUME remuxVideo, FirstStays PROVE FirstStays'
  BY FlagKept DEF FirstInv
<1> USE DEF FirstStays
<1>0. /\ dret \in Returns /\ n \in Nat /\ got \in Seq(Packet) /\ epc = "idle" /\ out = NoFrame
      /\ n # None => n \in Packet
      /\ dpc \in {"idle", "send", "receive"}
  BY PacketAssumption DEF TranscodeTypeOK, DecoderTypeOK, RestInv, Packet
<1>1. CASE Begin
  <2>1. /\ pc = "idle" /\ dpc = "idle" /\ pc' = "sent" /\ n' = n + 1 /\ epc' = "idle"
        /\ UNCHANGED <<inPkt, bufFrame, got>>
        /\ \/ bsf # None /\ dret' = "EAGAIN" /\ UNCHANGED <<dpc, bsf>>
           \/ bsf = None /\ bsf' = n + 1 /\ bufFrame = None /\ dpc' = "send"
           \/ bsf = None /\ bsf' = n + 1 /\ bufFrame # None /\ dpc' = "idle" /\ dret' = "OK"
    BY <1>0, <1>1 DEF Begin, At, avcodec_send_packet, evars
  <2> QED BY <1>0, <2>1 DEF Stuck, At
<1>2. CASE SendRefused
  <2>1. /\ pc = "sent" /\ dpc = "idle" /\ dret # "OK" /\ pc' = "idle"
        /\ UNCHANGED <<dpc, dret, bsf, inPkt, bufFrame, got, n>>
    BY <1>0, <1>2 DEF SendRefused, At, Leave, Hand, dvars, queues
  <2>2. bsf # None => Stuck
    <3>1. bsf # None => dret = "EAGAIN"
      BY <1>0, <2>1 DEF Returns, At
    <3> QED BY <1>0, <2>1, <3>1 DEF Stuck, At
  <2> QED BY <2>1, <2>2 DEF Stuck, At
<1>3. CASE remux
  <2>1. /\ pc = "sent" /\ dpc = "idle" /\ dret = "OK" /\ pc' = "idle" /\ Hand(n)
        /\ UNCHANGED <<dpc, dret, bsf, inPkt, bufFrame, n>>
    BY <1>3 DEF remux, At, Leave, dvars, queues
  <2>2. bsf # None => bsf = n
    BY <1>0, <2>1 DEF At
  <2>3. ASSUME bsf # None PROVE got' # <<>> /\ got'[Len(got')] = bsf'
    <3>1. n \in Packet /\ got' = Append(got, n)
      BY <1>0, <2>1, <2>2, <2>3 DEF Hand
    <3>2. Append(got, n) # <<>> /\ Append(got, n)[Len(Append(got, n))] = n
      BY <1>0, <3>1
    <3> QED BY <2>1, <2>2, <2>3, <3>1, <3>2
  <2> QED BY <2>1, <2>3 DEF Stuck, At
<1>4. CASE FirstFrame
  BY <1>4 DEF FirstFrame
<1>5. CASE FramesEnd \/ FrameToEncoder \/ FrameRefused \/ NextPacket \/ PacketsEnd \/ EncodingFails
  BY <1>5 DEF FramesEnd, FrameToEncoder, FrameRefused, NextPacket, PacketsEnd, EncodingFails, At
<1>6. CASE DecoderWorks
  <2>1. Decode /\ UNCHANGED <<pc, got, n, epc>>
    BY <1>6 DEF DecoderWorks, evars
  <2>2. dpc = "send" /\ pc = "sent" /\ bufFrame = None /\ (bsf = None \/ (bsf = n /\ inPkt = None))
        /\ bsf' \in {bsf, None}
    BY <1>0, <2>1, DecodeQueues
  <2>3. CASE DecodeStarved
    BY <2>1, <2>2, <2>3 DEF DecodeStarved, Return, queues, Stuck, At
  <2>4. CASE ~DecodeStarved
    <3>1. bsf' = None
      BY <2>1, <2>2, <2>4, DecodeQueues
    <3>2. \/ dpc' = "idle" /\ dret' = "ERROR" /\ inPkt' = None
          \/ UNCHANGED <<dpc, dret, bufFrame>>
          \/ dpc' = "idle" /\ dret' = "OK" /\ bufFrame' \in inside \cup Packet
      BY <2>1, <2>2, <2>4, DecodeQueues
    <3>3. \A f \in inside \cup Packet : f # None
      BY DEF TranscodeTypeOK, DecoderTypeOK, Packet
    <3>4. dpc' = "idle" /\ dret' = "ERROR" => inPkt' = None /\ bufFrame' = None
      BY <2>1, <2>2, <2>4, DecodeQueues
    <3>5. dpc' = "idle" /\ dret' # "ERROR" => bufFrame' # None
      BY <2>2, <3>2, <3>3
    <3>6. dpc' \in {"idle", "send"} /\ (dpc' = "send" => bufFrame' = None)
      BY <2>2, <3>2
    <3> QED BY <2>1, <2>2, <3>1, <3>4, <3>5, <3>6 DEF Stuck, At
  <2> QED BY <2>3, <2>4
<1>7. CASE EncoderWorks
  BY <1>0, <1>7 DEF EncoderWorks, Encode, EncodeStarved, EncodeFails, EncodeKeeps, EncodeYields
<1>8. CASE InputEnds \/ UNCHANGED tvars
  BY <1>8 DEF InputEnds, tvars, dvars, queues, evars, Stuck, At
<1> QED BY <1>1, <1>2, <1>3, <1>4, <1>5, <1>6, <1>7, <1>8 DEF TranscodeNext, Transcoding

(* Remuxing stalls behind the first frame, with the packet the caller got  *)
(* last (Transcode.c:338-347, 363-366).                                    *)
THEOREM RemuxAlwaysStops == TranscodeSpec => []RemuxStopsAtFirstFrame
<1>1. TranscodeInit => FirstInv
  BY DEF TranscodeInit, DecoderInit, FirstInv, FirstStays, Stuck, At
<1>2. TranscodeTypeOK /\ RestInv /\ FirstInv /\ [TranscodeNext]_tvars => FirstInv'
  BY FirstInvStep
<1>3. FirstInv => RemuxStopsAtFirstFrame
  BY DEF FirstInv, FirstStays, RemuxStopsAtFirstFrame, Stalled, Stuck
<1> QED BY <1>1, <1>2, <1>3, TranscodeTypeCorrect, RestAlways, PTL DEF TranscodeSpec
=============================================================================
