------------------------ MODULE DecoderClientProofs ------------------------
(***************************************************************************)
(* What a decoder promises a client that calls it in any order, for every  *)
(* number of packets, of pieces of a packet and of pictures kept.          *)
(***************************************************************************)
EXTENDS DecoderClient, SequenceTheorems, FiniteSetTheorems, TLAPS

USE DEF None

(* The type invariant, with what holds while a call decodes: it is the     *)
(* call made last, and no frame was decoded ahead.                         *)
CallInv ==
    /\ ClientTypeOK
    /\ left = 0 <=> inPkt = None
    /\ dpc # "idle" => call = dpc /\ bufFrame = None
    /\ dpc = "receive" => frame = None

LEMMA CallInvInit == ClientInit => CallInv
BY PacketAssumption, SubframeAssumption
   DEF ClientInit, DecoderInit, CallInv, ClientTypeOK, DecoderTypeOK, Returns

(* The packet in work and the pieces it has left. *)
LEMMA InWorkIs ==
  ASSUME CallInv, NEW p \in Packet, NEW n \in 1..Subframes, InWork(p, n)
  PROVE  /\ p = inPkt \/ (inPkt = None /\ p = bsf)
         /\ p = inPkt => n = left /\ bsf' = bsf
         /\ p # inPkt => bsf' = None
         /\ bsf' \in {bsf, None} /\ p # None
BY DEF InWork, Packet

LEMMA ConsumeIs ==
  ASSUME CallInv, NEW p \in Packet, NEW n \in 1..Subframes, Consume(p, n)
  PROVE  /\ inPkt' \in {None, p} /\ left' = n - 1 /\ left' \in 0..Subframes - 1
         /\ left' = 0 <=> inPkt' = None
         /\ bsf' \in Packet \cup {None}
<1>1. InWork(p, n) /\ inPkt' = (IF n = 1 THEN None ELSE p) /\ left' = n - 1
  BY DEF Consume
<1>2. bsf' \in Packet \cup {None} /\ p # None
  BY <1>1, InWorkIs DEF CallInv, ClientTypeOK, DecoderTypeOK
<1> QED BY <1>1, <1>2, SubframeAssumption

(* A piece of p, one of the n left, yields the frame f. *)
Yields(p, n, f) ==
    /\ Consume(p, n) /\ f \in inside \cup {p}
    /\ inside' \in {inside \ {f}, (inside \cup {p}) \ {f}}
    /\ \/ dpc = "send" /\ bufFrame' = f /\ UNCHANGED frame /\ Return("OK")
       \/ dpc = "receive" /\ frame' = f /\ UNCHANGED bufFrame /\ Return("OK")
       \/ dpc = "receive" /\ UNCHANGED <<frame, bufFrame>> /\ Return("ERROR")

LEMMA YieldsIs == DecodeYields => \E p \in Packet, n \in 1..Subframes : \E f : Yields(p, n, f)
BY DEF DecodeYields, Yields

LEMMA CallInvStep == CallInv /\ [ClientNext]_cvars => CallInv'
<1> SUFFICES ASSUME CallInv, [ClientNext]_cvars PROVE CallInv'
  OBVIOUS
<1> USE DEF ClientTypeOK, DecoderTypeOK, Returns
<1>1. CASE Send
  <2>1. sent + 1 \in Packet /\ sent' \in 0..MaxPackets
    BY <1>1, PacketAssumption DEF Send, CallInv, Packet
  <2>2. /\ dpc = "idle" /\ UNCHANGED <<inPkt, left, inside, bufFrame, frame, frames>>
        /\ bsf' \in Packet \cup {None} /\ dret' \in Returns
        /\ dpc' \in {"idle", "send"} /\ (dpc' = "send" => bufFrame = None)
    BY <1>1, <2>1 DEF Send, avcodec_send_packet, CallInv
  <2>3. call' = "send" /\ before' = [call |-> call, ret |-> dret]
    BY <1>1 DEF Send, Calls
  <2> QED BY <2>1, <2>2, <2>3 DEF CallInv
<1>2. CASE Receive
  <2>1. /\ dpc = "idle" /\ UNCHANGED <<bsf, inPkt, left, inside, sent>>
        /\ call' = "receive" /\ before' = [call |-> call, ret |-> dret]
        /\ Got
    BY <1>2 DEF Receive, avcodec_receive_frame, Calls
  <2>2. /\ bufFrame' \in Packet \cup {None} /\ frame' \in Packet \cup {None} /\ dret' \in Returns
        /\ dpc' \in {"idle", "receive"}
        /\ dpc' = "receive" => bufFrame' = None /\ frame' = None
    BY <1>2 DEF Receive, avcodec_receive_frame, CallInv
  <2>3. frames' \in Seq(Packet)
    BY <2>1, <2>2 DEF Got, CallInv
  <2> QED BY <2>1, <2>2, <2>3 DEF CallInv
<1>3. CASE Decoding
  <2>1. dpc # "idle" /\ UNCHANGED <<sent, call, before>>
    BY <1>3 DEF Decoding, Decode, DecodeStarved, DecodeFails, DecodeKeeps, DecodeYields
  <2>2. ASSUME frame' \in Packet \cup {None} PROVE frames' \in Seq(Packet)
    BY <1>3, <2>2 DEF Decoding, Got, CallInv
  <2>3. CASE DecodeStarved
    BY <2>1, <2>2, <2>3 DEF DecodeStarved, Return, queues, CallInv
  <2>4. CASE DecodeFails
    <3>1. /\ inPkt' = None /\ left' = 0 /\ dpc' = "idle" /\ dret' = "ERROR"
          /\ UNCHANGED <<inside, bufFrame, frame>>
      BY <2>4 DEF DecodeFails, Return
    <3>2. bsf' \in Packet \cup {None}
      BY <2>4, InWorkIs DEF DecodeFails, CallInv
    <3> QED BY <2>1, <2>2, <3>1, <3>2, SubframeAssumption DEF CallInv
  <2>5. CASE DecodeKeeps
    <3> PICK p \in Packet, n \in 1..Subframes :
             Consume(p, n) /\ inside' \in {inside, inside \cup {p}}
      BY <2>5 DEF DecodeKeeps
    <3>1. UNCHANGED <<dpc, dret, bufFrame, frame>>
      BY <2>5 DEF DecodeKeeps
    <3> QED BY <2>1, <2>2, <3>1, ConsumeIs DEF CallInv
  <2>6. CASE DecodeYields
    <3> PICK p \in Packet, n \in 1..Subframes : \E f : Yields(p, n, f)
      BY <2>6, YieldsIs
    <3> PICK f : Yields(p, n, f)
      OBVIOUS
    <3> USE DEF Yields
    <3>1. /\ inside' \subseteq Packet /\ dpc' = "idle" /\ dret' \in Returns
          /\ bufFrame' \in Packet \cup {None} /\ frame' \in Packet \cup {None}
      BY DEF Return, CallInv
    <3> QED BY <2>1, <2>2, <3>1, ConsumeIs DEF CallInv
  <2> QED BY <1>3, <2>3, <2>4, <2>5, <2>6 DEF Decoding, Decode
<1>4. CASE UNCHANGED cvars
  BY <1>4 DEF cvars, dvars, queues, CallInv
<1> QED BY <1>1, <1>2, <1>3, <1>4 DEF ClientNext

LEMMA CallAlways == ClientSpec => []CallInv
<1> QED BY CallInvInit, CallInvStep, PTL DEF ClientSpec
-----------------------------------------------------------------------------
(* A receive that found no frame has left nothing in the filter. *)
AgainInv ==
    /\ ReceiveAgainMeansSend
    /\ Answered /\ call = "receive" /\ dret = "EAGAIN" => bsf = None

(* A decoder that has no frame takes the next packet: a send after a       *)
(* receive that returned EAGAIN does not return EAGAIN (avcodec.h:154-157, *)
(* decode.c:607-641, bsf.c:220).                                           *)
THEOREM ReceiveAgainAlwaysMeansSend == ClientSpec => []ReceiveAgainMeansSend
<1> USE DEF AgainInv, ReceiveAgainMeansSend, Answered
<1>1. ClientInit => AgainInv
  BY DEF ClientInit, DecoderInit
<1>2. ASSUME CallInv, AgainInv, [ClientNext]_cvars PROVE AgainInv'
  <2>1. CASE Send
    BY <1>2, <2>1 DEF Send, avcodec_send_packet, Calls
  <2>2. CASE Receive
    BY <2>2 DEF Receive, avcodec_receive_frame, Calls
  <2>3. CASE Decoding
    <3>1. UNCHANGED <<call, before>> /\ dpc # "idle" /\ call = dpc
      BY <1>2, <2>3 DEF Decoding, Decode, DecodeStarved, DecodeFails, DecodeKeeps,
         DecodeYields, CallInv
    <3>2. CASE DecodeStarved
      BY <3>1, <3>2 DEF DecodeStarved, Return, queues
    <3>3. CASE DecodeKeeps
      BY <3>1, <3>3 DEF DecodeKeeps
    <3>4. CASE DecodeFails \/ DecodeYields
      <4>1. dret' # "EAGAIN"
        BY <3>4 DEF DecodeFails, DecodeYields, Return
      <4> QED BY <3>1, <4>1
    <3> QED BY <2>3, <3>2, <3>3, <3>4 DEF Decoding, Decode
  <2>4. CASE UNCHANGED cvars
    BY <1>2, <2>4 DEF cvars, dvars, queues
  <2> QED BY <1>2, <2>1, <2>2, <2>3, <2>4 DEF ClientNext
<1>3. AgainInv => ReceiveAgainMeansSend
  OBVIOUS
<1> QED BY <1>1, <1>2, <1>3, CallAlways, PTL DEF ClientSpec
-----------------------------------------------------------------------------
(* Everything in the decoder was sent, and what is behind the filter       *)
(* before the packet in it.                                                *)
TurnInv ==
    /\ PacketsWaitInTurn
    /\ inPkt <= sent /\ bufFrame <= sent /\ frame <= sent
    /\ \A f \in inside : f <= sent
    /\ \A i \in DOMAIN frames : frames[i] <= sent

LEMMA TurnInvStep ==
  ASSUME CallInv, TurnInv, [ClientNext]_cvars
  PROVE  TurnInv'
<1> USE DEF TurnInv, PacketsWaitInTurn
<1>0. /\ Packet \subseteq Nat /\ sent \in Nat /\ inside \subseteq Nat
      /\ inPkt \in Nat /\ bufFrame \in Nat /\ frame \in Nat /\ bsf \in Nat
      /\ frames \in Seq(Packet)
  BY DEF CallInv, ClientTypeOK, DecoderTypeOK, Packet
<1>1. ASSUME Got, frame' \in Nat, frame' <= sent, frame' # None => frame' \in Packet
      PROVE  \A i \in DOMAIN frames' : frames'[i] <= sent
  <2>1. CASE frame' = None
    BY <1>1, <2>1 DEF Got
  <2>2. CASE frame' # None
    <3>1. frames' = Append(frames, frame') /\ frame' \in Packet
      BY <1>1, <2>2 DEF Got
    <3>2. \A i \in 1..Len(frames) + 1 : Append(frames, frame')[i] <= sent
      BY <1>0, <1>1, <3>1
    <3>3. DOMAIN Append(frames, frame') = 1..Len(frames) + 1
      BY <1>0, <3>1
    <3> QED BY <3>1, <3>2, <3>3
  <2> QED BY <2>1, <2>2
<1>2. CASE Send
  <2>1. UNCHANGED <<inPkt, inside, bufFrame, frame, frames>>
    BY <1>2 DEF Send, avcodec_send_packet
  <2>2. \/ UNCHANGED <<bsf, sent>>
        \/ bsf = None /\ bsf' = sent + 1 /\ sent' = sent + 1
    BY <1>2 DEF Send, avcodec_send_packet
  <2>3. CASE UNCHANGED <<bsf, sent>>
    BY <2>1, <2>3
  <2>4. CASE bsf' = sent + 1 /\ sent' = sent + 1
    <3>1. inPkt' < bsf' /\ inPkt' <= sent' /\ bufFrame' <= sent' /\ frame' <= sent'
      BY <1>0, <2>1, <2>4
    <3>2. bufFrame' < bsf' /\ frame' < bsf'
      BY <1>0, <2>1, <2>4
    <3>3. \A f \in inside : f <= sent' /\ f < bsf'
      BY <1>0, <2>4
    <3>4. \A i \in DOMAIN frames : frames[i] \in Nat
      <4>1. \A i \in 1..Len(frames) : frames[i] \in Packet
        BY <1>0, ElementOfSeq
      <4>2. DOMAIN frames = 1..Len(frames) /\ Packet \subseteq Nat
        BY <1>0
      <4> QED BY <4>1, <4>2
    <3>5. \A i \in DOMAIN frames' : frames'[i] <= sent'
      BY <1>0, <2>1, <2>4, <3>4
    <3>6. \A f \in inside' \cup {bufFrame', frame'} : f < bsf'
      BY <2>1, <3>2, <3>3
    <3>7. PacketsWaitInTurn'
      BY <2>4, <3>1, <3>6
    <3>8. \A f \in inside' : f <= sent'
      BY <2>1, <3>3
    <3> QED BY <3>1, <3>5, <3>7, <3>8 DEF TurnInv
  <2> QED BY <2>2, <2>3, <2>4
<1>3. CASE Receive
  <2>1. /\ UNCHANGED <<bsf, inPkt, inside, sent>> /\ Got
        /\ bufFrame' \in {bufFrame, None} /\ frame' \in {bufFrame, None}
    BY <1>3 DEF Receive, avcodec_receive_frame
  <2>2. frame' <= sent /\ frame' \in Nat /\ (frame' # None => frame' \in Packet)
    BY <1>0, <2>1 DEF CallInv, ClientTypeOK, DecoderTypeOK
  <2>3. \A i \in DOMAIN frames' : frames'[i] <= sent
    BY <1>1, <2>1, <2>2
  <2>4. bufFrame' <= sent /\ (bsf # None => bufFrame' < bsf /\ frame' < bsf)
    BY <1>0, <2>1
  <2> QED BY <1>0, <2>1, <2>2, <2>3, <2>4
<1>4. CASE Decoding
  <2>1. UNCHANGED sent /\ dpc # "idle" /\ (dpc = "receive" => Got)
    BY <1>4 DEF Decoding, Decode, DecodeStarved, DecodeFails, DecodeKeeps, DecodeYields
  <2>2. dpc # "receive" => UNCHANGED frames
    BY <1>4 DEF Decoding
  <2>3. ASSUME frame' \in Nat, frame' <= sent, frame' # None => frame' \in Packet
        PROVE  \A i \in DOMAIN frames' : frames'[i] <= sent'
    BY <1>1, <2>1, <2>2, <2>3
  <2>4. ASSUME NEW p \in Packet, NEW n \in 1..Subframes, InWork(p, n)
        PROVE  /\ p <= sent /\ (bsf' # None => bsf' = bsf /\ p < bsf)
    BY <1>0, <2>4, InWorkIs
  <2>5. CASE DecodeStarved
    BY <1>0, <2>1, <2>3, <2>5 DEF DecodeStarved, queues, CallInv, ClientTypeOK, DecoderTypeOK
  <2>6. CASE DecodeFails
    <3> PICK p \in Packet, n \in 1..Subframes : InWork(p, n)
      BY <2>6 DEF DecodeFails
    <3>1. inPkt' = None /\ UNCHANGED <<inside, bufFrame, frame>>
      BY <2>6 DEF DecodeFails
    <3>2. \A i \in DOMAIN frames' : frames'[i] <= sent'
      BY <1>0, <2>3, <3>1 DEF CallInv, ClientTypeOK, DecoderTypeOK
    <3> QED BY <1>0, <2>1, <2>4, <3>1, <3>2
  <2>7. CASE DecodeKeeps
    <3> PICK p \in Packet, n \in 1..Subframes :
             Consume(p, n) /\ inside' \in {inside, inside \cup {p}}
      BY <2>7 DEF DecodeKeeps
    <3>1. InWork(p, n) /\ inPkt' \in {None, p} /\ UNCHANGED <<bufFrame, frame>>
      BY <2>7, ConsumeIs DEF DecodeKeeps, Consume
    <3>2. \A i \in DOMAIN frames' : frames'[i] <= sent'
      BY <1>0, <2>3, <3>1 DEF CallInv, ClientTypeOK, DecoderTypeOK
    <3>3. p <= sent /\ (bsf' # None => bsf' = bsf /\ p < bsf)
      BY <2>4, <3>1
    <3> QED BY <1>0, <2>1, <3>1, <3>2, <3>3
  <2>8. CASE DecodeYields
    <3> PICK p \in Packet, n \in 1..Subframes : \E f : Yields(p, n, f)
      BY <2>8, YieldsIs
    <3> PICK f : Yields(p, n, f)
      OBVIOUS
    <3>1. InWork(p, n) /\ inPkt' \in {None, p}
      BY ConsumeIs DEF Yields, Consume
    <3>2. p <= sent /\ (bsf' # None => bsf' = bsf /\ p < bsf)
      BY <2>4, <3>1
    <3>3. /\ f \in inside \cup {p} /\ inside' \subseteq inside \cup {p}
          /\ bufFrame' \in {f, bufFrame} /\ frame' \in {f, frame}
      BY DEF Yields
    <3>4. f \in Packet /\ f <= sent /\ (bsf' # None => f < bsf')
      BY <1>0, <3>2, <3>3 DEF CallInv, ClientTypeOK, DecoderTypeOK
    <3>5. frame' <= sent /\ frame' \in Nat /\ (frame' # None => frame' \in Packet)
      BY <1>0, <3>3, <3>4 DEF CallInv, ClientTypeOK, DecoderTypeOK
    <3>6. \A i \in DOMAIN frames' : frames'[i] <= sent'
      BY <2>3, <3>5
    <3> QED BY <1>0, <2>1, <3>1, <3>2, <3>3, <3>4, <3>5, <3>6
  <2> QED BY <1>4, <2>5, <2>6, <2>7, <2>8 DEF Decoding, Decode
<1>5. CASE UNCHANGED cvars
  BY <1>5 DEF cvars, dvars, queues
<1> QED BY <1>2, <1>3, <1>4, <1>5 DEF ClientNext

LEMMA TurnAlways == ClientSpec => []TurnInv
<1>1. ClientInit => TurnInv
  <2> SUFFICES ASSUME ClientInit PROVE TurnInv
    OBVIOUS
  <2>1. /\ inPkt = 0 /\ bufFrame = 0 /\ frame = 0 /\ sent = 0 /\ bsf = 0
        /\ inside = {} /\ frames = <<>>
    BY DEF ClientInit, DecoderInit
  <2> QED BY <2>1 DEF TurnInv, PacketsWaitInTurn
<1> QED BY <1>1, TurnInvStep, CallAlways, PTL DEF ClientSpec

(* A packet waits in the filter of a decoder only behind older ones, and   *)
(* is not overtaken (decode.c:634-638, 705-711).                           *)
THEOREM PacketsAlwaysWaitInTurn == ClientSpec => []PacketsWaitInTurn
<1>1. TurnInv => PacketsWaitInTurn
  BY DEF TurnInv
<1> QED BY <1>1, TurnAlways, PTL
-----------------------------------------------------------------------------
(* The accounts of a packet q: the frames given out, those inside, and the *)
(* pieces that may still become one.                                       *)
One(b) == IF b THEN 1 ELSE 0
Places(s, q) == {i \in DOMAIN s : s[i] = q}
CountOf(s, q) == Cardinality(Places(s, q))
Given(q) == CountOf(frames, q)
Kept(q) == One(q \in inside)
Pieces(q) == (IF q = inPkt THEN left ELSE 0) + (IF q = bsf THEN Subframes ELSE 0)
Account(q) == Given(q) + One(q = bufFrame) + Kept(q) + Pieces(q)

OnceInv == \A q \in Packet : Account(q) <= Subframes

LEMMA CountIsNat ==
  ASSUME NEW s \in Seq(Packet), NEW q
  PROVE  IsFiniteSet(Places(s, q)) /\ CountOf(s, q) \in Nat
<1>1. Len(s) \in Nat /\ DOMAIN s = 1..Len(s)
  OBVIOUS
<1>2. IsFiniteSet(DOMAIN s)
  BY <1>1, FS_Interval
<1>3. IsFiniteSet(Places(s, q))
  BY <1>2, FS_Subset DEF Places
<1> QED BY <1>3, FS_CardinalityType DEF CountOf

(* A frame more is counted once, for its own packet. *)
LEMMA CountAppended ==
  ASSUME NEW s \in Seq(Packet), NEW x \in Packet, NEW q
  PROVE  CountOf(Append(s, x), q) = CountOf(s, q) + One(x = q)
<1> DEFINE t == Append(s, x)
<1>1. /\ Len(s) \in Nat /\ DOMAIN s = 1..Len(s) /\ DOMAIN t = 1..(Len(s) + 1)
      /\ t[Len(s) + 1] = x /\ \A i \in 1..Len(s) : t[i] = s[i]
  OBVIOUS
<1>2. IsFiniteSet(Places(s, q)) /\ CountOf(s, q) \in Nat
  BY CountIsNat
<1> HIDE DEF t
<1>3. CASE x = q
  <2>1. Places(t, q) = Places(s, q) \cup {Len(s) + 1}
    BY <1>1, <1>3 DEF Places
  <2>2. Len(s) + 1 \notin Places(s, q)
    BY <1>1 DEF Places
  <2>3. CountOf(t, q) = CountOf(s, q) + 1
    BY <1>2, <2>1, <2>2, FS_AddElement DEF CountOf
  <2> QED BY <1>3, <2>3 DEF One, t
<1>4. CASE x # q
  <2>1. Places(t, q) = Places(s, q)
    BY <1>1, <1>4 DEF Places
  <2>2. CountOf(t, q) = CountOf(s, q)
    BY <2>1 DEF CountOf
  <2> QED BY <1>2, <1>4, <2>2 DEF One, t
<1> QED BY <1>3, <1>4

LEMMA GotIsGiven ==
  ASSUME frames \in Seq(Packet), frame' \in Packet \cup {None}, Got, NEW q \in Packet
  PROVE  Given(q)' = Given(q) + One(frame' = q)
<1>1. CASE frame' = None
  <2>1. Given(q) \in Nat
    BY CountIsNat DEF Given
  <2>2. Given(q)' = Given(q)
    BY <1>1 DEF Got, Given
  <2>3. frame' # q
    BY <1>1 DEF Packet
  <2> QED BY <2>1, <2>2, <2>3 DEF One
<1>2. CASE frame' # None
  <2>1. frames' = Append(frames, frame') /\ frame' \in Packet
    BY <1>2 DEF Got
  <2>2. CountOf(Append(frames, frame'), q) = CountOf(frames, q) + One(frame' = q)
    BY <2>1, CountAppended
  <2> QED BY <2>1, <2>2 DEF Given
<1> QED BY <1>1, <1>2

LEMMA AccountTypes ==
  ASSUME CallInv, NEW q
  PROVE  /\ Given(q) \in Nat /\ Kept(q) \in {0, 1} /\ One(q = bufFrame) \in {0, 1}
         /\ Pieces(q) \in Nat
<1>1. Given(q) \in Nat
  BY CountIsNat DEF CallInv, ClientTypeOK, Given
<1>2. left \in Nat /\ Subframes \in Nat
  BY SubframeAssumption DEF CallInv, ClientTypeOK, DecoderTypeOK
<1> QED BY <1>1, <1>2 DEF Kept, One, Pieces

LEMMA AccountTypesNext ==
  ASSUME CallInv', NEW q
  PROVE  /\ Given(q)' \in Nat /\ Kept(q)' \in {0, 1} /\ One(q = bufFrame') \in {0, 1}
         /\ Pieces(q)' \in Nat
<1>1. Given(q)' \in Nat
  BY CountIsNat DEF CallInv, ClientTypeOK, Given
<1>2. left' \in Nat /\ Subframes \in Nat
  BY SubframeAssumption DEF CallInv, ClientTypeOK, DecoderTypeOK
<1>3. Pieces(q)' \in Nat
  <2>1. /\ (IF q = inPkt' THEN left' ELSE 0) \in Nat
        /\ (IF q = bsf' THEN Subframes ELSE 0) \in Nat
    BY <1>2
  <2>2. Pieces(q)' = (IF q = inPkt' THEN left' ELSE 0) + (IF q = bsf' THEN Subframes ELSE 0)
    BY DEF Pieces
  <2> QED BY <2>1, <2>2
<1>4. Kept(q)' \in {0, 1}
  <2>1. Kept(q)' = One(q \in inside')
    BY DEF Kept
  <2> QED BY <2>1 DEF One
<1>5. One(q = bufFrame') \in {0, 1}
  BY DEF One
<1> QED BY <1>1, <1>3, <1>4, <1>5

(* Consuming a piece takes it from the account of its packet. *)
LEMMA ConsumeTakesOne ==
  ASSUME CallInv, TurnInv, NEW p \in Packet, NEW k \in 1..Subframes, NEW q \in Packet,
         Consume(p, k)
  PROVE  Pieces(q)' + One(q = p) <= Pieces(q)
<1>1. /\ InWork(p, k) /\ left' = k - 1 /\ inPkt' = (IF k = 1 THEN None ELSE p)
      /\ p # None /\ q # None
  BY DEF Consume, Packet
<1>2. k \in Nat /\ k > 0 /\ k <= Subframes /\ Subframes \in Nat /\ left \in Nat
  BY SubframeAssumption DEF CallInv, ClientTypeOK, DecoderTypeOK
<1>3. (IF q = inPkt' THEN left' ELSE 0) = (IF q = p THEN k - 1 ELSE 0)
  BY <1>1, <1>2
<1>4. CASE p = inPkt
  <2>1. k = left /\ bsf' = bsf
    BY <1>4, InWorkIs, <1>1
  <2> QED BY <1>2, <1>3, <1>4, <2>1 DEF Pieces, One
<1>5. CASE p # inPkt
  <2>1. inPkt = None /\ p = bsf /\ bsf' = None
    BY <1>1, <1>5, InWorkIs
  <2>2. /\ Pieces(q)' = (IF q = p THEN k - 1 ELSE 0)
        /\ Pieces(q) = (IF q = p THEN Subframes ELSE 0)
    BY <1>1, <1>2, <1>3, <2>1 DEF Pieces
  <2> QED BY <1>2, <2>2 DEF One
<1> QED BY <1>4, <1>5

LEMMA OnceInvStep ==
  ASSUME CallInv, TurnInv, CallInv', OnceInv, [ClientNext]_cvars
  PROVE  OnceInv'
<1> SUFFICES ASSUME NEW q \in Packet PROVE (Account(q) <= Subframes)'
  BY DEF OnceInv
<1>0. Account(q) <= Subframes
  BY DEF OnceInv
<1>1. /\ Given(q) \in Nat /\ Kept(q) \in {0, 1} /\ One(q = bufFrame) \in {0, 1}
      /\ Pieces(q) \in Nat
  BY AccountTypes
<1>2. /\ Given(q)' \in Nat /\ Kept(q)' \in {0, 1} /\ One(q = bufFrame') \in {0, 1}
      /\ Pieces(q)' \in Nat
  BY AccountTypesNext
<1>3. Subframes \in Nat /\ q # None
  BY SubframeAssumption DEF Packet
<1>4. /\ frames \in Seq(Packet)
      /\ frame' \in Packet \cup {None}
  BY DEF CallInv, ClientTypeOK, DecoderTypeOK
<1>5. UNCHANGED frames => Given(q)' = Given(q)
  BY DEF Given
<1>6. UNCHANGED inside => Kept(q)' = Kept(q)
  BY DEF Kept
<1>7. UNCHANGED bufFrame => One(q = bufFrame') = One(q = bufFrame)
  OBVIOUS
<1>8. CASE Send
  <2>1. UNCHANGED <<inPkt, left, inside, bufFrame, frames>>
    BY <1>8 DEF Send, avcodec_send_packet
  <2>2. \/ UNCHANGED bsf
        \/ bsf = None /\ bsf' = sent + 1
    BY <1>8 DEF Send, avcodec_send_packet
  <2>3. CASE UNCHANGED bsf \/ q # sent + 1
    <3>1. Pieces(q)' = Pieces(q)
      BY <1>3, <2>1, <2>2, <2>3 DEF Pieces
    <3> QED BY <1>0, <1>5, <1>6, <1>7, <2>1, <3>1 DEF Account
  <2>4. CASE bsf' = sent + 1 /\ q = sent + 1
    <3>1. sent \in Nat /\ Packet \subseteq Nat
      BY DEF CallInv, ClientTypeOK, Packet
    <3>2. q # inPkt /\ q # bufFrame /\ q \notin inside
      <4>1. q = sent + 1 /\ q \in Nat
        BY <2>4, <3>1
      <4> QED BY <3>1, <4>1 DEF TurnInv
    <3>3. Places(frames, q) = {}
      BY <2>4, <3>1 DEF TurnInv, Places
    <3>4. Given(q) = 0
      BY <3>3, FS_EmptySet DEF Given, CountOf
    <3>5. Kept(q) = 0 /\ One(q = bufFrame) = 0
      BY <3>2 DEF Kept, One
    <3>6. Pieces(q)' = Subframes
      BY <1>3, <2>1, <2>4, <3>2 DEF Pieces
    <3>7. Given(q)' = 0 /\ Kept(q)' = 0 /\ One(q = bufFrame') = 0
      BY <1>5, <1>6, <1>7, <2>1, <3>4, <3>5
    <3> QED BY <1>3, <3>6, <3>7 DEF Account
  <2> QED BY <2>2, <2>3, <2>4
<1>9. CASE Receive
  <2>1. /\ UNCHANGED <<bsf, inPkt, left, inside>> /\ Got
        /\ \/ bufFrame' = None /\ frame' \in {bufFrame, None}
           \/ UNCHANGED bufFrame /\ frame' = None
    BY <1>9 DEF Receive, avcodec_receive_frame
  <2>2. Given(q)' = Given(q) + One(frame' = q)
    BY <1>4, <2>1, GotIsGiven
  <2>3. One(frame' = q) + One(q = bufFrame') <= One(q = bufFrame)
    BY <1>3, <2>1 DEF One
  <2>4. Kept(q)' = Kept(q) /\ Pieces(q)' = Pieces(q)
    BY <2>1 DEF Kept, Pieces
  <2>5. One(frame' = q) \in Nat
    BY DEF One
  <2> QED BY <1>0, <1>1, <1>2, <1>3, <2>2, <2>3, <2>4, <2>5 DEF Account
<1>10. CASE Decoding
  <2>1. /\ dpc # "idle" => bufFrame = None
        /\ dpc = "receive" => frame = None
    BY DEF CallInv
  <2>2. /\ dpc = "receive" => Got
        /\ dpc # "receive" => UNCHANGED frames
    BY <1>10 DEF Decoding
  <2>3. ASSUME dpc = "receive", UNCHANGED frame
        PROVE  UNCHANGED frames
    BY <2>1, <2>2, <2>3 DEF Got
  <2>4. ASSUME UNCHANGED frame PROVE Given(q)' = Given(q)
    BY <1>5, <2>2, <2>3, <2>4
  <2>5. CASE DecodeStarved
    BY <1>0, <1>6, <1>7, <2>4, <2>5 DEF DecodeStarved, queues, Account, Pieces
  <2>6. CASE DecodeFails
    <3>1. PICK p \in Packet, k \in 1..Subframes : InWork(p, k)
      BY <2>6 DEF DecodeFails
    <3>2. inPkt' = None /\ left' = 0 /\ UNCHANGED <<inside, bufFrame, frame>>
      BY <2>6 DEF DecodeFails
    <3>3. bsf' \in {bsf, None}
      BY <3>1, InWorkIs
    <3>4. left \in Nat
      BY DEF CallInv, ClientTypeOK, DecoderTypeOK
    <3>5. Pieces(q)' <= Pieces(q)
      BY <1>3, <3>2, <3>3, <3>4 DEF Pieces
    <3>6. Given(q)' = Given(q) /\ Kept(q)' = Kept(q) /\ One(q = bufFrame') = One(q = bufFrame)
      BY <1>6, <1>7, <2>4, <3>2
    <3> QED BY <1>0, <1>1, <1>2, <1>3, <3>5, <3>6 DEF Account
  <2>7. CASE DecodeKeeps
    <3>1. PICK p \in Packet, k \in 1..Subframes :
               Consume(p, k) /\ inside' \in {inside, inside \cup {p}}
      BY <2>7 DEF DecodeKeeps
    <3>2. Pieces(q)' + One(q = p) <= Pieces(q)
      BY <3>1, ConsumeTakesOne
    <3>3. Kept(q)' <= Kept(q) + One(q = p)
      BY <3>1 DEF Kept, One
    <3>4. Given(q)' = Given(q) /\ One(q = bufFrame') = One(q = bufFrame)
      BY <1>7, <2>4, <2>7 DEF DecodeKeeps
    <3>5. One(q = p) \in Nat
      BY DEF One
    <3> QED BY <1>0, <1>1, <1>2, <1>3, <3>2, <3>3, <3>4, <3>5 DEF Account
  <2>8. CASE DecodeYields
    <3> PICK p \in Packet, k \in 1..Subframes : \E f : Yields(p, k, f)
      BY <2>8, YieldsIs
    <3> PICK f : Yields(p, k, f)
      OBVIOUS
    <3>1. Consume(p, k) /\ f \in inside \cup {p}
          /\ inside' \in {inside \ {f}, (inside \cup {p}) \ {f}}
      BY DEF Yields
    <3>2. Pieces(q)' + One(q = p) <= Pieces(q)
      BY <3>1, ConsumeTakesOne
    <3>3. Kept(q)' + One(q = f) <= Kept(q) + One(q = p)
      BY <3>1 DEF Kept, One
    <3>4. Given(q)' + One(q = bufFrame') <= Given(q) + One(q = f)
      <4>1. CASE dpc = "send" /\ bufFrame' = f
        <5>1. Given(q)' = Given(q) /\ One(q = bufFrame') = One(q = f)
          BY <1>5, <2>2, <4>1
        <5> QED BY <1>1, <5>1 DEF One
      <4>2. CASE dpc = "receive" /\ frame' = f /\ UNCHANGED bufFrame
        <5>1. Given(q)' = Given(q) + One(f = q)
          BY <1>4, <2>2, <4>2, GotIsGiven
        <5>2. One(q = bufFrame') = 0
          BY <1>3, <2>1, <4>2 DEF One
        <5>3. One(f = q) = One(q = f) /\ One(q = f) \in Nat
          BY DEF One
        <5> QED BY <1>1, <5>1, <5>2, <5>3
      <4>3. CASE dpc = "receive" /\ UNCHANGED <<frame, bufFrame>>
        <5>1. Given(q)' = Given(q) /\ One(q = bufFrame') = 0
          BY <1>3, <2>1, <2>4, <4>3 DEF One
        <5>2. One(q = f) \in Nat
          BY DEF One
        <5> QED BY <1>1, <5>1, <5>2
      <4> QED BY <4>1, <4>2, <4>3 DEF Yields
    <3>5. One(q = p) \in Nat /\ One(q = f) \in Nat
      BY DEF One
    <3> QED BY <1>0, <1>1, <1>2, <1>3, <3>2, <3>3, <3>4, <3>5 DEF Account
  <2> QED BY <1>10, <2>5, <2>6, <2>7, <2>8 DEF Decoding, Decode
<1>11. CASE UNCHANGED cvars
  BY <1>0, <1>5, <1>6, <1>7, <1>11 DEF cvars, dvars, queues, Account, Pieces
<1> QED BY <1>8, <1>9, <1>10, <1>11 DEF ClientNext

(* No picture is given out twice, and a packet yields at most as many      *)
(* frames as it has pieces, whatever the order of the calls                *)
(* (decode.c:705-711).                                                     *)
THEOREM EachFrameAlwaysOnce == ClientSpec => []EachFrameOnce
<1>1. ClientInit => OnceInv
  <2> SUFFICES ASSUME ClientInit, NEW q \in Packet PROVE Account(q) <= Subframes
    BY DEF OnceInv
  <2>1. /\ inPkt = None /\ bufFrame = None /\ bsf = None /\ inside = {}
        /\ frames = <<>> /\ q # None
    BY DEF ClientInit, DecoderInit, Packet
  <2>2. Places(frames, q) = {}
    BY <2>1 DEF Places
  <2>3. Given(q) = 0
    BY <2>2, FS_EmptySet DEF Given, CountOf
  <2>4. One(q = bufFrame) = 0 /\ Kept(q) = 0 /\ Pieces(q) = 0
    BY <2>1 DEF One, Kept, Pieces
  <2> QED BY <2>3, <2>4, SubframeAssumption DEF Account
<1>2. OnceInv /\ CallInv => EachFrameOnce
  <2> SUFFICES ASSUME OnceInv, CallInv, NEW q \in Packet
               PROVE  Given(q) + One(q = bufFrame) + Kept(q)
                         + (IF q = inPkt THEN left ELSE 0)
                         + (IF q = bsf THEN Subframes ELSE 0) <= Subframes
    BY ZenonT(30) DEF EachFrameOnce, Given, CountOf, Places, Kept, One
  <2>1. left \in Nat /\ Subframes \in Nat
    BY SubframeAssumption DEF CallInv, ClientTypeOK, DecoderTypeOK
  <2>2. Given(q) \in Nat /\ Kept(q) \in {0, 1} /\ One(q = bufFrame) \in {0, 1}
    BY AccountTypes
  <2>3. Given(q) + One(q = bufFrame) + Kept(q) + Pieces(q) <= Subframes
    BY DEF OnceInv, Account
  <2> QED BY <2>1, <2>2, <2>3 DEF Pieces
<1>3. CallInv /\ TurnInv /\ CallInv' /\ OnceInv /\ [ClientNext]_cvars => OnceInv'
  BY OnceInvStep
<1> QED BY <1>1, <1>2, <1>3, CallAlways, TurnAlways, PTL DEF ClientSpec
=============================================================================
