------------------------------- MODULE Encoder -------------------------------
(***************************************************************************)
(* An open encoder of the libavcodec the project ships:                    *)
(* avcodec_send_frame and avcodec_receive_packet with the frame waiting    *)
(* for the encoder, the pictures it keeps and the packet encoded ahead.    *)
(* A packet is named by its frame.  As in Decoder, a call that encodes     *)
(* runs through the loop of encode_simple_receive_packet, one iteration an *)
(* action, and flushing is left out.                                       *)
(***************************************************************************)
EXTENDS Naturals, FiniteSets

CONSTANTS
    Frame,       \* the frames there are: positive numbers
    KeptBack,    \* pictures an encoder may keep back
    FixedSize    \* an audio encoder with frames of one size

ASSUME FrameAssumption == Frame \subseteq Nat \ {0}
ASSUME KeptAssumption  == KeptBack \in Nat
ASSUME SizeAssumption  == FixedSize \in BOOLEAN

NoFrame == 0
Sizes == {"short", "full", "large"}

VARIABLES
    epc,      \* "idle", or the call that is encoding
    eret,     \* what the last call returned
    encIn,    \* buffer_frame: the frame waiting for the encoder
    held,     \* pictures the encoder keeps
    encOut,   \* buffer_pkt: the packet encoded ahead by a send
    lastShort,\* last_audio_frame: a frame was shorter than the size
    out       \* the caller's packet

pictures == <<encIn, held, encOut>>
evars == <<epc, eret, pictures, lastShort, out>>

EncoderTypeOK ==
    /\ epc \in {"idle", "send", "receive"}
    /\ eret \in {"OK", "EAGAIN", "ERROR"}
    /\ {encIn, encOut, out} \subseteq Frame \cup {NoFrame}
    /\ held \subseteq Frame
    /\ lastShort \in BOOLEAN

EncoderInit ==
    /\ epc = "idle" /\ eret = "OK"
    /\ encIn = NoFrame /\ held = {} /\ encOut = NoFrame
    /\ lastShort = FALSE /\ out = NoFrame

(* A frame of the wrong size: too large, or after one that was too short.  *)
Refused(size) == FixedSize /\ (lastShort \/ size = "large")

(* avcodec_send_frame of a frame f of the given size. *)
avcodec_send_frame(f, size) ==
    /\ epc = "idle"
    /\ IF encIn # NoFrame
       THEN eret' = "EAGAIN" /\ UNCHANGED <<epc, encIn, lastShort>>
       ELSE IF Refused(size)
       THEN eret' = "ERROR" /\ UNCHANGED <<epc, encIn, lastShort>>
       ELSE /\ encIn' = f
            /\ lastShort' = (lastShort \/ (FixedSize /\ size = "short"))
            /\ IF encOut = NoFrame THEN epc' = "send" /\ UNCHANGED eret
                                   ELSE eret' = "OK" /\ UNCHANGED epc
    /\ UNCHANGED <<held, encOut, out>>

(* avcodec_receive_packet: the caller's packet is released, then it is the *)
(* packet encoded ahead, or one is encoded.                                *)
avcodec_receive_packet ==
    /\ epc = "idle"
    /\ IF encOut # NoFrame
       THEN out' = encOut /\ encOut' = NoFrame /\ eret' = "OK" /\ UNCHANGED epc
       ELSE out' = NoFrame /\ epc' = "receive" /\ UNCHANGED <<encOut, eret>>
    /\ UNCHANGED <<encIn, held, lastShort>>

EncodeStarved ==
    /\ epc # "idle" /\ encIn = NoFrame
    /\ epc' = "idle" /\ eret' = IF epc = "send" THEN "OK" ELSE "EAGAIN"
    /\ UNCHANGED <<pictures, lastShort, out>>

EncodeFails ==
    /\ epc # "idle" /\ encIn # NoFrame
    /\ encIn' = NoFrame
    /\ epc' = "idle" /\ eret' = "ERROR"
    /\ UNCHANGED <<held, encOut, lastShort, out>>

(* The frame is kept or skipped by the encoder; the loop goes on. *)
EncodeKeeps ==
    /\ epc # "idle" /\ encIn # NoFrame
    /\ encIn' = NoFrame
    /\ held' \in {held, held \cup {encIn}}
    /\ Cardinality(held') <= KeptBack
    /\ UNCHANGED <<epc, eret, encOut, lastShort, out>>

(* A packet is there, of the frame or of one kept before: into buffer_pkt  *)
(* when a send encodes, into the caller's when a receive does.             *)
EncodeYields ==
    /\ epc # "idle" /\ encIn # NoFrame
    /\ encIn' = NoFrame
    /\ \E q \in held \cup {encIn} :
          /\ held' \in {held \ {q}, (held \cup {encIn}) \ {q}}
          /\ IF epc = "send" THEN encOut' = q /\ UNCHANGED out
                             ELSE out' = q /\ UNCHANGED encOut
    /\ Cardinality(held') <= KeptBack
    /\ epc' = "idle" /\ eret' = "OK"
    /\ UNCHANGED lastShort

Encode == EncodeStarved \/ EncodeFails \/ EncodeKeeps \/ EncodeYields
=============================================================================
