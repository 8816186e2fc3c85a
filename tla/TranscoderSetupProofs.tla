------------------------ MODULE TranscoderSetupProofs ------------------------
(***************************************************************************)
(* What holds of the set-up of the transcoder for every set of inputs,     *)
(* every length of the file's name and of its extension.                   *)
(***************************************************************************)
EXTENDS TranscoderSetup, TLAPS

Early    == {"open", "decoders", "alloc"}
Encoding == {"audio", "file", "codecs", "header", "loop"}

(* What each point knows: an AVCodec is there only for a stream the input  *)
(* has, found through the input's context, and an output only under a name *)
(* that has a format.                                                      *)
SetupInv ==
    /\ SetupTypeOK
    /\ pc \in Early => out = "wild"
    /\ pc = "video" => out # "wild"
    /\ pc \in Encoding => out = "open"
    /\ out = "open" => FormatMayBeFound
    /\ pc \notin Early => \A m \in Media : codec[m] # "wild"
    /\ pc \in {"header", "loop"} => \A m \in Media : codec[m] = "set"
    /\ \A m \in Media : codec[m] = "set" => m \in Present /\ dctx = "input"
    /\ pc \in Early => \A m \in Media : codec[m] = "wild"

(* A name keeps of its extension what is beyond its fourth character, and  *)
(* is not cut before the clock unless its size wraps.                      *)
LEMMA ExtensionIsCut ==
    ASSUME NEW f \in Nat, NEW e \in Nat, KeptExt(f, e) > 0
    PROVE  e >= 5
<1>1. MaxSize(f, e) \in Nat /\ MaxSize(f, e) <= f + e + 18
  BY DEF MaxSize
<1>2. Kept(f, e) \in Int /\ (Kept(f, e) <= f + e + 17 \/ Kept(f, e) = 0)
  BY <1>1 DEF Kept, Clamp, Least, TextLen, StampLen
<1>3. Kept(f, e) - f - StampLen - 1 > 0
  BY <1>2 DEF KeptExt, Clamp, Least, StampLen
<1> QED BY <1>2, <1>3 DEF StampLen

LEMMA NameIsKept ==
    ASSUME NEW f \in Nat, NEW e \in Nat, Kept(f, e) <= f
    PROVE  f + e + 18 >= 256
<1> SUFFICES ASSUME f + e + 18 < 256 PROVE FALSE
  OBVIOUS
<1>1. MaxSize(f, e) = f + e + 18
  BY DEF MaxSize
<1>2. Kept(f, e) = f + e + 17
  BY <1>1 DEF Kept, Clamp, Least, TextLen, StampLen
<1> QED BY <1>2

LEMMA LengthIsNat == ASSUME NEW i \in Inputs PROVE Len(i) \in Nat /\ DOMAIN i = 1..Len(i)
BY InputAssumption

LEMMA SetupInvInit == SetupInit => SetupInv
<1> SUFFICES ASSUME SetupInit PROVE SetupInv
  OBVIOUS
<1>1. SetupTypeOK
  <2>1. k \in 0..Len(input)
    <3>1. Len(input) \in Nat /\ k = 0
      BY LengthIsNat DEF SetupInit
    <3> QED BY <3>1
  <2> QED BY <2>1 DEF SetupInit, SetupTypeOK, Points, Pointer
<1>2. \A m \in Media : codec[m] = "wild"
  BY DEF SetupInit
<1> QED BY <1>1, <1>2 DEF SetupInit, SetupInv, Early, Encoding

LEMMA SetupInvStep == SetupInv /\ [SetupNext]_svars => SetupInv'
<1> SUFFICES ASSUME SetupInv, [SetupNext]_svars PROVE SetupInv'
  OBVIOUS
<1> USE DEF SetupInv, SetupTypeOK, Points, Pointer, Early, Encoding,
            client, refs, output, At, Goto, Crash, FormatMayBeFound, Present
<1>1. CASE open_media2
  BY <1>1 DEF open_media2
<1>2. CASE prepare_decoder2
  BY <1>2 DEF prepare_decoder2
<1>3. CASE alloc_transcoder
  BY <1>3 DEF alloc_transcoder
<1>4. CASE RefStream
  <2> DEFINE kind == input[k + 1]
  <2>1. input \in Seq(Kind) /\ k + 1 \in 1..Len(input) /\ kind \in {input[i] : i \in DOMAIN input}
    BY <1>4, InputAssumption DEF RefStream
  <2>2. CASE kind \notin Media
    BY <1>4, <2>1, <2>2 DEF RefStream
  <2>3. CASE kind \in Media
    <3>1. kind \in Present
      BY <2>1, <2>3
    <3>2. codec' = [codec EXCEPT ![kind] = "set"]
      BY <1>4, <2>3 DEF RefStream
    <3>3. PICK c \in {"null", "closed", "open"} :
              /\ dec' = [dec EXCEPT ![kind] = c]
              /\ IF c = "open" THEN UNCHANGED <<pc, exit>> ELSE Goto("format")
      BY <1>4, <2>3 DEF RefStream
    <3> QED BY <1>4, <2>1, <2>3, <3>1, <3>2, <3>3 DEF RefStream
  <2> QED BY <2>2, <2>3
<1>5. CASE RefsEnd
  BY <1>5 DEF RefsEnd
<1>6. CASE init_context
  BY <1>6 DEF init_context, Deref
<1>7. CASE init_video_encoder
  BY <1>7 DEF init_video_encoder, Deref, Media
<1>8. CASE init_audio_encoder
  BY <1>8 DEF init_audio_encoder, Deref, Media
<1>9. CASE avio_open
  BY <1>9 DEF avio_open
<1>10. CASE CompareCodecs
  BY <1>10 DEF CompareCodecs, Media
<1>11. CASE write_header
  BY <1>11 DEF write_header
<1>12. CASE Stopped \/ UNCHANGED svars
  BY <1>12 DEF Stopped, svars
<1> QED
  BY <1>1, <1>2, <1>3, <1>4, <1>5, <1>6, <1>7, <1>8, <1>9, <1>10, <1>11, <1>12 DEF SetupNext

(* The inductive invariant of the set-up.                                  *)
THEOREM SetupInvariant == SetupSpec => []SetupInv
BY SetupInvInit, SetupInvStep, PTL DEF SetupSpec

(* The type invariant of the set-up.                                       *)
THEOREM SetupTypeCorrect == SetupSpec => []SetupTypeOK
<1>1. SetupInv => SetupTypeOK
  BY DEF SetupInv
<1> QED BY <1>1, SetupInvariant, PTL

(* init_transcoder returns only for an input with picture and sound, whose *)
(* address lay in the memory it was given (Transcode.c:116-138, 295-298).  *)
THEOREM BothMediaNeeded == SetupSpec => []NeedsBothMedia
<1>1. SetupInv => NeedsBothMedia
  <2> SUFFICES ASSUME SetupInv, SetUp PROVE Present = Media /\ dctx = "input"
    BY DEF NeedsBothMedia
  <2>1. \A m \in Media : m \in Present /\ dctx = "input"
    BY DEF SetupInv, SetUp
  <2>2. "video" \in Media
    BY DEF Media
  <2> QED BY <2>1, <2>2 DEF Present
<1> QED BY <1>1, SetupInvariant, PTL

(* Whatever the length of the file's name, encoders are only set up for an *)
(* extension of five characters or more, or for a name whose size wraps    *)
(* (AVUtil.h:32-37, Transcode.c:154).                                      *)
THEOREM EncodersNeedLongExtension == SetupSpec => []EncodersNeedFormat
<1>1. SetupInv => EncodersNeedFormat
  <2> SUFFICES ASSUME SetupInv, pc \in Encoding
               PROVE  ext >= 5 \/ FileName + ext + 18 >= 256
    BY DEF EncodersNeedFormat, Encoding
  <2>1. FormatMayBeFound
    BY DEF SetupInv
  <2>2. ext \in Nat /\ FileName \in Nat
    BY NameAssumption DEF SetupInv, SetupTypeOK
  <2> QED BY <2>1, <2>2, ExtensionIsCut, NameIsKept DEF FormatMayBeFound
<1> QED BY <1>1, SetupInvariant, PTL
=============================================================================
