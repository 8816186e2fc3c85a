--------------------------- MODULE TranscoderSetup ---------------------------
(***************************************************************************)
(* The set-up of the transcoder: main of av_cli up to its loop, with       *)
(* alloc_transcoder, init_transcoder and what that calls (Transcode.c).    *)
(* Each point is a call that may fail; main's own calls end it, those of   *)
(* init_transcoder are ignored.                                            *)
(*                                                                         *)
(* The structures of the transcoder come from malloc: a pointer that       *)
(* nothing has assigned is "wild", and reading through it is the end of    *)
(* the process or yields something.  Parameters of the client are the      *)
(* input and the extension of its output ("mp4" in av_cli).                *)
(***************************************************************************)
EXTENDS OutputName, Sequences

CONSTANTS
    Inputs,     \* streams the input may have: sequences of kinds
    Extensions, \* lengths of m_pOutExt
    FileName    \* the length of m_pFN ("output" in av_cli)

Media == {"video", "audio"}
Kind  == Media \cup {"data"}

ASSUME InputAssumption == Inputs \subseteq Seq(Kind)
ASSUME NameAssumption == Extensions \subseteq Nat /\ FileName \in Nat

VARIABLES
    pc, exit,    \* the call main is in; whether and how it has ended
    input, ext,  \* the streams of the input, the length of m_pOutExt
    same,        \* the kinds whose codec is that of the output
    dctx,        \* what m_pDecoderCtx->m_pFormatCtx points to
    k,           \* the streams get_stream_refs has been through
    codec, dec,  \* the decoders' AVCodec and AVCodecContext
    out, enc,    \* the output's context and its encoders
    pb,          \* the output file is open
    remuxes      \* the kinds whose flag m_nRemux* is set

client == <<input, ext, same>>
refs   == <<k, codec, dec>>
output == <<out, enc, pb>>
svars  == <<pc, exit, client, dctx, refs, output, remuxes>>

Points == {"open", "decoders", "alloc", "refs", "format", "video", "audio",
           "file", "codecs", "header", "loop"}
Pointer == {"wild", "null", "closed", "open"}

SetupTypeOK ==
    /\ pc \in Points /\ exit \in {"none", "returned", "crashed"}
    /\ input \in Inputs /\ ext \in Extensions /\ same \subseteq Media
    /\ dctx \in {"wild", "bad", "empty", "input"}
    /\ k \in 0..Len(input)
    /\ codec \in [Media -> {"wild", "null", "set"}]
    /\ dec \in [Media -> Pointer] /\ enc \in [Media -> Pointer]
    /\ out \in {"wild", "null", "open"} /\ pb \in BOOLEAN
    /\ remuxes \subseteq Media

SetupInit ==
    /\ pc = "open" /\ exit = "none"
    /\ input \in Inputs /\ ext \in Extensions /\ same \in SUBSET Media
    /\ dctx = "wild" /\ k = 0
    /\ codec = [m \in Media |-> "wild"]
    /\ dec = [m \in Media |-> "wild"] /\ enc = [m \in Media |-> "wild"]
    /\ out = "wild" /\ pb = FALSE /\ remuxes = {}

At(p)   == pc = p /\ exit = "none"
Goto(p) == pc' = p /\ UNCHANGED exit
Crash   == exit' = "crashed" /\ UNCHANGED pc

(* Reading through a pointer on the way to p. *)
Deref(pointer, p) ==
    \/ pointer # "null" /\ Goto(p)
    \/ pointer \in {"null", "wild"} /\ Crash

Present == {input[i] : i \in DOMAIN input} \cap Media

-----------------------------------------------------------------------------
(* open_media2 and prepare_decoder2, each followed by a return of main.    *)
open_media2 ==
    /\ At("open")
    /\ \/ Goto("decoders")
       \/ exit' = "returned" /\ UNCHANGED pc
    /\ UNCHANGED <<client, dctx, refs, output, remuxes>>

prepare_decoder2 ==
    /\ At("decoders")
    /\ \/ Goto("alloc")
       \/ Present # {} /\ exit' = "returned" /\ UNCHANGED pc
    /\ UNCHANGED <<client, dctx, refs, output, remuxes>>

(* alloc_transcoder and init_output_filename, and what lies in the memory  *)
(* they take: the decoder's format context is nothing readable, something  *)
(* without streams, or at best the input, which is the only context so far.*)
(* The decoders' AVCodecs are then those forced on the input: none.        *)
alloc_transcoder ==
    /\ At("alloc") /\ Goto("refs")
    /\ dctx' \in {"bad", "empty", "input"}
    /\ codec' = [m \in Media |-> "null"]
    /\ UNCHANGED <<client, k, dec, output, remuxes>>

(* get_stream_refs, one stream of the input at a time.  A decoder that     *)
(* does not open ends it; prepare_decoder2 has found the same codecs.      *)
RefStream ==
    /\ At("refs") /\ dctx = "input" /\ k < Len(input)
    /\ k' = k + 1
    /\ LET kind == input[k + 1]
       IN IF kind \notin Media
          THEN UNCHANGED <<pc, exit, codec, dec>>
          ELSE /\ codec' = [codec EXCEPT ![kind] = "set"]
               /\ \E c \in {"null", "closed", "open"} :
                     /\ dec' = [dec EXCEPT ![kind] = c]
                     /\ IF c = "open" THEN UNCHANGED <<pc, exit>> ELSE Goto("format")
    /\ UNCHANGED <<client, dctx, output, remuxes>>

RefsEnd ==
    /\ At("refs")
    /\ \/ dctx = "bad" /\ Crash
       \/ dctx = "empty" /\ Goto("format")
       \/ dctx = "input" /\ k = Len(input) /\ Goto("format")
    /\ UNCHANGED <<client, dctx, refs, output, remuxes>>

-----------------------------------------------------------------------------
(* A format is found by the name's extension only: by what is left of it,  *)
(* or, where the size of the name has wrapped, by one that m_pFN may have  *)
(* where it is cut.                                                        *)
FormatMayBeFound == KeptExt(FileName, ext) > 0 \/ Kept(FileName, ext) <= FileName

(* init_context.  The frame rate is read through the video stream, which   *)
(* is as wild as its AVCodec is missing.                                   *)
init_context ==
    /\ At("format")
    /\ out' \in {"null"} \cup (IF FormatMayBeFound THEN {"open"} ELSE {})
    /\ Deref(IF codec["video"] = "null" THEN "wild" ELSE "open", "video")
    /\ UNCHANGED <<client, dctx, refs, enc, pb, remuxes>>

(* init_video_encoder: a new stream of the output, the encoder, and the    *)
(* sizes of the decoder.                                                   *)
init_video_encoder ==
    /\ At("video")
    /\ IF out = "null" THEN Crash /\ UNCHANGED enc
       ELSE \/ \E e \in {"wild", "null"} : enc' = [enc EXCEPT !["video"] = e] /\ Goto("audio")
            \/ \E e \in {"closed", "open"} :
                  enc' = [enc EXCEPT !["video"] = e] /\ Deref(dec["video"], "audio")
    /\ UNCHANGED <<client, dctx, refs, out, pb, remuxes>>

(* init_audio_encoder, whose sample rate is read from the decoder before.  *)
init_audio_encoder ==
    /\ At("audio")
    /\ Deref(dec["audio"], "file")
    /\ IF exit' = "crashed" THEN UNCHANGED enc
       ELSE \E e \in Pointer : enc' = [enc EXCEPT !["audio"] = e]
    /\ UNCHANGED <<client, dctx, refs, out, pb, remuxes>>

avio_open ==
    /\ At("file") /\ Goto("codecs") /\ pb' \in BOOLEAN
    /\ UNCHANGED <<client, dctx, refs, out, enc, remuxes>>

(* Mutant: an AVCodec that is not there is passed over. *)
CompareCodecs_checked ==
    /\ At("codecs") /\ Goto("header")
    /\ remuxes' = same \cap {"video"} \cap {m \in Media : codec[m] = "set"}
    /\ UNCHANGED <<client, dctx, refs, output>>

(* The end of init_transcoder.  The audio codec is compared with a flag,   *)
(* which is 0: the number of no codec.                                     *)
CompareCodecs ==
    /\ At("codecs")
    /\ IF \E m \in Media : codec[m] = "null" THEN Crash /\ UNCHANGED remuxes
       ELSE Goto("header") /\ remuxes' = same \cap {"video"}
    /\ UNCHANGED <<client, dctx, refs, output>>

(* write_header, whose result main drops: a function of the muxer is given *)
(* the decoder's context, which has no output format and survives it only  *)
(* if a check before that fails.  The options it is given are as wild;     *)
(* where they can be read they are taken for none.                         *)
write_header ==
    /\ At("header") /\ (Crash \/ Goto("loop"))
    /\ UNCHANGED <<client, dctx, refs, output, remuxes>>

Stopped == (exit # "none" \/ pc = "loop") /\ UNCHANGED svars

SetupNext ==
    \/ open_media2 \/ prepare_decoder2 \/ alloc_transcoder
    \/ RefStream \/ RefsEnd
    \/ init_context \/ init_video_encoder \/ init_audio_encoder \/ avio_open
    \/ CompareCodecs \/ write_header \/ Stopped

SetupSpec == SetupInit /\ [][SetupNext]_svars
-----------------------------------------------------------------------------
SetUp == pc \in {"header", "loop"}   \* init_transcoder has returned

(* init_transcoder only returns for an input with a picture and with       *)
(* sound, and only if fresh memory happened to hold the address of that    *)
(* input: everything else ends in a pointer nobody set, whichever of the   *)
(* ignored failures came before (Transcode.c:116-118, 136-138, 295, 298).  *)
NeedsBothMedia == SetUp => Present = Media /\ dctx = "input"

(* Encoders are only set up for names whose extension has five characters  *)
(* or more, unless the size of the name wraps: with "mp4" or "ts" the      *)
(* process dies before (AVUtil.h:32-37, Transcode.c:154).                  *)
EncodersNeedFormat ==
    pc \in {"audio", "file", "codecs", "header", "loop"} =>
        ext >= 5 \/ FileName + ext + 18 >= 256
=============================================================================
