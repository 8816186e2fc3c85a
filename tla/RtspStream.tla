----------------------------- MODULE RtspStream -----------------------------
(***************************************************************************)
(* The camera stream of av/src/RtspStream.c: the demuxer, the two          *)
(* decoders, the frames and the picture buffer of a RtspStream, and its    *)
(* RtspStreamWriter, whose variables it shares.  Each function is an       *)
(* action (init_buffers one per iteration of its loop); the order they are *)
(* called in is the client's (module Viewer).                              *)
(*                                                                         *)
(* What the camera sends and what the decoders answer is a choice.  A      *)
(* picture is named by the packet whose decoding yielded it.               *)
(***************************************************************************)
EXTENDS RtspStreamWriter, Integers

CONSTANTS Layouts,  \* the streams a camera may offer: sequences of kinds
          MaxTries  \* _nMaxTries of init_buffers (10 in main.cpp)

Kind == {"video", "audio", "data"}   \* data: no decoder, or another type

ASSUME LayoutAssumption == Layouts \subseteq Seq(Kind) \ {<<>>}
ASSUME TriesAssumption  == MaxTries \in Nat

VARIABLES
    layout,              \* the streams of the camera
    inCtx,               \* m_pFormatContext: "null" or "open"
    vIdx, aIdx,          \* m_nVideoStreamIndex, m_nAudioStreamIndex
    vCtx, aCtx,          \* their m_pCodecContexts: "uninit", "alloc", "open"
    fbInit, abInit,      \* m_pFrameBuffer and the size, m_pAudioBuffer are set
    tries, buffersRet,   \* _nMaxTries and nRet of init_buffers
    vFrame, aFrame,      \* m_pVideoFrame, m_pAudioFrame: NoPacket is NULL
    sws,                 \* m_pSwsScalerContext: "null", "garbage" or "ok"
    shown, formatRet,    \* the picture in m_pFrameBuffer, format_frame's result
    initRet,             \* init_stream's result
    lastV, lastA,        \* history: newest video and audio packet read
    death                \* history: where the process died in this module

demuxer == <<layout, inCtx, vIdx, aIdx>>
codecs  == <<vCtx, aCtx>>
buffers == <<fbInit, abInit, tries, buffersRet>>
frames  == <<vFrame, aFrame, lastV, lastA>>
picture == <<sws, shown, formatRet>>
rvars   == <<demuxer, codecs, buffers, frames, picture, initRet, death>>

InitErrors == {"STREAM_OPEN_FAILED", "VIDEO_STREAM_NOT_FOUND",
               "CODEC_INIT_FAILED", "CODEC_OPEN_FAILED"}
WriterErrors == {"FORMAT_CONTEXT_UNINITIALIZED", "STREAM_INIT_FAILED",
                 "OUTPUT_FILE_OPEN_FAILED", "HEADER_WRITE_FAILED"}
DecodeErrors == {"PACKET_DECODE_FAILED", "FRAME_DECODE_FAILED"}

StreamTypeOK ==
    /\ layout \in Layouts
    /\ inCtx \in {"null", "open"}
    /\ vIdx \in -1..Len(layout)-1 /\ aIdx \in -1..Len(layout)-1
    /\ vCtx \in {"uninit", "alloc", "open"} /\ aCtx \in {"uninit", "alloc", "open"}
    /\ fbInit \in BOOLEAN /\ abInit \in BOOLEAN
    /\ tries \in 0..MaxTries
    /\ buffersRet \in {"NO_ERROR", "INIT_BUFFER_FAILED"} \cup DecodeErrors
    /\ {vFrame, aFrame, shown, lastV, lastA} \subseteq Packet \cup {NoPacket}
    /\ sws \in {"null", "garbage", "ok"}
    /\ formatRet \in {"NO_ERROR", "FRAME_FORMAT_FAILED"}
    /\ initRet \in {"none", "NO_ERROR"} \cup InitErrors \cup WriterErrors
    /\ death \in {"none", "init", "buffers", "formatter", "decode", "format",
                  "release", "client"}

(* The stream's code crashes in c. *)
Crash(c) == Die("client") /\ death' = c

(* alloc_stream *)
StreamInit ==
    /\ WriterInit
    /\ layout \in Layouts /\ inCtx = "null" /\ vIdx = -1 /\ aIdx = -1
    /\ vCtx = "uninit" /\ aCtx = "uninit"
    /\ fbInit = FALSE /\ abInit = FALSE /\ tries = MaxTries /\ buffersRet = "NO_ERROR"
    /\ vFrame = NoPacket /\ aFrame = NoPacket /\ lastV = NoPacket /\ lastA = NoPacket
    /\ sws = "null" /\ shown = NoPacket /\ formatRet = "NO_ERROR"
    /\ initRet = "none" /\ death = "none"

-----------------------------------------------------------------------------
(* Mutant of the search: the last stream of a kind wins. *)
SelectionOfLast(l) ==
    LET last(k) == LET I == {i \in 1..Len(l) : l[i] = k}
                   IN IF I = {} THEN -1 ELSE (CHOOSE i \in I : \A j \in I : j <= i) - 1
    IN [video |-> last("video"), audio |-> last("audio")]

(* The search of init_stream, after i of the streams of l: it stops as     *)
(* soon as the two indices add up to at least 1.                           *)
Selection(l) ==
    LET found[i \in 0..Len(l)] ==
            IF i = 0 THEN [video |-> -1, audio |-> -1]
            ELSE LET f == found[i - 1]
                 IN IF f.video + f.audio >= 1 THEN f
                    ELSE [video |-> IF f.video = -1 /\ l[i] = "video"
                                    THEN i - 1 ELSE f.video,
                          audio |-> IF f.audio = -1 /\ l[i] = "audio"
                                    THEN i - 1 ELSE f.audio]
    IN found[Len(l)]

(* init_stream fails before its writer is set up.  "params" and "open" are *)
(* avcodec_parameters_to_context and avcodec_open2, of either decoder.     *)
StreamFails ==
    /\ \/ /\ initRet' = "STREAM_OPEN_FAILED"
          /\ UNCHANGED <<inCtx, vIdx, aIdx, codecs>>
       \/ LET s == Selection(layout)
          IN /\ inCtx' = "open" /\ vIdx' = s.video /\ aIdx' = s.audio
             /\ \/ /\ s.video = -1
                   /\ initRet' = "VIDEO_STREAM_NOT_FOUND"
                   /\ UNCHANGED codecs
                \/ /\ s.video # -1
                   /\ initRet' = "CODEC_INIT_FAILED"
                   /\ vCtx' = "alloc"
                   /\ aCtx' \in IF s.audio = -1 THEN {"uninit"} ELSE {"uninit", "alloc"}
                \/ /\ s.video # -1
                   /\ initRet' = "CODEC_OPEN_FAILED"
                   /\ aCtx' = IF s.audio = -1 THEN "uninit" ELSE "alloc"
                   /\ vCtx' \in IF s.audio = -1 THEN {"alloc"} ELSE {"alloc", "open"}
    /\ UNCHANGED <<wvars, layout, death>>

(* Mutant: a stream without sound goes on to its writer. *)
StreamHasNoAudio_skips ==
    /\ LET s == Selection(layout)
       IN /\ s.video # -1 /\ s.audio = -1
          /\ inCtx' = "open" /\ vIdx' = s.video /\ aIdx' = s.audio
    /\ vCtx' = "open" /\ initRet' = "NO_ERROR"
    /\ init_stream_writer("ok")
    /\ UNCHANGED <<layout, aCtx, death>>

(* Without an audio stream the second avcodec_open2 is given what lies     *)
(* before the array of contexts and does not survive it.                   *)
StreamHasNoAudio ==
    /\ LET s == Selection(layout)
       IN /\ s.video # -1 /\ s.audio = -1
          /\ inCtx' = "open" /\ vIdx' = s.video /\ aIdx' = s.audio
    /\ vCtx' = "open"
    /\ Crash("init")
    /\ UNCHANGED <<layout, aCtx, initRet>>

(* What init_stream_writer returns.  The failure "codec" has the code that *)
(* a decoder's has.                                                        *)
WriterResult(outcome) ==
    CASE outcome = "ok"      -> "NO_ERROR"
      [] outcome = "format"  -> "FORMAT_CONTEXT_UNINITIALIZED"
      [] outcome = "streams" -> "STREAM_INIT_FAILED"
      [] outcome = "codec"   -> "CODEC_INIT_FAILED"
      [] outcome = "open"    -> "OUTPUT_FILE_OPEN_FAILED"
      [] outcome = "header"  -> "HEADER_WRITE_FAILED"

StreamOpens ==
    LET s == Selection(layout)
    IN /\ s.video # -1 /\ s.audio # -1
       /\ inCtx' = "open" /\ vIdx' = s.video /\ aIdx' = s.audio
       /\ vCtx' = "open" /\ aCtx' = "open"
       /\ \E outcome \in WriterOutcomes :
             /\ init_stream_writer(outcome)
             /\ initRet' = WriterResult(outcome)
       /\ UNCHANGED <<layout, death>>

init_stream ==
    /\ StreamFails \/ StreamHasNoAudio \/ StreamOpens
    /\ UNCHANGED <<buffers, frames, picture>>

-----------------------------------------------------------------------------
(* decompress_packet on a context: its possible results.                   *)
DecodeResults(ctx) ==
    IF ctx = "open" THEN {"NO_ERROR"} \cup DecodeErrors
    ELSE {"PACKET_DECODE_FAILED"}

(* The streams av_read_frame may deliver a packet of.                      *)
StreamIndices == {i \in 0..Len(layout)-1 : inCtx = "open"}

(* Mutants of an iteration: the tries are not counted down to 0 but past   *)
(* it, or an error is remembered although a later packet was decoded.      *)
BuffersTryUncounted(i) ==
    /\ ~(fbInit /\ abInit) /\ tries' = tries - 1
    /\ UNCHANGED <<wvars, death, buffersRet, fbInit, abInit>>
BuffersTrySticky(i) ==
    /\ tries > 0 /\ ~(fbInit /\ abInit) /\ tries' = tries - 1
    /\ \E r \in {"NO_ERROR"} \cup DecodeErrors :
          /\ buffersRet' = IF r = "NO_ERROR" THEN buffersRet ELSE r
          /\ fbInit' = (fbInit \/ (i = vIdx /\ r = "NO_ERROR"))
          /\ abInit' = (abInit \/ (i = aIdx /\ r = "NO_ERROR"))
    /\ UNCHANGED <<wvars, death>>

(* An iteration of init_buffers that goes on: the packet of stream i is    *)
(* tried on the decoder whose buffer is still missing.  A packet is read   *)
(* before the tries are counted and none of them is recorded.              *)
BuffersTry(i) ==
    /\ tries > 0 /\ ~(fbInit /\ abInit)
    /\ \/ /\ \/ i = vIdx /\ ~fbInit /\ vCtx = "uninit"
             \/ i = aIdx /\ ~abInit /\ aCtx = "uninit"
          /\ Crash("decode")
          /\ UNCHANGED buffers
       \/ /\ tries' = tries - 1
          /\ \/ /\ i = vIdx /\ ~fbInit /\ vCtx # "uninit"
                /\ \E r \in DecodeResults(vCtx) :
                      buffersRet' = r /\ fbInit' = (r = "NO_ERROR")
                /\ UNCHANGED abInit
             \/ /\ i = aIdx /\ ~abInit /\ aCtx # "uninit"
                /\ \E r \in DecodeResults(aCtx) :
                      buffersRet' = r /\ abInit' = (r = "NO_ERROR")
                /\ UNCHANGED fbInit
             \/ /\ ~(i = vIdx /\ ~fbInit) /\ ~(i = aIdx /\ ~abInit)
                /\ UNCHANGED <<buffersRet, fbInit, abInit>>
          /\ UNCHANGED <<wvars, death>>

init_buffers_continues ==
    /\ \E i \in StreamIndices : BuffersTry(i)
    /\ UNCHANGED <<demuxer, codecs, frames, picture, initRet>>

(* init_buffers ends: the read fails, or it delivers one packet too many.  *)
init_buffers_ends ==
    /\ IF inCtx = "null"
       THEN Crash("buffers") /\ UNCHANGED buffersRet
       ELSE /\ buffersRet' = IF tries = 0 THEN "INIT_BUFFER_FAILED" ELSE buffersRet
            /\ UNCHANGED <<wvars, death>>
    /\ UNCHANGED <<demuxer, codecs, fbInit, abInit, tries, frames, picture, initRet>>

(* init_formatter, with sizes never set when no picture was decoded.       *)
init_formatter ==
    /\ IF vIdx = -1 \/ vCtx = "uninit"
       THEN Crash("formatter") /\ UNCHANGED sws
       ELSE /\ sws' \in {"null", IF fbInit THEN "ok" ELSE "garbage"}
            /\ UNCHANGED <<wvars, death>>
    /\ UNCHANGED <<demuxer, codecs, buffers, frames, shown, formatRet, initRet>>

-----------------------------------------------------------------------------
(* Mutant: the old frame is only released when the new one is there. *)
NextFrameReadLazily(i) ==
    /\ vFrame' \in IF i = vIdx THEN {vFrame, accepted + 1} ELSE {vFrame}
    /\ lastV' = IF i = vIdx THEN accepted + 1 ELSE lastV
    /\ UNCHANGED <<aFrame, lastA, death>>
    /\ buffer_frame

(* get_next_frame reads a packet of stream i: the old frame is released    *)
(* before the new packet is decoded, and whatever comes of that the packet *)
(* goes to the writer.                                                     *)
NextFrameRead(i) ==
    /\ ~(i = vIdx /\ vCtx = "uninit") /\ ~(i = aIdx /\ aCtx = "uninit")
    /\ LET p == accepted + 1
       IN /\ IF i = vIdx
             THEN /\ \E r \in DecodeResults(vCtx) :
                        vFrame' = IF r = "NO_ERROR" THEN p ELSE NoPacket
                  /\ lastV' = p
             ELSE UNCHANGED <<vFrame, lastV>>
          /\ IF i = aIdx
             THEN /\ \E r \in DecodeResults(aCtx) :
                        aFrame' = IF r = "NO_ERROR" THEN p ELSE NoPacket
                  /\ lastA' = p
             ELSE UNCHANGED <<aFrame, lastA>>
    /\ buffer_frame
    /\ UNCHANGED death

(* Mutant: the frames are released whatever the read brings. *)
NextFrameFailsReleased ==
    /\ vFrame' = NoPacket /\ aFrame' = NoPacket
    /\ UNCHANGED <<wvars, lastV, lastA, death>>

(* get_next_frame when av_read_frame fails: nothing changes but m_pErrMsg. *)
NextFrameFails == UNCHANGED <<wvars, frames, death>>

(* The packet belongs to a decoder init_stream never allocated.            *)
NextFrameUndecodable(i) ==
    /\ (i = vIdx /\ vCtx = "uninit") \/ (i = aIdx /\ aCtx = "uninit")
    /\ Crash("decode")
    /\ UNCHANGED frames

get_next_frame ==
    /\ \/ \E i \in StreamIndices : NextFrameRead(i)
       \/ \E i \in StreamIndices : NextFrameUndecodable(i)
       \/ NextFrameFails
    /\ UNCHANGED <<demuxer, codecs, buffers, picture, initRet>>

(* format_frame reads through m_pVideoFrame.                               *)
format_frame ==
    /\ \/ /\ vFrame = NoPacket \/ sws # "ok"
          /\ Crash("format")
          /\ UNCHANGED <<shown, formatRet>>
       \/ /\ vFrame # NoPacket /\ sws # "null"
          /\ \/ /\ sws = "ok"
                /\ formatRet' = "NO_ERROR" /\ shown' = vFrame
             \/ formatRet' = "FRAME_FORMAT_FAILED" /\ UNCHANGED shown
          /\ UNCHANGED <<wvars, death>>
    /\ UNCHANGED <<demuxer, codecs, buffers, frames, sws, initRet>>

(* Mutants: free_stream flushes before it says that it is closing, or not  *)
(* at all.                                                                 *)
free_stream_flushes_open ==
    /\ wpc = "idle" /\ ~closing
    /\ wpc' = "write" /\ at' = 0
    /\ UNCHANGED <<why, buf, pend, output, closing, disk, clock, accepted, ghosts, rvars>>
free_stream_unflushed ==
    /\ wpc = "idle" /\ wpc' = "closed" /\ closing' = TRUE
    /\ UNCHANGED <<why, buffer, output, disk, clock, accepted, ghosts, rvars>>

(* free_stream begins: m_nClosing is set and the buffer flushed.           *)
free_stream_begins == close_writer /\ UNCHANGED rvars

(* free_stream between the flush and free_stream_writer.  The codec        *)
(* parameters it releases belong to the streams it has just closed.        *)
free_stream_releases ==
    /\ wpc = "closed"
    /\ \/ Crash("release") /\ UNCHANGED <<vFrame, aFrame, inCtx, vCtx, aCtx, sws, fbInit, abInit>>
       \/ /\ vFrame' = NoPacket /\ aFrame' = NoPacket
          /\ inCtx' = "null" /\ vCtx' = "uninit" /\ aCtx' = "uninit"
          /\ sws' = "null" /\ fbInit' = FALSE /\ abInit' = FALSE
          /\ UNCHANGED <<wvars, death>>
    /\ UNCHANGED <<layout, vIdx, aIdx, tries, buffersRet, lastV, lastA,
                   shown, formatRet, initRet>>

free_stream_ends == free_stream_writer /\ UNCHANGED rvars

-----------------------------------------------------------------------------
(* The index, counted from 0, of the first stream of kind k, or -1.        *)
FirstOf(k) ==
    LET I == {i \in 1..Len(layout) : layout[i] = k}
    IN IF I = {} THEN -1 ELSE (CHOOSE i \in I : \A j \in I : i <= j) - 1

(* What init_stream's search selects is the first stream of its kind, and  *)
(* it misses a kind only behind a stream of the other one at index 2 or    *)
(* more, where the sum of the indices ends it (RtspStream.c:117-129).      *)
SelectionIsFirst ==
    inCtx = "open" /\ wpc # "closed" =>
        /\ vIdx \in {-1, FirstOf("video")} /\ aIdx \in {-1, FirstOf("audio")}
        /\ vIdx # FirstOf("video") => aIdx >= 2
        /\ aIdx # FirstOf("audio") => vIdx >= 2

(* The comment over the search, "Find the first valid video & audio        *)
(* stream" (RtspStream.c:116).                                             *)
FindsFirstVideoAndAudio ==
    inCtx = "open" => vIdx = FirstOf("video") /\ aIdx = FirstOf("audio")
=============================================================================
