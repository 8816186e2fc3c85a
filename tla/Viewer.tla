-------------------------------- MODULE Viewer --------------------------------
(***************************************************************************)
(* The desktop viewer, desktop/src/main.cpp: one thread that sets up the   *)
(* camera stream, then reads, formats and draws one frame after the other  *)
(* until its window is closed, and tears the stream down.  It ignores      *)
(* every return code of the stream.  The flush a get_next_frame or a       *)
(* free_stream runs into is the writer's (module RtspStreamWriter); the    *)
(* main thread goes on when it is over.                                    *)
(***************************************************************************)
EXTENDS RtspStream

VARIABLES
    pc,        \* where main is
    closeAsked,\* the user has closed the window
    pbo,       \* the picture in the pixel buffer object: NoPacket is none yet
    screen     \* the picture in the texture that was drawn last

screenvars == <<pbo, screen>>
vvars == <<wvars, rvars, pc, closeAsked, screenvars>>

Points == {"start", "init", "buffers", "formatter", "window", "loop", "format",
           "upload", "closing", "writer", "done", "exit"}

ViewerTypeOK ==
    /\ WriterTypeOK /\ StreamTypeOK
    /\ pc \in Points
    /\ closeAsked \in BOOLEAN
    /\ {pbo, screen} \subseteq Packet \cup {NoPacket}

ViewerInit ==
    /\ StreamInit
    /\ pc = "start" /\ closeAsked = FALSE
    /\ pbo = NoPacket /\ screen = NoPacket

(* The main thread is alive and not inside flush_buffer. *)
InMain == wpc \in {"uninit", "idle", "closed"}

At(p) == pc = p /\ InMain
Goto(p) == pc' = p

(* main returns or exits without free_stream.                              *)
Leave == /\ Die("client") /\ Goto("exit")
         /\ UNCHANGED <<rvars, closeAsked, screenvars>>

StartGlfw ==
    /\ At("start")
    /\ \/ Leave
       \/ Goto("init") /\ UNCHANGED <<wvars, rvars, closeAsked, screenvars>>

InitStream ==
    /\ At("init") /\ init_stream /\ Goto("buffers")
    /\ UNCHANGED <<closeAsked, screenvars>>

InitBuffers ==
    /\ At("buffers")
    /\ \/ init_buffers_continues /\ UNCHANGED pc
       \/ init_buffers_ends /\ Goto("formatter")
    /\ UNCHANGED <<closeAsked, screenvars>>

InitFormatter ==
    /\ At("formatter") /\ init_formatter /\ Goto("window")
    /\ UNCHANGED <<closeAsked, screenvars>>

(* The window and GLEW; sizes that were never set may do for a window. *)
OpenWindow ==
    /\ At("window")
    /\ \/ Leave
       \/ Goto("loop") /\ UNCHANGED <<wvars, rvars, closeAsked, screenvars>>

(* Mutant: the loop does not ask for the window. *)
GetNextFrameForever ==
    /\ At("loop")
    /\ get_next_frame /\ Goto("format")
    /\ UNCHANGED <<closeAsked, screenvars>>

(* glfwWindowShouldClose and, when it says no, get_next_frame. *)
GetNextFrame ==
    /\ At("loop") /\ ~closeAsked
    /\ get_next_frame /\ Goto("format")
    /\ UNCHANGED <<closeAsked, screenvars>>

FormatFrame ==
    /\ At("format") /\ format_frame /\ Goto("upload")
    /\ UNCHANGED <<closeAsked, screenvars>>

(* Mutant: the pixel buffer is not bound while the texture is filled. *)
UploadUnbound ==
    /\ At("upload")
    /\ screen' = shown /\ Goto("loop")
    /\ UNCHANGED <<wvars, rvars, pbo, closeAsked>>

(* The texture is filled from the pixel buffer before that is filled from  *)
(* the picture just formatted; a picture buffer init_buffers never made is *)
(* read all the same.                                                      *)
Upload ==
    /\ At("upload")
    /\ \/ /\ ~fbInit
          /\ Crash("client")
          /\ UNCHANGED <<demuxer, codecs, buffers, frames, picture, initRet,
                         pc, screenvars>>
       \/ /\ screen' = pbo
          /\ pbo' = shown
          /\ Goto("loop")
          /\ UNCHANGED <<wvars, rvars>>
    /\ UNCHANGED closeAsked

Close ==
    /\ At("loop") /\ closeAsked
    /\ free_stream_begins /\ Goto("closing")
    /\ UNCHANGED <<closeAsked, screenvars>>

Release ==
    /\ At("closing") /\ free_stream_releases /\ Goto("writer")
    /\ UNCHANGED <<closeAsked, screenvars>>

FreeWriter ==
    /\ At("writer") /\ free_stream_ends /\ Goto("done")
    /\ UNCHANGED <<closeAsked, screenvars>>

Flush == WriterFlush /\ UNCHANGED <<rvars, pc, closeAsked, screenvars>>

Main == \/ StartGlfw \/ InitStream \/ InitBuffers \/ InitFormatter \/ OpenWindow
        \/ GetNextFrame \/ FormatFrame \/ Upload
        \/ Close \/ Release \/ FreeWriter
        \/ Flush

(* The user closes the window. *)
AskClose ==
    /\ pc \notin {"start", "init", "buffers", "formatter", "window"}
    /\ ~closeAsked /\ closeAsked' = TRUE
    /\ UNCHANGED <<wvars, rvars, pc, screenvars>>

ClockTick == Tick /\ UNCHANGED <<rvars, pc, closeAsked, screenvars>>

Ended == wpc \in {"gone", "crash"} /\ UNCHANGED vvars

ViewerNext == Main \/ AskClose \/ ClockTick \/ Ended

ViewerSpec == ViewerInit /\ [][ViewerNext]_vvars
ViewerFairSpec == ViewerSpec /\ WF_vvars(Main)
-----------------------------------------------------------------------------
Dead == wpc = "crash"

(* What is drawn is never staler than it looks: a picture format_frame has *)
(* just delivered is the one of the newest video packet read, because the  *)
(* old frame is released before the decoder is asked (RtspStream.c:206-211,*)
(* 231-245; main.cpp:103-104).                                             *)
PictureIsNewest ==
    (pc = "upload" /\ formatRet = "NO_ERROR" /\ ~Dead) =>
        shown = lastV /\ lastV # NoPacket

(* Pictures pass through the stages in order, none overtakes another and   *)
(* the screen never goes back to an older one: texture, pixel buffer,      *)
(* picture buffer, newest packet (main.cpp:103-136).                       *)
StagesInOrder ==
    /\ screen <= pbo /\ pbo <= shown /\ shown <= lastV
    /\ vFrame \in {NoPacket, lastV} /\ aFrame \in {NoPacket, lastA}

(* Nothing is shown, no packet is kept and no file is made but of a camera *)
(* whose picture and sound were both found and whose decoders are both     *)
(* open, until free_stream releases them: a camera without sound, or one   *)
(* the search misses it in, ends the viewer, and so does every failure     *)
(* before the writer's set-up, although each of them is ignored            *)
(* (RtspStream.c:117-154; main.cpp:50-52, 103-104).                        *)
NeedsBothDecoders ==
    \/ screen # NoPacket \/ accepted > 0
    \/ \E t \in Time : disk[t].state # "absent"
    => /\ vIdx # -1 /\ aIdx # -1
       /\ (vCtx = "open" /\ aCtx = "open") \/ pc \in {"writer", "done"}

(* With a scaler, a picture that has been formatted never becomes the one  *)
(* format_frame crashes on: failed reads and audio packets leave the frame *)
(* alone, only a newer video packet that did not decode takes it away      *)
(* (RtspStream.c:203-227, 236).                                            *)
ShownPictureStays ==
    death = "format" /\ sws = "ok" => lastV = NoPacket \/ shown < lastV

(* A writer that could not be set up for lack of a context, of a stream's  *)
(* parameters or of a file never records anything, however long the viewer *)
(* goes on: its error, which may look like that of a decoder, is           *)
(* ignored (main.cpp:50), packets pile up, and its first flush is its last *)
(* act (AVIO.c:66-112, 140-175).                                           *)
FailedWriterRecordsNothing ==
    initRet \in (WriterErrors \ {"HEADER_WRITE_FAILED"}) \cup {"CODEC_INIT_FAILED"} =>
        OnDisk = {} /\ ~aliased

(* Closing the window loses no packet in memory: when free_stream is over, *)
(* or dies of the codec parameters or the file name it releases a second   *)
(* time, the buffer was written and, if no call failed, each file finished *)
(* (RtspStream.c:47-48, 59-69, 87; AVIO.c:37, 43 after 184).               *)
CloseKeepsRecording ==
    death = "release" \/ why = "teardown" \/ pc = "done" =>
        /\ Waiting = <<>>
        /\ ~faulted => \A t \in Time : disk[t].state \in {"absent", "complete"}

(* A decoding error of init_buffers means that a buffer is missing: its    *)
(* result is the one of the last packet decoded, and no decoder whose      *)
(* buffer is there is tried again (RtspStream.c:164-188).                  *)
DecodeErrorMeansMissing ==
    buffersRet \in DecodeErrors => ~(fbInit /\ abInit)

(* Once the window is closed the viewer ends, through free_stream or by    *)
(* dying on the way (main.cpp:101, 170).                                   *)
CloseEnds == closeAsked ~> (pc = "done" \/ Dead)

(* The viewer drives its writer the way the writer allows.                 *)
DrivesWriter == WriterSpec
=============================================================================
