------------------------------ MODULE MCViewer ------------------------------
(* Small instances of the viewer for TLC. *)
EXTENDS Viewer

(* A camera as most are, with sound. *)
MCCamera == {<<"video", "audio">>}

(* Cameras with the streams in either order, with a second one of a kind,  *)
(* with data streams before or between them, without sound and without     *)
(* picture.                                                                *)
MCCameras ==
    {<<"video", "audio", "video">>, <<"audio", "data", "video">>, <<"video">>, <<"data">>,
     <<"data", "data", "audio", "video">>, <<"data", "data", "video", "audio">>}
=============================================================================
