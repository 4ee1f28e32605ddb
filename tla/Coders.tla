------------------------------- MODULE Coders -------------------------------
(* The encoders and decoders the web interface offers, one definition for     *)
(* each file under src/ui/src/misc/coders: for which codecs it is, the        *)
(* settings it starts with (init, defaults) and the ffmpeg options its        *)
(* createMapping makes of settings, stream and ffmpeg version. Options        *)
(* nothing depends on (bit rate, preset, tune, quality...) are left out.      *)
(* An option is a pair <<name, value>>; a coder lists its options as groups,  *)
(* in the order of the file, and Options says what a group stands for.        *)
EXTENDS Integers, Sequences, SequencesExt

Automatic == 0              \* the value "auto" of a key frame interval
NoMapping == [global |-> <<>>, local |-> <<>>, filter |-> <<>>]

-----------------------------------------------------------------------------
(* What a group of options stands for. g: key frame interval in s; fps: frames
   per s; mode: fps_mode; profile; resize, gpu: of a decoder. *)
Options(group, s, stream, ff) ==
    CASE group = "rate" -> << <<"-r", s.fps>> >>
      [] group = "gop" -> IF s.gop = Automatic THEN <<>> ELSE << <<"-g", s.fps * s.gop>> >>
      [] group = "gop as set" -> << <<"-g", s.gop>> >>
      [] group = "keyint" ->
            IF s.gop = Automatic THEN <<>> ELSE << <<"-keyint_min", s.fps * s.gop>> >>
      [] group = "keyint of a second" ->
            IF s.gop = Automatic THEN <<>> ELSE << <<"-keyint_min", s.fps>> >>
      [] group = "fps_mode" -> IF ff >= 5 THEN << <<"-fps_mode", s.mode>> >> ELSE <<>>
      [] group = "profile" ->
            IF s.profile = "auto" THEN <<>> ELSE << <<"-profile:v", s.profile>> >>
      [] group = "profile as set" -> << <<"-profile:v", s.profile>> >>
      [] group = "adts" ->
            IF stream.codec = "aac" THEN << <<"-bsf:a", "aac_adtstoasc">> >> ELSE <<>>
      [] group = "gpu" -> << <<"-gpu", s.gpu>> >>
      [] group = "hwaccel_device" -> << <<"-hwaccel_device", s.gpu>> >>
      [] group = "resize" ->
            IF s.resize = "auto" THEN <<>> ELSE << <<"-resize", s.resize>> >>

\* createMapping of a coder.
CreateMapping(c, s, stream, ff) ==
    [global |-> c.global,
     local |-> c.first \o FlattenSeq([i \in DOMAIN c.groups |->
                                        Options(c.groups[i], s, stream, ff)]),
     filter |-> c.filter]

\* What is stored before what is used without it; as @@, for the provers.
Merged(stored, defaults) ==
    [f \in DOMAIN stored \cup DOMAIN defaults |->
        IF f \in DOMAIN stored THEN stored[f] ELSE defaults[f]]
\* init: the stored settings over the defaults of the file.
InitSettings(c, s) == Merged(s, c.defaults)

-----------------------------------------------------------------------------
(* Encoders *)

VideoSettings(gop, mode, profile) ==
    [gop |-> gop, fps |-> 25, mode |-> mode, profile |-> profile]

Video(coder, codec, hwaccel, groups, defaults) ==
    [coder |-> coder, codec |-> codec, hwaccel |-> hwaccel, defaults |-> defaults,
     global |-> <<>>, first |-> << <<"-codec:v", coder>> >>, groups |-> groups,
     filter |-> <<>>]

\* Frames are uploaded to the device at the end of the filter chain.
Vaapi(c) == [c EXCEPT !.global = << <<"-vaapi_device", "renderD128">> >>,
                      !.filter = << <<"format", "nv12">>, <<"hwupload", "">> >>]

Audio(coder, codec, hwaccel, groups) ==
    [coder |-> coder, codec |-> codec, hwaccel |-> hwaccel,
     defaults |-> [bitrate |-> 64],
     global |-> <<>>, first |-> << <<"-codec:a", coder>> >>, groups |-> groups,
     filter |-> <<>>]

VsyncDrop(c) == [c EXCEPT !.global = << <<"-vsync", "drop">> >>]

\* copy and none take no settings; none switches the type off.
VideoCopy == [Video("copy", "copy", FALSE, <<>>, <<>>) EXCEPT !.defaults = <<>>]
VideoNone == [Video("none", "none", FALSE, <<>>, <<>>) EXCEPT
                !.first = << <<"-vn", "">> >>]
VideoRaw == Video("rawvideo", "rawvideo", FALSE, <<>>, <<>>)
AudioCopy == [Audio("copy", "copy", FALSE, <<>>) EXCEPT !.defaults = <<>>]
AudioNone == [Audio("none", "none", FALSE, <<>>) EXCEPT
                !.first = << <<"-an", "">> >>, !.defaults = <<>>]

X264 == Video("libx264", "h264", FALSE,
              <<"rate", "gop", "keyint", "fps_mode", "profile">>,
              VideoSettings(2, "auto", "auto"))
X265 == Video("libx265", "hevc", FALSE,
              <<"rate", "gop", "keyint", "fps_mode", "profile">>,
              VideoSettings(2, "auto", "auto"))
H264VideoToolbox == Video("h264_videotoolbox", "h264", TRUE,
                          <<"rate", "gop", "profile">>, VideoSettings(2, "", "auto"))
HEVCVideoToolbox == Video("hevc_videotoolbox", "hevc", TRUE,
                          <<"rate", "gop", "profile">>, VideoSettings(2, "", "auto"))
H264NVENC == Video("h264_nvenc", "h264", TRUE,
                   <<"rate", "gop", "profile">>, VideoSettings(2, "", "auto"))
HEVCNVENC == Video("hevc_nvenc", "hevc", TRUE,
                   <<"rate", "gop", "profile">>, VideoSettings(2, "", "auto"))
AV1NVENC == Video("av1_nvenc", "av1", TRUE,
                  <<"rate", "gop">>, VideoSettings(2, "", "auto"))
H264OMX == Video("h264_omx", "h264", TRUE,
                 <<"rate", "gop", "profile">>, VideoSettings(2, "", "auto"))
H264V4L2M2M == Video("h264_v4l2m2m", "h264", TRUE,
                     <<"rate", "gop", "keyint of a second", "fps_mode", "profile">>,
                     VideoSettings(4, "cfr", "auto"))
H264VAAPI == Vaapi(Video("h264_vaapi", "h264", TRUE,
                         <<"profile as set", "rate", "gop">>, VideoSettings(2, "", "77")))
\* hevc_vaapi.js and vp9_vaapi.js set -g twice, first to the interval in seconds.
HEVCVAAPI == Vaapi(Video("hevc_vaapi", "hevc", TRUE,
                         <<"profile as set", "rate", "gop as set", "gop">>,
                         VideoSettings(2, "", "77")))
VP9VAAPI == Vaapi(Video("vp9_vaapi", "vp9", TRUE,
                        <<"profile as set", "rate", "gop as set", "gop">>,
                        VideoSettings(2, "", "77")))
VP9VPX == Video("libvpx-vp9", "vp9", FALSE,
                <<"rate", "gop", "keyint", "fps_mode">>, VideoSettings(2, "auto", ""))
AV1AOM == Video("libaom-av1", "av1", FALSE,
                <<"rate", "gop", "keyint", "fps_mode">>, VideoSettings(2, "auto", ""))
AV1Rav1e == Video("librav1e", "av1", FALSE,
                  <<"rate", "gop", "keyint", "fps_mode">>, VideoSettings(2, "auto", ""))

AAC == Audio("aac", "aac", FALSE, <<"adts">>)
AACAudioToolbox == VsyncDrop(Audio("aac_at", "aac", TRUE, <<"adts">>))
AACFDK == Audio("libfdk_aac", "aac", FALSE, <<"adts">>)
MP3 == VsyncDrop(Audio("libmp3lame", "mp3", FALSE, <<>>))
Opus == VsyncDrop(Audio("opus", "opus", FALSE, <<>>))
Libopus == Audio("libopus", "opus", FALSE, <<>>)
Vorbis == VsyncDrop(Audio("vorbis", "vorbis", FALSE, <<>>))
Libvorbis == Audio("libvorbis", "vorbis", FALSE, <<>>)

\* The registries, in the order of registration.
Encoders ==
    [video |-> <<VideoCopy, VideoNone, X264, H264VideoToolbox, H264NVENC, H264OMX,
                 H264V4L2M2M, H264VAAPI, X265, HEVCVAAPI, HEVCVideoToolbox, HEVCNVENC,
                 VP9VPX, VP9VAAPI, AV1AOM, AV1Rav1e, AV1NVENC, VideoRaw>>,
     audio |-> <<AudioCopy, AudioNone, AAC, AACAudioToolbox, AACFDK, MP3, Opus,
                 Libopus, Vorbis, Libvorbis>>]

-----------------------------------------------------------------------------
(* Decoders *)

Decoder(coder, codecs, first, groups) ==
    [coder |-> coder, codecs |-> codecs, global |-> <<>>, first |-> first,
     groups |-> groups, filter |-> <<>>,
     defaults |-> [gpu |-> 0, resize |-> "auto"]]
DecodeWith(coder) == << <<"-c:v", coder>> >>
Cuvid(coder, codec) == Decoder(coder, {codec}, DecodeWith(coder), <<"gpu", "resize">>)
Mmal(coder, codec) == Decoder(coder, {codec}, DecodeWith(coder), <<>>)

VideoDefault == Decoder("default", {}, <<>>, <<>>)
AudioDefault == Decoder("default", {}, <<>>, <<>>)
NVDEC == Decoder("cuda",
                 {"av1", "h264", "hevc", "mpeg1", "mpeg2", "mpeg4", "vp8", "vp9", "vc1"},
                 << <<"-hwaccel", "cuda">>, <<"-hwaccel_output_format", "nv12">> >>,
                 <<"hwaccel_device">>)
H264MMAL == Mmal("h264_mmal", "h264")
H264CUVID == Cuvid("h264_cuvid", "h264")
HEVCCUVID == Cuvid("hevc_cuvid", "hevc")
MJPEGCUVID == Cuvid("mjpeg_cuvid", "mjpeg")
MPEG1CUVID == Cuvid("mpeg1_cuvid", "mpeg1")
MPEG2CUVID == Cuvid("mpeg2_cuvid", "mpeg2")
MPEG2MMAL == Mmal("mpeg2_mmal", "mpeg2")
MPEG4CUVID == Cuvid("mpeg4_cuvid", "mpeg4")
MPEG4MMAL == Mmal("mpeg4_mmal", "mpeg4")
VC1CUVID == Cuvid("vc1_cuvid", "vc1")
VC1MMAL == Mmal("vc1_mmal", "vc1")
VideoToolbox == Decoder("videotoolbox", {"h264", "hevc", "vp9", "mpeg1", "mpeg2", "mpeg4"},
                        << <<"-hwaccel", "videotoolbox">> >>, <<>>)
VP8CUVID == Cuvid("vp8_cuvid", "vp8")
VP9CUVID == Cuvid("vp9_cuvid", "vp9")
AV1CUVID == Decoder("av1_cuvid", {"av1"},
                    << <<"-hwaccel", "cuda">>, <<"-c:v", "av1_cuvid">> >>, <<>>)

\* An empty list of codecs takes every codec (GetCodersForCodec).
Decoders ==
    [video |-> <<VideoDefault, VideoToolbox, AV1CUVID, NVDEC, H264MMAL, H264CUVID,
                 HEVCCUVID, MJPEGCUVID, MPEG1CUVID, MPEG2CUVID, MPEG2MMAL, MPEG4CUVID,
                 MPEG4MMAL, VC1CUVID, VC1MMAL, VP8CUVID, VP9CUVID>>,
     audio |-> <<AudioDefault>>]

-----------------------------------------------------------------------------
(* The registries' lookups; NoCoder stands for null. *)

NoCoder == [coder |-> "null", codec |-> "null"]

\* Every coder is registered once.
Get(registry, coder) ==
    IF \E c \in ToSet(registry) : c.coder = coder
    THEN CHOOSE c \in ToSet(registry) : c.coder = coder ELSE NoCoder

\* The first coder of a codec that ffmpeg has.
GetCoderForCodec(registry, codec, available) ==
    LET fits == { i \in DOMAIN registry : /\ registry[i].codec = codec
                                          /\ registry[i].coder \in available }
    IN  IF fits = {} THEN NoCoder ELSE registry[CHOOSE i \in fits : \A j \in fits : i <= j]

\* The decoders for a codec that ffmpeg has.
GetCodersForCodec(registry, codec, available) ==
    { c.coder : c \in { d \in ToSet(registry) : /\ d.codecs = {} \/ codec \in d.codecs
                                                /\ d.coder \in available } }

\* defaults: the settings and the mapping a coder starts with.
Defaults(c, stream, ff) ==
    [settings |-> c.defaults, mapping |-> CreateMapping(c, c.defaults, stream, ff)]
=============================================================================
