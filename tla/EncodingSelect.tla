----------------------------- MODULE EncodingSelect -----------------------------
(* The selection of encoder and decoder: ui/src/misc/EncodingSelect.js, which the
   page of a channel and those of a publication show.
     m: the video or audio of a profile, streams: those it chooses from,
     codecs: what the encoder may make; env: coders and version of ffmpeg. *)
EXTENDS Metadata

HasStream(streams, m, type) ==
    Within(streams, m.stream) /\ At(streams, m.stream).type = type

EncoderList(streams, m, type, codecs, env) ==
    { c.coder : c \in { d \in ToSet(Encoders[type]) :
                          /\ d.coder \in env.encoders[type]
                          /\ d.codec \in codecs
                          /\ d.coder = "copy" => At(streams, m.stream).codec \in codecs } }

\* "No suitable encoder found" otherwise
EncodingShown(streams, m, type, codecs, env) ==
    /\ HasStream(streams, m, type)
    /\ Get(Encoders[type], m.encoder.coder) # NoCoder
    /\ m.encoder.coder \in env.encoders[type]
    /\ EncoderList(streams, m, type, codecs, env) # {}

\* A list with one decoder is not shown.
DecoderList(stream, env) == GetCodersForCodec(Decoders.video, stream.codec, env.decoders)
DecoderShown(streams, m, type, codecs, env) ==
    /\ type = "video" /\ EncodingShown(streams, m, type, codecs, env)
    /\ m.encoder.coder \notin {"copy", "none"}
    /\ Cardinality(DecoderList(At(streams, m.stream), env)) >= 2

\* The components of a coder hand back settings and mapping for the stream when
\* they are mounted.
Handed(coder, registry, stream, env) ==
    LET c == Get(registry, coder.coder)
        settings == InitSettings(c, coder.settings)
    IN  [coder |-> coder.coder, settings |-> settings,
         mapping |-> CreateMapping(c, settings, stream, env.ffmpeg)]

\* handleEncoderChange, handleDecoderChange: the settings of another coder are its
\* defaults.
WithDefaults(c, stream, env) ==
    LET d == Defaults(c, stream, env.ffmpeg)
    IN  [coder |-> c.coder, settings |-> d.settings, mapping |-> d.mapping]

\* A setting of the encoder's component, here the interval of key frames.
WithKeyFrames(encoder, gop, stream, env) ==
    LET s == [encoder.settings EXCEPT !.gop = gop]
    IN  [encoder EXCEPT !.settings = s,
                        !.mapping = CreateMapping(Get(Encoders.video, encoder.coder), s, stream,
                                                  env.ffmpeg)]

-----------------------------------------------------------------------------
(* For properties: the values of an option, what ffmpeg's encoders make, and an *)
(* encoder with the options of its coder.                                        *)

OptionsNamed(options, name) ==
    { options[i][2] : i \in { j \in DOMAIN options : options[j][1] = name } }
EncoderCodecs ==
    [h264 |-> {"libx264", "h264_videotoolbox", "h264_nvenc", "h264_omx", "h264_v4l2m2m",
               "h264_vaapi"},
     hevc |-> {"libx265", "hevc_vaapi", "hevc_videotoolbox", "hevc_nvenc"},
     vp9  |-> {"libvpx-vp9", "vp9_vaapi"},
     av1  |-> {"libaom-av1", "librav1e", "av1_nvenc"},
     aac  |-> {"aac", "aac_at", "libfdk_aac"}, mp3 |-> {"libmp3lame"},
     opus |-> {"opus", "libopus"}, vorbis |-> {"vorbis", "libvorbis"},
     rawvideo |-> {"rawvideo"}]

Media == {"video", "audio"}
CodecOption(type) == IF type = "video" THEN "-codec:v" ELSE "-codec:a"
OffOption(type) == IF type = "video" THEN "-vn" ELSE "-an"

IsList(s) == s \in Seq(ToSet(s))
HasFields(r, fields) == fields \subseteq DOMAIN r

\* Options that do not speak of coders.
Reserved == {"-codec:v", "-codec:a", "-vn", "-an"}
Free(o) == IsList(o) /\ \A x \in ToSet(o) : x[1] \notin Reserved

\* An encoder of a profile has the options of its coder, and no format.
IsEncoder(e, type) ==
    LET local == e.mapping.local
    IN  /\ HasFields(e, {"coder", "settings", "mapping"})
        /\ HasFields(e.mapping, {"global", "local", "filter"}) /\ "array" \notin DOMAIN e.mapping
        /\ IsList(local) /\ OptionsNamed(local, "-f") = {}
        /\ \A t \in Media \ {type} : /\ OptionsNamed(local, CodecOption(t)) = {}
                                     /\ OptionsNamed(local, OffOption(t)) = {}
        /\ e.coder # "none" => /\ OptionsNamed(local, CodecOption(type)) = {e.coder}
                               /\ OptionsNamed(local, OffOption(type)) = {}
=============================================================================
