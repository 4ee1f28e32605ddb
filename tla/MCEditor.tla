------------------------------ MODULE MCEditor ------------------------------
(* Small instances of the page of a channel and of the wizard. Every environment
   has one feature to look at: one more encoder, decoder, source, pair of
   filters, the controls, the choice of streams, or the wizard. *)
EXTENDS Wizard

Stream(type, codec, i) == [type |-> type, codec |-> codec, index |-> 0, stream |-> i]
V(codec, i) == Stream("video", codec, i)
A(codec, i) == Stream("audio", codec, i)

Base ==
    [encoders |-> [video |-> {"copy", "none", "libx264"}, audio |-> {"copy", "none", "aac"}],
     decoders |-> {"default"}, filters |-> {}, sources |-> {"network"},
     protocols |-> {"rtsp", "http", "rtmp", "srt", "playout"}, demuxers |-> {"rtsp"},
     ffmpeg |-> 6, enhanced |-> {"hvc1"}, servers |-> {"rtmp", "srt"}, maxHours |-> 4,
     found |-> [video |-> {<<V("h264", 0), A("aac", 1)>>}, audio |-> {<<A("pcm", 0)>>}],
     touched |-> {"editor"}, saves |-> 1, changes |-> 4]

Test(e) == [e EXCEPT !.sources = {"virtualvideo"}]
Coders1(e) == [e EXCEPT !.touched = @ \cup {"coders"}]

WithVideoEncoder(c) ==
    [Coders1(Test(Base)) EXCEPT !.encoders.video = {"copy", "none", "libx264", c},
        !.found.video = {<<V("hevc", 0)>>, <<V("h264", 0)>>}, !.changes = 3]
WithAudioEncoder(c) ==
    [Coders1(Test(Base)) EXCEPT !.encoders.audio = {"copy", "none", "aac", c},
        !.found.video = {<<V("h264", 0), A("opus", 1)>>},
        !.sources = @ \cup {"virtualaudio"}, !.changes = 3]
WithDecoder(d) ==
    LET codec == IF d \in {"cuda", "videotoolbox"} THEN "h264"
                 ELSE CHOOSE c \in Get(Decoders.video, d).codecs : TRUE
    IN  [Coders1(Test(Base)) EXCEPT !.decoders = {"default", d},
            !.found.video = {<<V(codec, 0)>>}, !.saves = 2]
WithFilters(fs) ==
    [Test(Base) EXCEPT !.touched = @ \cup {"filters"}, !.filters = fs,
        !.encoders.video = {"copy", "none", "libx264"}, !.changes = IF "drawtext" \in fs THEN 4 ELSE 3,
        !.found.video = {<<V("hevc", 0), A("opus", 1)>>}]
WithSource(t) ==
    [Base EXCEPT !.sources = IF t \in {"alsa", "virtualaudio", "audioloop"}
                             THEN {"virtualvideo", t} ELSE {t},
        !.found.video = @ \cup {<<>>, <<V("h264", 0)>>, <<A("aac", 0)>>}, !.found.audio = @ \cup {<<>>},
        !.changes = 3]

EncoderEnvironments ==
    { WithVideoEncoder(c.coder) : c \in { d \in ToSet(Encoders.video) :
                                            d.coder \notin {"copy", "none", "libx264"} } }
    \cup { WithAudioEncoder(c.coder) : c \in { d \in ToSet(Encoders.audio) :
                                            d.coder \notin {"copy", "none", "aac"} } }
DecoderEnvironments ==
    { WithDecoder(d.coder) : d \in { c \in ToSet(Decoders.video) : c.coder # "default" } }
FilterEnvironments ==
    { WithFilters(fs) : fs \in {{"setpts", "scale"}, {"bwdif", "transpose"}, {"fps", "hflip"},
                                {"vflip", "drawtext"}, {"aresample", "pan"},
                                {"volume", "loudnorm"}} }
    \cup {[WithFilters({"scale", "hflip"}) EXCEPT
              !.encoders.video = {"copy", "none", "h264_vaapi"}]}
SourceEnvironments == { WithSource(t) : t \in DOMAIN Capabilities \ {"noaudio", "videoaudio"} }
ControlEnvironments ==
    {[Test(Base) EXCEPT !.touched = @ \cup {"controls", "failures"}, !.changes = 3]}
StreamEnvironments ==
    {[Test(Base) EXCEPT !.touched = @ \cup {"streams"},
         !.found.video = {<<V("h264", 0), A("aac", 1), A("opus", 2)>>, <<A("opus", 0), V("hevc", 1)>>}]}
WizardEnvironments ==
    LET e == [Base EXCEPT !.touched = {"wizard"}, !.changes = 3,
                 !.found.video = {<<V("h264", 0), A("aac", 1), A("opus", 2)>>, <<V("hevc", 0)>>, <<>>},
                 !.found.audio = @ \cup {<<>>}]
    IN  { [e EXCEPT !.sources = {s, "alsa"}, !.changes = 2] :
              s \in {"network", "raspicam", "avfoundation"} }
        \cup {[e EXCEPT !.sources = {"video4linux2", "alsa"}, !.decoders = {"default", "cuda"},
                        !.encoders.video = @ \cup {"h264_nvenc", "libx265"}]}
BothEnvironments ==
    LET e == [Test(Base) EXCEPT !.touched = {"editor", "wizard"}, !.sources = @ \cup {"network"}]
    IN  {[e EXCEPT !.touched = @ \cup {"failures"}, !.changes = 2],
         [e EXCEPT !.saves = 2, !.changes = 2]}

Settings ==
    [virtualvideo |-> {[source |-> "testsrc"]}, virtualaudio |-> {[source |-> "silence"]},
     alsa |-> {[device |-> "1,0", delay |-> 0], [device |-> "1,0", delay |-> 1]},
     avfoundation |-> {[cursor |-> FALSE], [cursor |-> TRUE]},
     video4linux2 |-> {[device |-> "none"], [device |-> "/dev/video0"]},
     raspicam |-> {[device |-> "/dev/video0"]},
     videoloop |-> {[address |-> "video", image |-> FALSE], [address |-> "video", image |-> TRUE]},
     audioloop |-> {[address |-> "audio"]},
     sdp |-> {[address |-> "sdp"]},
     x11grab |-> {[device |-> ":1"], [device |-> ":1", fflags |-> {}]},
     channel |-> {[channelid |-> "other"]},
     network |-> {[protocol |-> "rtsp", stability |-> "strict", udp |-> TRUE],
                  [protocol |-> "http", login |-> TRUE, liveguard |-> "video"],
                  [protocol |-> "rtmp", itself |-> TRUE],
                  [mode |-> "push", push |-> "srt"]}]

FilterSettings ==
    [setpts    |-> {[enabled |-> TRUE, fps |-> 25]},
     bwdif     |-> {[enabled |-> TRUE, mode |-> "0"]},
     fps       |-> {[enabled |-> TRUE, fps |-> 30]},
     scale     |-> { [FilterDefaults.scale EXCEPT !.mode = m] : m \in {"height", "width", "fix"} },
     transpose |-> { [value |-> v] : v \in {"90", "180", "270"} },
     hflip     |-> {[enabled |-> TRUE]},
     vflip     |-> {[enabled |-> TRUE]},
     drawtext  |-> { [FilterDefaults.drawtext EXCEPT !.enabled = e, !.template = t,
                         !.logo1.enabled = l, !.logo1.stored = l] : e, t, l \in BOOLEAN },
     aresample |-> {[layout |-> "mono", sampling |-> "inherit"]},
     pan       |-> {[value |-> "mute_left"], [value |-> "mute_right"]},
     volume    |-> {[level |-> "custom", db |-> "3dB"], [level |-> "50", db |-> "0dB"]},
     loudnorm  |-> {[enabled |-> TRUE]}]

\* A channel that was never set up, and one of an old version.
New == [version |-> "1.2.0", sources |-> <<>>, profile |-> Nothing, streams |-> <<>>,
        control |-> DefaultControl]
Old ==
    LET clock == << <<LegacyClock, 15>> >>
        source(type) == [type |-> type, settings |-> [source |-> "testsrc"],
                         inputs |-> VirtualVideo([source |-> "testsrc"]),
                         streams |-> <<V("hevc", 0), A("opus", 1)>>]
        Coded(coder) == [coder |-> coder, settings |-> [gop |-> 2, fps |-> 25, mode |-> "auto",
                                                       profile |-> "auto"],
                         mapping |-> [array |-> << <<"-codec:v", coder>> >>]]
    IN  [version |-> "1.1.0", sources |-> <<source("virtualvideo"), [type |-> "videoaudio"]>>, streams |-> <<>>,
         control |-> DefaultControl,
         profile |->
            [video |-> [source |-> 0, stream |-> 0, encoder |-> Coded("libx264"),
                        filter |-> [graph |-> clock,
                                    settings |-> [setpts |-> [settings |-> [enabled |-> TRUE],
                                                              graph |-> clock]]]],
             audio |-> [source |-> 0, stream |-> 1,
                        encoder |-> [coder |-> "aac", mapping |-> [array |-> << <<"-codec:a", "aac">> >>],
                                     settings |-> [layout |-> "mono", sampling |-> "48000",
                                                   bitrate |-> 64]]]]]

Stored(meta) ==
    [ingest |-> <<>>, meta |-> meta, snapshot |-> <<>>, preview |-> <<>>,
     past |-> [asked |-> IF meta.version = "1.1.0" THEN "video" ELSE "none", abandoned |-> FALSE],
     asked |-> "none", by |-> "none", whole |-> FALSE]
Begin(environments, meta) == { [env |-> e, core |-> Stored(meta)] : e \in environments }

OldStarts == Begin({WithFilters({}), WithFilters({"setpts", "scale"})}, Old)
WizardStarts == Begin(WizardEnvironments, New)
AllStarts ==
    Begin(EncoderEnvironments \cup DecoderEnvironments \cup FilterEnvironments
         \cup SourceEnvironments \cup ControlEnvironments \cup StreamEnvironments
         \cup BothEnvironments, New)
    \cup OldStarts \cup WizardStarts
=============================================================================
