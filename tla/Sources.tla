------------------------------ MODULE Sources ------------------------------
(* The sources of a channel, one definition for each file under
   src/ui/src/views/Edit/Sources: the inputs (address and ffmpeg options) that
   createInputs makes of the settings. Sizes, rates and formats of pictures and
   sound are left out.
   An address is a pair <<kind, what>>, an option a pair <<name, value>>. *)
EXTENDS Integers, Sequences, SequencesExt

Opt(name, value) == << <<name, value>> >>
OptIf(cond, name, value) == IF cond THEN Opt(name, value) ELSE <<>>
Input(address, options) == << [address |-> address, options |-> options, stability |-> "standard"] >>

-----------------------------------------------------------------------------
(* Devices, files and generators *)

\* device "none" is replaced by a field that is empty in the settings of new sources
Device(s) == IF s.device \in {"custom", "none"} THEN s.deviceCustom ELSE s.device

ALSA(s) ==
    Input(<<"hw", s.device>>,
          Opt("-f", "alsa") \o Opt("-thread_queue_size", 512)
          \o OptIf(s.delay # 0, "-itsoffset", s.delay))
AVFoundation(s) ==
    Input(<<"avf", <<s.vindex, s.aindex>> >>,
          Opt("-f", "avfoundation") \o OptIf(s.framerate # 0, "-framerate", s.framerate)
          \o OptIf(s.size # "auto", "-video_size", s.size)
          \o OptIf(s.cursor, "-capture_cursor", "") \o OptIf(s.clicks, "-capture_mouse_clicks", ""))
V4L(s) ==
    Input(<<"device", Device(s)>>,
          Opt("-thread_queue_size", 512) \o Opt("-re", "") \o Opt("-f", "video4linux2")
          \o Opt("-video_size", s.size))
Raspicam(s) ==
    Input(<<"device", Device(s)>>,
          Opt("-thread_queue_size", 512) \o Opt("-re", "") \o Opt("-f", "video4linux2")
          \o Opt("-video_size", s.size))
Framebuffer(s) == Input(<<"device", Device(s)>>, Opt("-f", "fbdev"))
\* follow_mouse is a text, so draw_mouse is always 0
X11grab(s) ==
    Input(<<"device", Device(s)>>,
          Opt("-thread_queue_size", 1024)
          \o OptIf(s.fflags # {}, "-fflags", s.fflags)
          \o Opt("-f", "x11grab") \o Opt("-draw_mouse", 0))
Lavfi(source) == Input(<<"lavfi", source>>, Opt("-f", "lavfi") \o Opt("-re", ""))
VirtualAudio(s) ==
    IF s.source \in {"silence", "noise", "sine"} THEN Lavfi(s.source) ELSE <<>>
VirtualVideo(s) ==
    IF s.source \in {"testsrc", "testsrc2", "pal75bars", "pal100bars", "rgbtestsrc",
                     "smptebars", "smptehdbars", "yuvtestsrc", "life"}
    THEN Lavfi(s.source) ELSE <<>>
VideoLoop(s) ==
    Input(<<"diskfs", s.address>>,
          (IF s.image THEN Opt("-framerate", 1) \o Opt("-loop", 1) ELSE Opt("-stream_loop", -1))
          \o Opt("-re", ""))
AudioLoop(s) == Input(<<"diskfs", s.address>>, Opt("-stream_loop", -1) \o Opt("-re", ""))
SDP(s) ==
    Input(<<"diskfs", s.address>>,
          Opt("-protocol_whitelist", "file,udp,rtp") \o Opt("-buffer_size", 671088640)
          \o Opt("-thread_queue_size", 4096))
Channel(s) == Input(<<"memfs", s.channelid>>, <<>>)
\* Pseudo sources: they have no component and are never probed.
NoAudio(s) == Input(<<"none", "">>, <<>>)
VideoAudio(s) == Input(<<"none", "">>, <<>>)

-----------------------------------------------------------------------------
(* Network: streams that are fetched (pull) or sent to the Core (push) *)

Class(protocol) ==
    CASE protocol \in {"rtmp", "rtmps", "rtmpe", "rtmpt"} -> "rtmp"
      [] protocol \in {"http", "https"} -> "http"
      [] protocol \in {"mmst", "mmsh"} -> "mms"
      [] protocol \in {"rtsp", "rtsps"} -> "rtsp"
      [] OTHER -> protocol

IsAuthProtocol(protocol) ==
    Class(protocol) \in {"amqp", "ftp", "http", "icecast", "mms", "rtmp", "sftp", "rtsp"}

\* initSkills: the demuxer rtsp counts as a protocol.
InputProtocols(skills) ==
    skills.protocols
    \cup (IF "rtsp" \in skills.demuxers
          THEN {"rtsp"} \cup (IF "tls" \in skills.protocols THEN {"rtsps"} ELSE {})
          ELSE {})

\* initSettings: an unknown profile is "standard", the old field udp still counts.
NetworkDefaults ==
    [mode |-> "pull", protocol |-> "", login |-> FALSE, push |-> "rtmp", name |-> "channel",
     udp |-> FALSE, transport |-> "tcp", stability |-> "standard", readNative |-> TRUE, itself |-> FALSE,
     fflags |-> {"genpts"}, thread_queue_size |-> 512, liveguard |-> "none"]
NetworkSettings(stored) ==
    LET s == stored @@ NetworkDefaults
    IN  [s EXCEPT !.stability = IF @ \in {"standard", "stable", "strict"} THEN @ ELSE "standard",
                  !.transport = IF s.udp THEN "udp" ELSE @]

\* A stream sent to the channel itself is told from the channel's own output.
PushName(s) == IF s.name = "channel" THEN "channel.stream" ELSE s.name
LocalRTMP(s) == <<"rtmp", PushName(s)>>
LocalSRT(s) == <<"srt", PushName(s)>>
\* itself: the address of the channel's own stream on this Core
PullAddress(s) ==
    <<s.protocol, IF s.login /\ IsAuthProtocol(s.protocol) THEN "login"
                  ELSE IF s.itself THEN "itself" ELSE "">>
Address(s) ==
    IF s.mode = "pull" THEN PullAddress(s)
    ELSE IF s.push = "rtmp" THEN LocalRTMP(s) ELSE LocalSRT(s)

\* The class of the address, which is made from a template for push.
AddressClass(s) == IF s.mode = "pull" THEN Class(s.protocol) ELSE ""
Stability(s) == IF AddressClass(s) = "rtsp" THEN s.stability ELSE "standard"

EnhancedCodecs(skills) ==
    OptIf(skills.ffmpeg >= 6 /\ skills.enhanced # {}, "-rtmp_enhanced_codecs", skills.enhanced)

Buffering(s) ==
    LET protected == Stability(s) # "standard"
        flags == IF protected THEN (s.fflags \ {"nobuffer"}) \cup {"genpts", "discardcorrupt"}
                 ELSE s.fflags
        queue == IF protected /\ s.thread_queue_size < 2048 THEN 2048 ELSE s.thread_queue_size
    IN  OptIf(flags # {}, "-fflags", flags) \o Opt("-thread_queue_size", queue)

RTSPOptions(s, skills) ==
    Opt(IF skills.ffmpeg = 4 THEN "-stimeout" ELSE "-timeout", 5)
    \o (IF s.stability = "standard" THEN Opt("-rtsp_transport", s.transport)
        ELSE Opt("-rtsp_transport", "tcp") \o Opt("-buffer_size", 8388608)
             \o Opt("-max_delay", 1000000))

ProtocolOptions(s, skills) ==
    LET class == IF s.mode = "push" THEN s.push ELSE Class(s.protocol)
    IN  CASE class = "http" -> OptIf(s.readNative, "-re", "")
          [] class = "rtmp" -> EnhancedCodecs(skills)
          [] class = "rtsp" -> RTSPOptions(s, skills)
          [] OTHER -> <<>>

\* The playout of the Core stands between a source and ffmpeg.
LiveGuard(input, s, skills) ==
    IF "playout" \in InputProtocols(skills) /\ s.liveguard # "none"
    THEN [input EXCEPT !.address = <<"playout", input.address>>,
                       !.options = @ \o Opt("-playout_audio",
                                            IF s.liveguard = "video" THEN 0 ELSE 1)]
    ELSE input

Network(stored, skills) ==
    LET s == NetworkSettings(stored)
    IN  << LiveGuard([address   |-> Address(s),
                      options   |-> Buffering(s) \o ProtocolOptions(s, skills),
                      stability |-> Stability(s)], s, skills) >>

\* Push: the servers of the Core that ffmpeg can read from
PushPossible(s, skills) ==
    /\ s.push \in skills.servers \cap InputProtocols(skills)
    /\ s.name # "none"
\* Pull: the button is there for a protocol ffmpeg knows
PullPossible(s, skills) == s.protocol \in InputProtocols(skills)

-----------------------------------------------------------------------------
(* The registry (Framebuffer is not in it), and what the views ask of a source *)

Capabilities ==
    [network |-> {"audio", "video"}, alsa |-> {"audio"}, avfoundation |-> {"audio", "video"},
     video4linux2 |-> {"video"}, raspicam |-> {"video"}, virtualaudio |-> {"audio"},
     virtualvideo |-> {"video"}, noaudio |-> {"audio"}, videoaudio |-> {"audio"},
     videoloop |-> {"video"}, audioloop |-> {"audio"}, sdp |-> {"audio", "video"},
     x11grab |-> {"video"}, channel |-> {"audio", "video"}]

SourceSettings ==
    [alsa         |-> [device |-> "1,0", delay |-> 0],
     avfoundation |-> [vindex |-> "default", aindex |-> "default", framerate |-> 25,
                       size |-> "auto", cursor |-> FALSE, clicks |-> FALSE],
     video4linux2 |-> [device |-> "none", deviceCustom |-> "", size |-> "1280x720"],
     raspicam     |-> [device |-> "none", deviceCustom |-> "", size |-> "1920x1080"],
     virtualaudio |-> [source |-> "silence"],
     virtualvideo |-> [source |-> "none"],
     videoloop    |-> [address |-> "", image |-> FALSE],
     audioloop    |-> [address |-> ""],
     sdp          |-> [address |-> ""],
     x11grab      |-> [device |-> ":1", deviceCustom |-> "", fflags |-> {"nobuffer"}],
     channel      |-> [channelid |-> "none"],
     network      |-> NetworkDefaults]

CreateInputs(type, stored, skills) ==
    LET s == stored @@ SourceSettings[type]
    IN  CASE type = "network"      -> Network(stored, skills)
          [] type = "alsa"         -> ALSA(s)
          [] type = "avfoundation" -> AVFoundation(s)
          [] type = "video4linux2" -> V4L(s)
          [] type = "raspicam"     -> Raspicam(s)
          [] type = "virtualaudio" -> VirtualAudio(s)
          [] type = "virtualvideo" -> VirtualVideo(s)
          [] type = "videoloop"    -> VideoLoop(s)
          [] type = "audioloop"    -> AudioLoop(s)
          [] type = "sdp"          -> SDP(s)
          [] type = "x11grab"      -> X11grab(s)
          [] type = "channel"      -> Channel(s)

\* The condition of the button "Probe" of a source.
ProbePossible(type, stored, skills) ==
    LET s == stored @@ SourceSettings[type]
    IN  CASE type = "network" -> IF s.mode = "push" THEN PushPossible(s, skills)
                                 ELSE PullPossible(s, skills)
          [] type = "virtualvideo" -> s.source # "none"
          [] type \in {"videoloop", "audioloop", "sdp"} -> s.address # ""
          [] type = "channel" -> s.channelid # "none"
          [] OTHER -> TRUE
=============================================================================
