--------------------------- MODULE Publication_proof ---------------------------
(* Theorems about Publication, for everything ffmpeg and the Core may have when we
   begin, every choice of settings and every number of changes: a service is sent
   what it takes, and what the stored settings say. *)
EXTENDS Publication, Coders_proof

-----------------------------------------------------------------------------
(* The services *)

CodecNames == {"h264", "hevc", "vp9", "av1", "rawvideo", "aac", "mp3", "opus", "vorbis", "none"}
CodecList(codecs) == codecs \in Seq(CodecNames)
\* What is said of every service: its codecs are codecs, its options say nothing of coders.
IsSound(v) ==
    IsOutputs(v.outputs) /\ CodecList(v.codecs["audio"]) /\ CodecList(v.codecs["video"])

\* Defaults that are filled in twice are filled in once.
LEMMA MergedTwice ==
    ASSUME NEW s, NEW d
    PROVE  Merged(Merged(s, d), d) = Merged(s, d)
BY DEF Merged

\* The codecs the services name are lists without "null" (Services/*.js requires).
LEMMA CodecLists ==
    /\ CodecList(AACorMP3) /\ CodecList(OnlyAAC) /\ CodecList(<<"h264">>) /\ CodecList(<<"none">>)
    /\ CodecList(<<"none", "vp9">>) /\ CodecList(<<"rawvideo">>)
    /\ CodecList(<<"h264", "hevc", "av1">>) /\ CodecList(<<"h264", "hevc", "vp9">>)
    /\ CodecList(<<"h264", "hevc", "vp9", "av1">>) /\ CodecList(<<"aac", "opus", "vorbis", "mp3">>)
<1> USE DEF CodecList, CodecNames
<1>1. CodecList(AACorMP3) BY DEF AACorMP3
<1>2. CodecList(OnlyAAC) BY DEF OnlyAAC
<1>3. CodecList(<<"h264">>) OBVIOUS
<1>4. CodecList(<<"none">>) OBVIOUS
<1>5. CodecList(<<"none", "vp9">>) OBVIOUS
<1>6. CodecList(<<"rawvideo">>) OBVIOUS
<1>7. CodecList(<<"h264", "hevc", "av1">>) OBVIOUS
<1>8. CodecList(<<"h264", "hevc", "vp9">>) OBVIOUS
<1>9. CodecList(<<"h264", "hevc", "vp9", "av1">>) OBVIOUS
<1>10. CodecList(<<"aac", "opus", "vorbis", "mp3">>) OBVIOUS
<1> HIDE DEF CodecList, CodecNames
<1> QED
  BY <1>1, <1>2, <1>3, <1>4, <1>5, <1>6, <1>7, <1>8, <1>9, <1>10

\* The format is not an option of a coder.
LEMMA FreeMuxer == \A format : Free(Muxer(format))
BY OneOption DEF Muxer, Reserved

\* A setting that is handed over as an option chooses no coder, unless it is named so.
LEMMA FreeFilled == \A options, key : key \notin Reserved => Free(Filled(options, key))
BY OneOption, NoOptions DEF Filled

\* Announced codecs are not chosen codecs.
LEMMA FreeAnnounced == \A names, skills : Free(Announced(names, skills))
<1> TAKE names, skills
<1>1. Announced(names, skills) = <<>> \/ \E v : Announced(names, skills) = << <<"-rtmp_enhanced_codecs", v>> >>
  BY DEF Announced
<1> QED
  BY <1>1, OneOption, NoOptions DEF Reserved

\* Nor are the options of a playlist that is uploaded.
LEMMA FreePlaylist == Free(PushedPlaylist)
<1> DEFINE times == << <<"-hls_time", "2">>, <<"-hls_list_size", "5">>,
                       <<"-hls_delete_threshold", "3">>, <<"-method", "PUT">> >>
<1>1. Free(times)
  <2>1. IsList(times)
    BY DEF IsList, ToSet
  <2>2. \A i \in 1..4 : times[i][1] \notin Reserved
    BY DEF Reserved
  <2>3. DOMAIN times = 1..4
    OBVIOUS
  <2> HIDE DEF times
  <2> QED
    BY <2>1, <2>2, <2>3 DEF Free, ToSet
<1> HIDE DEF times
<1>2. PushedPlaylist = Muxer("hls") \o times
  BY DEF PushedPlaylist, times
<1> QED
  BY <1>1, <1>2, FreeMuxer, FreeConcat

\* No outputs are outputs.
LEMMA NoOutputs == IsOutputs(<<>>)
BY NoOptions DEF IsOutputs, Free

\* One output with free options is.
LEMMA AnOutput ==
    ASSUME NEW protocol, NEW to, NEW options, Free(options)
    PROVE  IsOutputs(<<Output(protocol, to, options)>>)
<1> DEFINE o == Output(protocol, to, options)
<1>1. o.options = options
  BY DEF Output
<1> HIDE DEF o
<1>2. IsList(<<o>>) /\ ToSet(<<o>>) = {o}
  BY DEF IsList, ToSet
<1>3. IsOutputs(<<o>>)
  BY <1>1, <1>2 DEF IsOutputs
<1> QED
  BY <1>3 DEF o

\* Outputs of two kinds together are.
LEMMA MoreOutputs ==
    ASSUME NEW a, NEW b, IsOutputs(a), IsOutputs(b)
    PROVE  IsOutputs(a \o b)
BY Concatenation DEF IsOutputs

\* A service with codecs and outputs is sound.
LEMMA SomeOutputs ==
    ASSUME NEW protocols, NEW formats, NEW audio, NEW video, NEW s, NEW outputs,
           CodecList(audio), CodecList(video), IsOutputs(outputs)
    PROVE  IsSound(Service(protocols, formats, audio, video, s, outputs))
BY DEF IsSound, Service

\* A service with one output is sound.
LEMMA OneOutput ==
    ASSUME NEW protocols, NEW formats, NEW audio, NEW video, NEW s, NEW protocol, NEW to, NEW options,
           CodecList(audio), CodecList(video), Free(options)
    PROVE  IsSound(Service(protocols, formats, audio, video, s, <<Output(protocol, to, options)>>))
BY AnOutput, SomeOutputs

\* The settings of a service make the same service again.
LEMMA KeyedSound ==
    ASSUME NEW protocols, NEW protocol, NEW to, NEW audio, CodecList(audio), NEW s
    PROVE  LET v == Keyed(protocols, protocol, to, audio, s)
           IN  IsSound(v) /\ Keyed(protocols, protocol, to, audio, v.settings) = v
<1>1. IsSound(Keyed(protocols, protocol, to, audio, s))
  BY CodecLists, FreeMuxer, OneOutput DEF Keyed
<1> QED
  BY <1>1, MergedTwice DEF Keyed, Service

\* So are services whose address is filled in after a protocol.
LEMMA AddressedSound ==
    ASSUME NEW protocols, NEW protocol, NEW audio, CodecList(audio), NEW s
    PROVE  LET v == Addressed(protocols, protocol, audio, s)
           IN  IsSound(v) /\ Addressed(protocols, protocol, audio, v.settings) = v
<1>1. IsSound(Addressed(protocols, protocol, audio, s))
  BY CodecLists, FreeMuxer, OneOutput DEF Addressed
<1> QED
  BY <1>1, MergedTwice DEF Addressed, Service

\* So are services that are given a whole URL.
LEMMA PlayPathSound ==
    ASSUME NEW protocols, NEW audio, CodecList(audio), NEW s
    PROVE  LET v == PlayPath(protocols, audio, s)
           IN  IsSound(v) /\ PlayPath(protocols, audio, v.settings) = v
<1>1. \A x : Free(<< <<"-rtmp_playpath", x>> >> \o Muxer("flv"))
  BY OneOption, FreeMuxer, FreeConcat DEF Reserved
<1>2. IsSound(PlayPath(protocols, audio, s))
  BY <1>1, CodecLists, OneOutput DEF PlayPath
<1> QED
  BY <1>2, MergedTwice DEF PlayPath, Service

\* So are services files are uploaded to.
LEMMA UploadedSound ==
    ASSUME NEW format, NEW protocols, NEW first, Free(first), NEW audio, CodecList(audio), NEW options,
           NEW order, order[1] \notin Reserved, order[2] \notin Reserved, order[3] \notin Reserved, NEW s
    PROVE  LET v == Uploaded(format, protocols, first, audio, options, order, s)
           IN  IsSound(v) /\ Uploaded(format, protocols, first, audio, options, order, v.settings) = v
<1>1. \A o : Free(first \o Muxer(format) \o Filled(o, order[1]) \o Filled(o, order[2]) \o Filled(o, order[3]))
  BY FreeMuxer, FreeFilled, FreeConcat
<1>2. IsSound(Uploaded(format, protocols, first, audio, options, order, s))
  BY <1>1, CodecLists, OneOutput DEF Uploaded
<1> QED
  BY <1>2, MergedTwice DEF Uploaded, Service

\* Rumble.js makes outputs that choose no coder, and the same of the settings it hands over.
LEMMA RumbleSound == \A s : IsSound(Rumble(s)) /\ Rumble(Rumble(s).settings) = Rumble(s)
BY CodecLists, FreeMuxer, OneOutput, MergedTwice DEF Rumble, Service

\* Twitch.js makes outputs that choose no coder, and the same of the settings it hands over.
LEMMA TwitchSound == \A s : IsSound(Twitch(s)) /\ Twitch(Twitch(s).settings) = Twitch(s)
BY CodecLists, FreeMuxer, OneOutput, MergedTwice DEF Twitch, Service

\* Akamai.js makes outputs that choose no coder, and the same of the settings it hands over.
LEMMA AkamaiSound == \A s : IsSound(Akamai(s)) /\ Akamai(Akamai(s).settings) = Akamai(s)
BY CodecLists, FreeMuxer, OneOutput, MergedTwice DEF Akamai, Service

\* Red5.js makes outputs that choose no coder, and the same of the settings it hands over.
LEMMA Red5Sound == \A s : IsSound(Red5(s)) /\ Red5(Red5(s).settings) = Red5(s)
BY CodecLists, FreeMuxer, OneOutput, MergedTwice DEF Red5, Service

\* WOWZA.js makes outputs that choose no coder, and the same of the settings it hands over.
LEMMA WOWZASound == \A s : IsSound(WOWZA(s)) /\ WOWZA(WOWZA(s).settings) = WOWZA(s)
BY CodecLists, FreeMuxer, OneOutput, MergedTwice DEF WOWZA, Service

\* UDP.js makes outputs that choose no coder, and the same of the settings it hands over.
LEMMA UDPSound == \A s : IsSound(UDP(s)) /\ UDP(UDP(s).settings) = UDP(s)
BY CodecLists, FreeMuxer, OneOutput, MergedTwice DEF UDP, Service

\* PeerTube.js makes outputs that choose no coder, and the same of the settings it hands over.
LEMMA PeerTubeSound == \A s : IsSound(PeerTube(s)) /\ PeerTube(PeerTube(s).settings) = PeerTube(s)
<1> TAKE s
<1> DEFINE d == [rtmps |-> FALSE, domain |-> "", key |-> ""]
           m == Merged(s, d)
           Made(x) == Service({"rtmp", "rtmps"}, {"flv"}, AACorMP3, <<"h264">>, x,
                              <<Output(IF x.rtmps THEN "rtmps" ELSE "rtmp",
                                       <<x.domain, IF x.rtmps THEN 1936 ELSE 1935, x.key>>,
                                       Muxer("flv"))>>)
<1>1. \A x : PeerTube(x) = Made(Merged(x, d))
  BY Zenon DEF PeerTube
<1>2. \A x : Made(x).settings = x
  BY DEF Service
<1>3. ASSUME NEW x PROVE IsSound(Made(x))
  <2> DEFINE protocol == IF x.rtmps THEN "rtmps" ELSE "rtmp"
             to == <<x.domain, IF x.rtmps THEN 1936 ELSE 1935, x.key>>
  <2> HIDE DEF protocol, to
  <2>1. IsSound(Service({"rtmp", "rtmps"}, {"flv"}, AACorMP3, <<"h264">>, x,
                        <<Output(protocol, to, Muxer("flv"))>>))
    BY CodecLists, FreeMuxer, OneOutput
  <2> QED
    BY <2>1, Zenon DEF protocol, to
<1> HIDE DEF Made
<1> QED
  BY <1>1, <1>2, <1>3, MergedTwice

\* DaCast.js makes outputs that choose no coder, and the same of the settings it hands over.
LEMMA DaCastSound == \A s : IsSound(DaCast(s)) /\ DaCast(DaCast(s).settings) = DaCast(s)
<1> TAKE s
<1> DEFINE d == [protocol |-> "rtmp", server |-> "", backup_server |-> "",
                 enable_backup_server |-> FALSE, stream_key |-> ""]
           m == Merged(s, d)
           o == Output(m.protocol, <<m.server, m.stream_key>>, Muxer("flv"))
<1>1. DaCast(s) = Service({"rtmp"}, {"flv"}, AACorMP3, <<"h264">>, m,
                          IF m.enable_backup_server THEN <<o, o>> ELSE <<o>>)
  BY Zenon DEF DaCast
<1>2. IsOutputs(<<o>>)
  BY FreeMuxer, AnOutput
<1> HIDE DEF o
<1>3. <<o, o>> = <<o>> \o <<o>>
  OBVIOUS
<1>4. IsOutputs(IF m.enable_backup_server THEN <<o, o>> ELSE <<o>>)
  BY <1>2, <1>3, MoreOutputs
<1> HIDE DEF m
<1>5. IsSound(DaCast(s))
  BY <1>1, <1>4, CodecLists, SomeOutputs
<1>6. DaCast(DaCast(s).settings) = DaCast(s)
  BY MergedTwice DEF DaCast, Service
<1> QED
  BY <1>5, <1>6

\* RTSP.js makes outputs that choose no coder, and the same of the settings it hands over.
LEMMA RTSPSound == \A s : IsSound(RTSP(s)) /\ RTSP(RTSP(s).settings) = RTSP(s)
<1> TAKE s
<1>1. \A o : Free(Muxer("rtsp") \o Filled(o, "rtsp_transport") \o Filled(o, "muxdelay"))
  BY FreeMuxer, FreeFilled, FreeConcat DEF Reserved
<1>2. IsSound(RTSP(s))
  BY <1>1, CodecLists, OneOutput DEF RTSP
<1>3. RTSP(RTSP(s).settings) = RTSP(s)
  BY MergedTwice DEF RTSP, Service
<1> QED
  BY <1>2, <1>3

\* MPEGTS.js makes outputs that choose no coder, and the same of the settings it hands over.
LEMMA MPEGTSSound == \A s : IsSound(MPEGTS(s)) /\ MPEGTS(MPEGTS(s).settings) = MPEGTS(s)
<1> TAKE s
<1>1. \A o : Free(Muxer("mpegts") \o Filled(o, "mpegts_service_type") \o Filled(o, "muxrate"))
  BY FreeMuxer, FreeFilled, FreeConcat DEF Reserved
<1>2. IsSound(MPEGTS(s))
  BY <1>1, CodecLists, OneOutput DEF MPEGTS
<1>3. MPEGTS(MPEGTS(s).settings) = MPEGTS(s)
  BY MergedTwice DEF MPEGTS, Service
<1> QED
  BY <1>2, <1>3

\* SRT.js makes outputs that choose no coder, and the same of the settings it hands over.
LEMMA SRTSound == \A s : IsSound(SRT(s)) /\ SRT(SRT(s).settings) = SRT(s)
<1> TAKE s
<1>1. Free(<< <<"-bsf:v", "dump_extra">> >> \o Muxer("mpegts"))
  BY OneOption, FreeMuxer, FreeConcat DEF Reserved
<1>2. IsSound(SRT(s))
  BY <1>1, CodecLists, OneOutput DEF SRT
<1>3. SRT(SRT(s).settings) = SRT(s)
  BY MergedTwice DEF SRT, Service
<1> QED
  BY <1>2, <1>3

\* Framebuffer.js makes outputs that choose no coder, and the same of the settings it hands over.
LEMMA FramebufferSound ==
    \A s : IsSound(Framebuffer(s)) /\ Framebuffer(Framebuffer(s).settings) = Framebuffer(s)
<1> TAKE s
<1> DEFINE m == Merged(s, [device |-> "none", pix_fmt |-> "bgra"])
           options == << <<"-pix_fmt", m.pix_fmt>> >> \o Muxer("fbdev")
           v == Service({}, {"fbdev"}, <<"none">>, <<"rawvideo">>, m,
                        <<Output("device", <<m.device>>, options)>>)
<1>1. Framebuffer(s) = [v EXCEPT !.devices = {"fbdev"}]
  BY Zenon DEF Framebuffer
<1>2. Free(options)
  BY OneOption, FreeMuxer, FreeConcat DEF Reserved
<1> HIDE DEF m, options
<1>3. IsSound(v)
  BY <1>2, CodecLists, OneOutput
<1>4. DOMAIN v = {"protocols", "formats", "devices", "codecs", "settings", "outputs"}
  BY DEF Service
<1> HIDE DEF v
<1>5. IsSound(Framebuffer(s))
  BY <1>1, <1>3, <1>4 DEF IsSound
<1>6. Framebuffer(Framebuffer(s).settings) = Framebuffer(s)
  BY MergedTwice DEF Framebuffer, Service
<1> QED
  BY <1>5, <1>6

\* Twitter.js makes outputs that choose no coder, and the same of the settings it hands over.
LEMMA TwitterSound == \A s : IsSound(Twitter(s)) /\ Twitter(Twitter(s).settings) = Twitter(s)
<1> TAKE s
<1> DEFINE m == Merged(s, [mode |-> "rtmps", stream_key |-> "", region |-> "de"])
           outputs == IF m.stream_key = "" THEN <<>>
                      ELSE <<Output(IF m.mode = "rtmps" THEN "rtmps" ELSE "https",
                                    <<m.region, m.stream_key>>,
                                    IF m.mode = "rtmps" THEN Muxer("flv") ELSE PushedPlaylist)>>
<1>1. Twitter(s) = Service({"rtmps", "https"}, {"flv", "hls"}, AACorMP3, <<"h264">>, m, outputs)
  BY Zenon DEF Twitter
<1>2. Free(IF m.mode = "rtmps" THEN Muxer("flv") ELSE PushedPlaylist)
  BY FreePlaylist, FreeMuxer
<1>3. IsOutputs(outputs)
  BY <1>2, AnOutput, NoOutputs, Zenon
<1> HIDE DEF m, outputs
<1>4. IsSound(Twitter(s))
  BY <1>1, <1>3, CodecLists, SomeOutputs
<1>5. Twitter(Twitter(s).settings) = Twitter(s)
  BY MergedTwice DEF Twitter, Service
<1> QED
  BY <1>4, <1>5

\* EarthCam.js makes outputs that choose no coder, and the same of the settings it hands over.
LEMMA EarthCamSound == \A s : IsSound(EarthCam(s)) /\ EarthCam(EarthCam(s).settings) = EarthCam(s)
<1> TAKE s
<1> DEFINE m == Merged(s, [stream_key |-> ""])
           o == [address |-> <<"rtmp", <<"earthcam", m.stream_key>> >>]
<1>1. EarthCam(s) = Service({"rtmp"}, {"flv"}, OnlyAAC, <<"h264">>, m, <<o>>)
  BY Zenon DEF EarthCam
<1>2. "options" \notin DOMAIN o
  OBVIOUS
<1> HIDE DEF m, o
<1>3. IsOutputs(<<o>>)
  BY <1>2 DEF IsOutputs, IsList, ToSet
<1>4. IsSound(EarthCam(s))
  BY <1>1, <1>3, CodecLists, SomeOutputs
<1>5. EarthCam(EarthCam(s).settings) = EarthCam(s)
  BY MergedTwice DEF EarthCam, Service
<1> QED
  BY <1>4, <1>5

\* NimoTv.js makes outputs that choose no coder, and the same of the settings it hands over.
LEMMA NimoTvSound == \A s : IsSound(NimoTv(s)) /\ NimoTv(NimoTv(s).settings) = NimoTv(s)
<1> TAKE s
<1> DEFINE m == Merged(s, [lines |-> "1", stream_key |-> ""])
           o == IF m.stream_key = "" THEN NullOutput
                ELSE Output("rtmp", <<"nimo", m.lines, m.stream_key>>, Muxer("flv"))
<1>1. NimoTv(s) = Service({"rtmp"}, {"flv"}, AACorMP3, <<"h264">>, m, <<o>>)
  BY Zenon DEF NimoTv
<1>2. "options" \in DOMAIN o => Free(o.options)
  BY FreeMuxer DEF NullOutput, Output
<1> HIDE DEF m, o
<1>3. IsOutputs(<<o>>)
  BY <1>2 DEF IsOutputs, IsList, ToSet
<1>4. IsSound(NimoTv(s))
  BY <1>1, <1>3, CodecLists, SomeOutputs
<1>5. NimoTv(NimoTv(s).settings) = NimoTv(s)
  BY MergedTwice DEF NimoTv, Service
<1> QED
  BY <1>4, <1>5

\* Facebook.js makes outputs that choose no coder, and the same of the settings it hands over.
LEMMA FacebookSound == \A s : IsSound(Facebook(s)) /\ Facebook(Facebook(s).settings) = Facebook(s)
<1> TAKE s
<1> DEFINE m == Merged(s, [stream_key_primary |-> "", stream_key_backup |-> "",
                           rtmp_primary |-> TRUE, rtmp_backup |-> FALSE])
           To(key, on) == IF on /\ key # ""
                          THEN <<Output("rtmps", <<"facebook", key>>, Muxer("flv"))>> ELSE <<>>
           outputs == To(m.stream_key_primary, m.rtmp_primary) \o To(m.stream_key_backup, m.rtmp_backup)
<1>1. Facebook(s) = Service({"rtmps"}, {"flv"}, OnlyAAC, <<"h264">>, m, outputs)
  BY Zenon DEF Facebook
<1>2. \A key, on : IsOutputs(To(key, on))
  BY FreeMuxer, AnOutput, NoOutputs
<1> HIDE DEF m, To
<1>3. IsOutputs(outputs)
  BY <1>2, MoreOutputs
<1>4. IsSound(Facebook(s))
  BY <1>1, <1>3, CodecLists, SomeOutputs
<1>5. Facebook(Facebook(s).settings) = Facebook(s)
  BY MergedTwice DEF Facebook, Service
<1> QED
  BY <1>4, <1>5

\* Youtube.js makes outputs that choose no coder, and the same of the settings it hands over.
LEMMA YoutubeSound ==
    \A s, skills : IsSound(Youtube(s, skills)) /\ Youtube(Youtube(s, skills).settings, skills) = Youtube(s, skills)
<1> TAKE s, skills
<1> DEFINE m == Merged(s, [mode |-> "rtmps", stream_key |-> "", primary |-> TRUE, backup |-> FALSE])
           To(server, on) ==
               IF ~on THEN <<>>
               ELSE IF m.mode = "rtmps"
                    THEN <<Output("rtmps", <<server, m.stream_key>>,
                                  Muxer("flv") \o Announced({"hevc", "av1"}, skills))>>
                    ELSE <<Output("https", <<server, m.stream_key>>, PushedPlaylist)>>
           outputs == IF m.stream_key = "" THEN <<>> ELSE To("a", m.primary) \o To("b", m.backup)
<1>1. Youtube(s, skills) = Service({"rtmps", "https"}, {"flv", "hls"}, AACorMP3, <<"h264", "hevc", "av1">>,
                                   m, outputs)
  BY Zenon DEF Youtube
<1>2. Free(Muxer("flv") \o Announced({"hevc", "av1"}, skills))
  BY FreeMuxer, FreeAnnounced, FreeConcat
<1>3. \A server, on : IsOutputs(To(server, on))
  BY <1>2, FreePlaylist, AnOutput, NoOutputs
<1> HIDE DEF m, To
<1>4. IsOutputs(outputs)
  BY <1>3, MoreOutputs, NoOutputs
<1>5. IsSound(Youtube(s, skills))
  BY <1>1, <1>4, CodecLists, SomeOutputs
<1>6. Youtube(Youtube(s, skills).settings, skills) = Youtube(s, skills)
  BY MergedTwice DEF Youtube, Service
<1> QED
  BY <1>5, <1>6

\* RTMP.js makes outputs that choose no coder, and the same of the settings it hands over.
LEMMA RTMPSound ==
    \A s, skills : IsSound(RTMP(s, skills)) /\ RTMP(RTMP(s, skills).settings, skills) = RTMP(s, skills)
<1> TAKE s, skills
<1> DEFINE m == Merged(s, [protocol |-> "rtmp", address |-> "",
                           options |-> [rtmp_app |-> "", rtmp_flush_interval |-> "10"]])
           options == Muxer("flv") \o Announced({"hevc", "av1", "vp9"}, skills)
                      \o Filled(m.options, "rtmp_app")
                      \o (IF m.protocol \in {"rtmpt", "rtmpte", "rtmpts"} THEN Filled(m.options, "rtmp_flush_interval")
                          ELSE <<>>)
<1>1. RTMP(s, skills) = Service({"rtmp", "rtmps", "rtmpt", "rtmpts"}, {"flv"}, AACorMP3,
                                <<"h264", "hevc", "vp9", "av1">>, m,
                                <<Output(m.protocol, <<m.address>>, options)>>)
  BY Zenon DEF RTMP
<1> HIDE DEF m
<1>2. Free(IF m.protocol \in {"rtmpt", "rtmpte", "rtmpts"} THEN Filled(m.options, "rtmp_flush_interval") ELSE <<>>)
  BY FreeFilled, NoOptions DEF Reserved
<1>3. Free(options)
  BY <1>2, FreeMuxer, FreeAnnounced, FreeFilled, FreeConcat DEF Reserved
<1> HIDE DEF options
<1>4. IsSound(RTMP(s, skills))
  BY <1>1, <1>3, CodecLists, OneOutput
<1>5. RTMP(RTMP(s, skills).settings, skills) = RTMP(s, skills)
  BY MergedTwice DEF RTMP, Service
<1> QED
  BY <1>4, <1>5

\* Core.js makes outputs that choose no coder, and the same of the settings it hands over.
LEMMA DatarheiCoreSound ==
    \A s, skills : IsSound(Core(s, skills)) /\ Core(Core(s, skills).settings, skills) = Core(s, skills)
<1> TAKE s, skills
<1> DEFINE d == [v2_address |-> <<"", "">>]
           filled == ("base_url" \in DOMAIN s /\ "v2_address" \notin DOMAIN s) /\ s.base_url # ""
           m == IF filled
                THEN Merged([v2_address |-> <<s.protocol, s.base_url>>], [s EXCEPT !.base_url = ""])
                ELSE Merged(s, d)
           Made(x) == Service({"rtmp", "rtmps", "srt"}, {"flv", "mpegts"}, OnlyAAC,
                              <<"h264", "hevc", "vp9", "av1">>, x,
                              <<Output(x.v2_address[1], <<x.v2_address[2]>>,
                                       IF x.v2_address[1] = "srt"
                                       THEN << <<"-bsf:v", "dump_extra">> >> \o Muxer("mpegts")
                                       ELSE Muxer("flv") \o Announced({"hevc", "av1", "vp9"}, skills))>>)
<1>1. Core(s, skills) = Made(m)
  BY Zenon DEF Core
<1>2. "v2_address" \in DOMAIN m /\ Merged(m, d) = m
  <2>1. CASE filled
    <3> DEFINE a == [v2_address |-> <<s.protocol, s.base_url>>]
               b == [s EXCEPT !.base_url = ""]
    <3>1. m = Merged(a, b) /\ "v2_address" \in DOMAIN a
      BY <2>1
    <3> HIDE DEF a, b, m, filled
    <3> QED
      BY <3>1 DEF Merged
  <2>2. CASE ~filled
    BY <2>2 DEF Merged
  <2> QED
    BY <2>1, <2>2
<1> HIDE DEF m
<1>3. Core(m, skills) = Made(m)
  BY <1>2, Zenon DEF Core
<1>4. \A x : Made(x).settings = x
  BY DEF Service
<1>5. IsSound(Made(m))
  <2> DEFINE o == IF m.v2_address[1] = "srt" THEN << <<"-bsf:v", "dump_extra">> >> \o Muxer("mpegts")
                  ELSE Muxer("flv") \o Announced({"hevc", "av1", "vp9"}, skills)
  <2>1. Free(o)
    BY FreeMuxer, FreeAnnounced, OneOption, FreeConcat DEF Reserved
  <2> HIDE DEF o
  <2>2. IsSound(Service({"rtmp", "rtmps", "srt"}, {"flv", "mpegts"}, OnlyAAC,
                        <<"h264", "hevc", "vp9", "av1">>, m,
                        <<Output(m.v2_address[1], <<m.v2_address[2]>>, o)>>))
    BY <2>1, CodecLists, OneOutput
  <2> QED
    BY <2>2 DEF o
<1> HIDE DEF Made
<1> QED
  BY <1>1, <1>3, <1>4, <1>5

\* Icecast.js makes outputs that choose no coder, and the same of the settings it hands over.
LEMMA IcecastSound ==
    \A s, streams : IsSound(Icecast(s, streams))
                    /\ Icecast(Icecast(s, streams).settings, streams) = Icecast(s, streams)
<1> TAKE s, streams
<1> DEFINE m == Merged(s, [protocol |-> "icecast", address |-> "",
                           options |-> [ice_genre |-> "", ice_public |-> "true"]])
<1>1. \E f : /\ f = <<>> \/ \E x : f = Muxer(x)
             /\ Icecast(s, streams) =
                   Service({"icecast"}, {"adts", "opus", "mp3", "ogg", "webm"},
                           <<"aac", "opus", "vorbis", "mp3">>, <<"none", "vp9">>, m,
                           <<Output("icecast", <<m.address>>,
                                    Filled(m.options, "ice_genre") \o Filled(m.options, "ice_public")
                                    \o f)>>)
  BY DEF Icecast
<1> HIDE DEF m
<1>2. IsSound(Icecast(s, streams))
  <2>1. PICK f : /\ f = <<>> \/ \E x : f = Muxer(x)
                 /\ Icecast(s, streams) =
                   Service({"icecast"}, {"adts", "opus", "mp3", "ogg", "webm"},
                           <<"aac", "opus", "vorbis", "mp3">>, <<"none", "vp9">>, m,
                           <<Output("icecast", <<m.address>>,
                                    Filled(m.options, "ice_genre") \o Filled(m.options, "ice_public")
                                    \o f)>>)
    BY <1>1
  <2>2. Free(Filled(m.options, "ice_genre") \o Filled(m.options, "ice_public") \o f)
    BY <2>1, FreeMuxer, NoOptions, FreeFilled, FreeConcat DEF Reserved
  <2> QED
    BY <2>1, <2>2, CodecLists, OneOutput
<1>3. Icecast(Icecast(s, streams).settings, streams) = Icecast(s, streams)
  BY MergedTwice DEF Icecast, Service
<1> QED
  BY <1>2, <1>3

\* HLS.js, DASH.js and Image2.js are sound, and take their own settings again.
LEMMA UploadedServices ==
    \A s :
       /\ IsSound(HLS(s)) /\ HLS(HLS(s).settings) = HLS(s)
       /\ IsSound(DASH(s)) /\ DASH(DASH(s).settings) = DASH(s)
       /\ IsSound(Image2(s)) /\ Image2(Image2(s).settings) = Image2(s)
<1> TAKE s
<1>1. Free(<<>>) /\ Free(<< <<"-strict", "experimental">> >>)
  BY NoOptions, OneOption DEF Reserved
<1>2. IsSound(HLS(s)) /\ HLS(HLS(s).settings) = HLS(s)
  <2> DEFINE order == <<"hls_time", "hls_key_info_file", "http_persistent">>
  <2>1. order[1] \notin Reserved /\ order[2] \notin Reserved /\ order[3] \notin Reserved
    BY DEF Reserved
  <2> HIDE DEF order
  <2>2. \E format, protocols, first, audio, options :
           /\ Free(first) /\ CodecList(audio)
           /\ \A x : HLS(x) = Uploaded(format, protocols, first, audio, options, order, x)
    BY <1>1, CodecLists DEF HLS, order
  <2> QED
    BY <2>1, <2>2, UploadedSound
<1>3. IsSound(DASH(s)) /\ DASH(DASH(s).settings) = DASH(s)
  <2> DEFINE order == <<"seg_duration", "frag_duration", "streaming">>
  <2>1. order[1] \notin Reserved /\ order[2] \notin Reserved /\ order[3] \notin Reserved
    BY DEF Reserved
  <2> HIDE DEF order
  <2>2. \E format, protocols, first, audio, options :
           /\ Free(first) /\ CodecList(audio)
           /\ \A x : DASH(x) = Uploaded(format, protocols, first, audio, options, order, x)
    BY <1>1, CodecLists DEF DASH, order
  <2> QED
    BY <2>1, <2>2, UploadedSound
<1>4. IsSound(Image2(s)) /\ Image2(Image2(s).settings) = Image2(s)
  <2> DEFINE order == <<"start_number", "update", "method">>
  <2>1. order[1] \notin Reserved /\ order[2] \notin Reserved /\ order[3] \notin Reserved
    BY DEF Reserved
  <2> HIDE DEF order
  <2>2. \E format, protocols, first, audio, options :
           /\ Free(first) /\ CodecList(audio)
           /\ \A x : Image2(x) = Uploaded(format, protocols, first, audio, options, order, x)
    BY <1>1, CodecLists DEF Image2, order
  <2> QED
    BY <2>1, <2>2, UploadedSound
<1> QED
  BY <1>2, <1>3, <1>4

\* The services with a key, by their ids (Services/index.js).
LEMMA KeyedRegistry ==
    \A s, skills, streams :
       /\ ServiceOf("instagram", s, skills, streams) = Instagram(s)
       /\ ServiceOf("vimeo", s, skills, streams) = Vimeo(s)
       /\ ServiceOf("restream", s, skills, streams) = Restream(s)
       /\ ServiceOf("dlive", s, skills, streams) = DLive(s)
       /\ ServiceOf("trovo", s, skills, streams) = Trovo(s)
       /\ ServiceOf("picartotv", s, skills, streams) = PicartoTv(s)
       /\ ServiceOf("medianetwork", s, skills, streams) = MediaNetwork(s)
       /\ ServiceOf("livepush", s, skills, streams) = Livepush(s)
BY DEF ServiceOf

\* The services with a server, by their ids.
LEMMA AddressedRegistry ==
    \A s, skills, streams :
       /\ ServiceOf("telegram", s, skills, streams) = Telegram(s)
       /\ ServiceOf("linkedin", s, skills, streams) = Linkedin(s)
       /\ ServiceOf("livespotting", s, skills, streams) = Livespotting(s)
       /\ ServiceOf("wettercom", s, skills, streams) = Wettercom(s)
       /\ ServiceOf("azure", s, skills, streams) = Azure(s)
       /\ ServiceOf("brightcove", s, skills, streams) = Brightcove(s)
       /\ ServiceOf("cdn77", s, skills, streams) = CDN77(s)
       /\ ServiceOf("owncast", s, skills, streams) = Owncast(s)
BY DEF ServiceOf

\* The other services, by their ids.
LEMMA OtherRegistry ==
    \A s, skills, streams :
       /\ ServiceOf("facebook", s, skills, streams) = Facebook(s)
       /\ ServiceOf("youtube", s, skills, streams) = Youtube(s, skills)
       /\ ServiceOf("twitter", s, skills, streams) = Twitter(s)
       /\ ServiceOf("twitch", s, skills, streams) = Twitch(s)
       /\ ServiceOf("kick", s, skills, streams) = Kick(s)
       /\ ServiceOf("tiktok", s, skills, streams) = TikTok(s)
       /\ ServiceOf("nimotv", s, skills, streams) = NimoTv(s)
       /\ ServiceOf("peertube", s, skills, streams) = PeerTube(s)
       /\ ServiceOf("earthcam", s, skills, streams) = EarthCam(s)
       /\ ServiceOf("akamai", s, skills, streams) = Akamai(s)
       /\ ServiceOf("dacast", s, skills, streams) = DaCast(s)
       /\ ServiceOf("dailymotion", s, skills, streams) = Dailymotion(s)
       /\ ServiceOf("rumble", s, skills, streams) = Rumble(s)
       /\ ServiceOf("datarheicore", s, skills, streams) = Core(s, skills)
       /\ ServiceOf("wowza", s, skills, streams) = WOWZA(s)
       /\ ServiceOf("red5", s, skills, streams) = Red5(s)
       /\ ServiceOf("icecast", s, skills, streams) = Icecast(s, streams)
       /\ ServiceOf("image2", s, skills, streams) = Image2(s)
       /\ ServiceOf("rtsp", s, skills, streams) = RTSP(s)
       /\ ServiceOf("rtmp", s, skills, streams) = RTMP(s, skills)
       /\ ServiceOf("hls", s, skills, streams) = HLS(s)
       /\ ServiceOf("dash", s, skills, streams) = DASH(s)
       /\ ServiceOf("srt", s, skills, streams) = SRT(s)
       /\ ServiceOf("udp", s, skills, streams) = UDP(s)
       /\ ServiceOf("mpegts", s, skills, streams) = MPEGTS(s)
       /\ ServiceOf("framebuffer", s, skills, streams) = Framebuffer(s)
BY DEF ServiceOf

Outcome(id, s, skills, streams) ==
    LET v == ServiceOf(id, s, skills, streams)
    IN  /\ IsSound(v) /\ ServiceOf(id, v.settings, skills, streams) = v
        /\ id \notin WithCreateOutputs => \A other : ServiceOf(id, s, skills, other) = v

(* Every service names codecs, makes outputs that choose no coder, and makes the same of the settings
   it hands over as of those it was given (handleChange and createOutput of Services/*.js). *)
LEMMA ServiceSound ==
    ASSUME NEW id \in Names, NEW s, NEW skills, NEW streams
    PROVE  Outcome(id, s, skills, streams)
<1> USE DEF Outcome, WithCreateOutputs
<1>1. Outcome("facebook", s, skills, streams)
  BY OtherRegistry, FacebookSound
<1>2. Outcome("youtube", s, skills, streams)
  BY OtherRegistry, YoutubeSound
<1>3. Outcome("twitter", s, skills, streams)
  BY OtherRegistry, TwitterSound
<1>4. Outcome("twitch", s, skills, streams)
  BY OtherRegistry, TwitchSound
<1>5. Outcome("kick", s, skills, streams)
  BY OtherRegistry, PlayPathSound, CodecLists DEF Kick
<1>6. Outcome("tiktok", s, skills, streams)
  BY OtherRegistry, PlayPathSound, CodecLists DEF TikTok
<1>7. Outcome("instagram", s, skills, streams)
  BY KeyedRegistry, KeyedSound, CodecLists DEF Instagram
<1>8. Outcome("vimeo", s, skills, streams)
  BY KeyedRegistry, KeyedSound, CodecLists DEF Vimeo
<1>9. Outcome("restream", s, skills, streams)
  BY KeyedRegistry, KeyedSound, CodecLists DEF Restream
<1>10. Outcome("telegram", s, skills, streams)
  BY AddressedRegistry, AddressedSound, CodecLists DEF Telegram
<1>11. Outcome("linkedin", s, skills, streams)
  BY AddressedRegistry, AddressedSound, CodecLists DEF Linkedin
<1>12. Outcome("dlive", s, skills, streams)
  BY KeyedRegistry, KeyedSound, CodecLists DEF DLive
<1>13. Outcome("trovo", s, skills, streams)
  BY KeyedRegistry, KeyedSound, CodecLists DEF Trovo
<1>14. Outcome("picartotv", s, skills, streams)
  BY KeyedRegistry, KeyedSound, CodecLists DEF PicartoTv
<1>15. Outcome("nimotv", s, skills, streams)
  BY OtherRegistry, NimoTvSound
<1>16. Outcome("peertube", s, skills, streams)
  BY OtherRegistry, PeerTubeSound
<1>17. Outcome("medianetwork", s, skills, streams)
  BY KeyedRegistry, KeyedSound, CodecLists DEF MediaNetwork
<1>18. Outcome("livespotting", s, skills, streams)
  BY AddressedRegistry, AddressedSound, CodecLists DEF Livespotting
<1>19. Outcome("wettercom", s, skills, streams)
  BY AddressedRegistry, AddressedSound, CodecLists DEF Wettercom
<1>20. Outcome("earthcam", s, skills, streams)
  BY OtherRegistry, EarthCamSound
<1>21. Outcome("azure", s, skills, streams)
  BY AddressedRegistry, AddressedSound, CodecLists DEF Azure
<1>22. Outcome("brightcove", s, skills, streams)
  BY AddressedRegistry, AddressedSound, CodecLists DEF Brightcove
<1>23. Outcome("akamai", s, skills, streams)
  BY OtherRegistry, AkamaiSound
<1>24. Outcome("dacast", s, skills, streams)
  BY OtherRegistry, DaCastSound
<1>25. Outcome("dailymotion", s, skills, streams)
  BY OtherRegistry, PlayPathSound, CodecLists DEF Dailymotion
<1>26. Outcome("livepush", s, skills, streams)
  BY KeyedRegistry, KeyedSound, CodecLists DEF Livepush
<1>27. Outcome("rumble", s, skills, streams)
  BY OtherRegistry, RumbleSound
<1>28. Outcome("cdn77", s, skills, streams)
  BY AddressedRegistry, AddressedSound, CodecLists DEF CDN77
<1>29. Outcome("datarheicore", s, skills, streams)
  BY OtherRegistry, DatarheiCoreSound
<1>30. Outcome("owncast", s, skills, streams)
  BY AddressedRegistry, AddressedSound, CodecLists DEF Owncast
<1>31. Outcome("wowza", s, skills, streams)
  BY OtherRegistry, WOWZASound
<1>32. Outcome("red5", s, skills, streams)
  BY OtherRegistry, Red5Sound
<1>33. Outcome("icecast", s, skills, streams)
  BY OtherRegistry, IcecastSound
<1>34. Outcome("image2", s, skills, streams)
  BY OtherRegistry, UploadedServices
<1>35. Outcome("hls", s, skills, streams)
  BY OtherRegistry, UploadedServices
<1>36. Outcome("dash", s, skills, streams)
  BY OtherRegistry, UploadedServices
<1>37. Outcome("rtsp", s, skills, streams)
  BY OtherRegistry, RTSPSound
<1>38. Outcome("rtmp", s, skills, streams)
  BY OtherRegistry, RTMPSound
<1>39. Outcome("srt", s, skills, streams)
  BY OtherRegistry, SRTSound
<1>40. Outcome("udp", s, skills, streams)
  BY OtherRegistry, UDPSound
<1>41. Outcome("mpegts", s, skills, streams)
  BY OtherRegistry, MPEGTSSound
<1>42. Outcome("framebuffer", s, skills, streams)
  BY OtherRegistry, FramebufferSound
<1> HIDE DEF Outcome
<1> QED
  BY <1>1, <1>2, <1>3, <1>4, <1>5, <1>6, <1>7, <1>8, <1>9, <1>10, <1>11, <1>12, <1>13, <1>14, <1>15, <1>16, <1>17, <1>18, <1>19, <1>20, <1>21, <1>22, <1>23, <1>24, <1>25, <1>26, <1>27, <1>28, <1>29, <1>30, <1>31, <1>32, <1>33, <1>34, <1>35, <1>36, <1>37, <1>38, <1>39, <1>40, <1>41, <1>42 DEF Names

-----------------------------------------------------------------------------
(* The formats of the services *)

\* A list of one element.
LEMMA OneElement == \A x : IsList(<<x>>) /\ ToSet(<<x>>) = {x}
<1> TAKE x
<1>1. <<x>> \in Seq({x}) /\ Len(<<x>>) = 1 /\ <<x>>[1] = x
  OBVIOUS
<1>2. ToSet(<<x>>) = {x}
  BY <1>1 DEF ToSet
<1> QED
  BY <1>1, <1>2 DEF IsList

\* With defaults, there are the fields of both.
LEMMA MergedFields == \A s, d : DOMAIN Merged(s, d) = DOMAIN s \cup DOMAIN d
BY DEF Merged

\* What is stored comes before the defaults.
LEMMA MergedStored == \A s, d, f : f \in DOMAIN s => Merged(s, d)[f] = s[f]
BY DEF Merged

\* A default is there for what is not stored.
LEMMA MergedDefault == \A s, d, f : f \in DOMAIN d /\ f \notin DOMAIN s => Merged(s, d)[f] = d[f]
BY DEF Merged

\* Options that name one format, and options that name none.
HasFormat(options, f) == IsList(options) /\ OptionsNamed(options, "-f") = {f}
Silent(options) == IsList(options) /\ OptionsNamed(options, "-f") = {}
\* Options that tell which of the newer codecs are sent.
Tells(options, names, skills) ==
    skills.ffmpeg >= 6 =>
    names \cap ToSet(skills.codecs.video) \subseteq UNION OptionsNamed(options, "-rtmp_enhanced_codecs")

\* -f names the format.
LEMMA FormatMuxer == \A f : HasFormat(Muxer(f), f)
BY OneOption, NamedOne DEF Muxer, HasFormat

\* No options name no format.
LEMMA SilentNone == Silent(<<>>)
BY NoOptions DEF Silent, Free, OptionsNamed

\* An option that is not -f names none.
LEMMA SilentOption == \A n, v : n # "-f" => Silent(<< <<n, v>> >>)
BY OneOption, NamedOne DEF Silent

\* Nor does one that is filled in.
LEMMA SilentFilled == \A options, key : key # "-f" => Silent(Filled(options, key))
BY SilentNone, SilentOption DEF Filled

\* Nor does the announcement of newer codecs.
LEMMA SilentAnnounced == \A names, skills : Silent(Announced(names, skills))
BY SilentNone, SilentOption DEF Announced

\* Options that name a format name it with those around them that name none.
LEMMA FormatConcat ==
    ASSUME NEW a, NEW b, NEW f
    PROVE  /\ HasFormat(a, f) /\ Silent(b) => HasFormat(a \o b, f)
           /\ Silent(a) /\ HasFormat(b, f) => HasFormat(a \o b, f)
<1>1. ASSUME HasFormat(a, f), Silent(b) PROVE HasFormat(a \o b, f)
  <2>1. IsList(a) /\ IsList(b) /\ OptionsNamed(a, "-f") = {f} /\ OptionsNamed(b, "-f") = {}
    BY <1>1 DEF HasFormat, Silent
  <2>2. IsList(a \o b) /\ OptionsNamed(a \o b, "-f") = OptionsNamed(a, "-f") \cup OptionsNamed(b, "-f")
    BY <2>1, Concatenation, Named
  <2> QED
    BY <2>1, <2>2 DEF HasFormat
<1>2. ASSUME Silent(a), HasFormat(b, f) PROVE HasFormat(a \o b, f)
  <2>1. IsList(a) /\ IsList(b) /\ OptionsNamed(a, "-f") = {} /\ OptionsNamed(b, "-f") = {f}
    BY <1>2 DEF HasFormat, Silent
  <2>2. IsList(a \o b) /\ OptionsNamed(a \o b, "-f") = OptionsNamed(a, "-f") \cup OptionsNamed(b, "-f")
    BY <2>1, Concatenation, Named
  <2> QED
    BY <2>1, <2>2 DEF HasFormat
<1> QED
  BY <1>1, <1>2

\* What is pushed as a playlist names hls.
LEMMA FormatPlaylist == HasFormat(PushedPlaylist, "hls")
<1> DEFINE times == << <<"-hls_time", "2">>, <<"-hls_list_size", "5">>,
                       <<"-hls_delete_threshold", "3">>, <<"-method", "PUT">> >>
<1>1. Silent(times)
  <2>1. IsList(times)
    BY DEF IsList, ToSet
  <2>2. \A i \in 1..4 : times[i][1] # "-f"
    OBVIOUS
  <2>3. DOMAIN times = 1..4
    OBVIOUS
  <2> HIDE DEF times
  <2> QED
    BY <2>1, <2>2, <2>3 DEF Silent, OptionsNamed
<1> HIDE DEF times
<1>2. PushedPlaylist = Muxer("hls") \o times
  BY DEF PushedPlaylist, times
<1> QED
  BY <1>1, <1>2, FormatMuxer, FormatConcat

\* The newer codecs ffmpeg has are announced by ffmpeg 6 and later.
LEMMA ToldAnnounced ==
    ASSUME NEW names, NEW skills, NEW a, IsList(a)
    PROVE  Tells(a \o Announced(names, skills), names, skills)
<1> DEFINE known == names \cap ToSet(skills.codecs.video)
           n == Announced(names, skills)
           x == "-rtmp_enhanced_codecs"
<1> SUFFICES ASSUME skills.ffmpeg >= 6 PROVE Tells(a \o n, names, skills)
  BY DEF Tells
<1>1. n = IF known # {} THEN << <<x, known>> >> ELSE <<>>
  BY DEF Announced
<1> HIDE DEF n
<1>2. known \subseteq UNION OptionsNamed(n, x) /\ IsList(n)
  <2>1. CASE known = {}
    BY <1>1, <2>1, NoOptions DEF Free
  <2>2. CASE known # {}
    <3>1. OptionsNamed(n, x) = {known} /\ IsList(n)
      BY <1>1, <2>2, NamedOne, OneOption
    <3> QED
      BY <3>1
  <2> QED
    BY <2>1, <2>2
<1>3. OptionsNamed(a \o n, x) = OptionsNamed(a, x) \cup OptionsNamed(n, x)
  BY <1>2, Named
<1> QED
  BY <1>2, <1>3 DEF Tells, n

\* They stay announced, whatever is said after it.
LEMMA ToldMore ==
    ASSUME NEW names, NEW skills, NEW a, IsList(a), NEW b, IsList(b), Tells(a, names, skills)
    PROVE  Tells(a \o b, names, skills)
BY Named DEF Tells

\* The codecs that are sent to a service.
SentBy(v, skills) ==
    (ToSet(v.codecs.audio) \cup (ToSet(v.codecs.video) \cap ToSet(skills.codecs.video))) \ {"none"}

\* The outputs of a service carry the codecs that are sent to it, and its settings go on to fit.
CarriesSent(id, v, skills) ==
    skills.ffmpeg >= 6 =>
    \A o \in ToSet(v.outputs), codecs \in SUBSET SentBy(v, skills) :
       "options" \in DOMAIN o /\ o.address[1] # "" /\ codecs # {} /\ ~Misfit(id, o.address[1], codecs) =>
          Carries(o, codecs)

\* An output carries what its format takes.
LEMMA CarriesFormat ==
    ASSUME NEW o, NEW f, NEW codecs, HasFormat(o.options, f), GoesOver(f, o.address[1]),
           f \in DOMAIN Takes => codecs \subseteq Takes[f] \cup UNION OptionsNamed(o.options, "-rtmp_enhanced_codecs")
    PROVE  Carries(o, codecs)
BY DEF Carries, HasFormat

\* The codecs the services name.
LEMMA CodecSets ==
    /\ ToSet(AACorMP3) = {"aac", "mp3"} /\ ToSet(OnlyAAC) = {"aac"} /\ ToSet(<<"h264">>) = {"h264"}
    /\ ToSet(<<"none">>) = {"none"} /\ ToSet(<<"none", "vp9">>) = {"none", "vp9"}
    /\ ToSet(<<"rawvideo">>) = {"rawvideo"} /\ ToSet(<<"h264", "hevc", "av1">>) = {"h264", "hevc", "av1"}
    /\ ToSet(<<"h264", "hevc", "vp9">>) = {"h264", "hevc", "vp9"}
    /\ ToSet(<<"h264", "hevc", "vp9", "av1">>) = {"h264", "hevc", "vp9", "av1"}
    /\ ToSet(<<"aac", "opus", "vorbis", "mp3">>) = {"aac", "opus", "vorbis", "mp3"}
BY DEF ToSet, AACorMP3, OnlyAAC

\* An output of flv over RTMP, as far as it has options.
IsFlv(o) == "options" \in DOMAIN o => HasFormat(o.options, "flv") /\ o.address[1] \in RTMPs \cup {""}

\* A single output that names flv.
LEMMA FlvOutput ==
    ASSUME NEW protocol \in RTMPs \cup {""}, NEW to, NEW options, HasFormat(options, "flv")
    PROVE  \A o \in ToSet(<<Output(protocol, to, options)>>) : IsFlv(o)
<1> DEFINE o == Output(protocol, to, options)
<1>1. o.options = options /\ o.address[1] = protocol
  BY DEF Output
<1> HIDE DEF o
<1>2. ToSet(<<o>>) = {o}
  BY OneElement
<1> QED
  BY <1>1, <1>2 DEF IsFlv, o

\* What is sent to a platform goes in flv over RTMP.
LEMMA FlvService ==
    ASSUME NEW id, NEW skills, NEW protocols, NEW formats, NEW audio \in {AACorMP3, OnlyAAC}, NEW s,
           NEW outputs, \A o \in ToSet(outputs) : IsFlv(o)
    PROVE  LET v == Service(protocols, formats, audio, <<"h264">>, s, outputs)
           IN  v.settings = s /\ CarriesSent(id, v, skills)
<1> DEFINE v == Service(protocols, formats, audio, <<"h264">>, s, outputs)
<1>1. v.settings = s /\ v.outputs = outputs /\ v.codecs.audio = audio /\ v.codecs.video = <<"h264">>
  BY DEF Service
<1> HIDE DEF v
<1>2. SentBy(v, skills) \subseteq {"h264", "aac", "mp3"}
  BY <1>1, CodecSets DEF SentBy
<1>3. ASSUME NEW o \in ToSet(outputs), NEW codecs \in SUBSET SentBy(v, skills), "options" \in DOMAIN o,
             o.address[1] # ""
      PROVE  Carries(o, codecs)
  <2>1. HasFormat(o.options, "flv") /\ o.address[1] \in RTMPs
    BY <1>3 DEF IsFlv
  <2>2. GoesOver("flv", o.address[1]) /\ codecs \subseteq Takes["flv"]
    BY <1>2, <2>1 DEF GoesOver, Takes
  <2> QED
    BY <2>1, <2>2, CarriesFormat
<1> QED
  BY <1>1, <1>3 DEF CarriesSent, v

\* Settings over defaults that fit.
LEMMA MergedFit ==
    ASSUME NEW id, NEW s, NEW d, SettingsFit(id, s), "base_url" \in DOMAIN d => "protocol" \in DOMAIN d,
           "protocol" \in DOMAIN d => d["protocol"] \in Spoken(id),
           \A url \in {"server_url", "v2_address"} \cap DOMAIN d : d[url][1] \in Spoken(id) \cup {""}
    PROVE  SettingsFit(id, Merged(s, d)) /\ SettingsFit(id, Merged(d, s))
BY DEF SettingsFit, Merged

\* Settings over others.
LEMMA MergedBoth ==
    ASSUME NEW id, NEW s, NEW d, SettingsFit(id, s), SettingsFit(id, d)
    PROVE  SettingsFit(id, Merged(s, d))
<1>1. "base_url" \in DOMAIN d => "protocol" \in DOMAIN d
  BY DEF SettingsFit
<1>2. "protocol" \in DOMAIN d => d["protocol"] \in Spoken(id)
  BY DEF SettingsFit
<1>3. \A url \in {"server_url", "v2_address"} \cap DOMAIN d : d[url][1] \in Spoken(id) \cup {""}
  BY DEF SettingsFit
<1> QED
  BY <1>1, <1>2, <1>3, MergedFit

\* No settings fit.
LEMMA NothingFits == \A id : SettingsFit(id, NoSettings)
BY DEF SettingsFit, NoSettings

\* Settings with defaults that are no address.
LEMMA DefaultsFit ==
    ASSUME NEW id, NEW s, NEW d, SettingsFit(id, s), "base_url" \notin DOMAIN d, "protocol" \notin DOMAIN d,
           "server_url" \notin DOMAIN d, "v2_address" \notin DOMAIN d
    PROVE  SettingsFit(id, Merged(s, d))
BY MergedFit

\* Settings with a protocol among their defaults.
LEMMA ProtocolFits ==
    ASSUME NEW id, NEW s, NEW d, SettingsFit(id, s), "protocol" \in DOMAIN d, d["protocol"] \in Spoken(id),
           "server_url" \notin DOMAIN d, "v2_address" \notin DOMAIN d
    PROVE  /\ SettingsFit(id, Merged(s, d)) /\ "protocol" \in DOMAIN Merged(s, d)
           /\ Merged(s, d).protocol \in Spoken(id)
<1> DEFINE m == Merged(s, d)
<1>1. SettingsFit(id, m)
  BY MergedFit
<1>2. "protocol" \in DOMAIN m
  BY MergedFields
<1> HIDE DEF m
<1> QED
  BY <1>1, <1>2 DEF SettingsFit, m

\* A platform with an address of its own is sent what flv carries.
LEMMA KeyedFits ==
    ASSUME NEW id, NEW protocols, NEW protocol \in RTMPs, NEW to, NEW audio \in {AACorMP3, OnlyAAC}, NEW s,
           NEW skills, SettingsFit(id, s)
    PROVE  LET v == Keyed(protocols, protocol, to, audio, s)
           IN  SettingsFit(id, v.settings) /\ CarriesSent(id, v, skills)
<1> DEFINE m == Merged(s, [key |-> ""])
<1>1. SettingsFit(id, m)
  BY DefaultsFit
<1> HIDE DEF m
<1>2. \A x \in ToSet(<<Output(protocol, <<to, m.key>>, Muxer("flv"))>>) : IsFlv(x)
  BY FormatMuxer, FlvOutput
<1>3. Keyed(protocols, protocol, to, audio, s) =
         Service(protocols, {"flv"}, audio, <<"h264">>, m, <<Output(protocol, <<to, m.key>>, Muxer("flv"))>>)
  BY Zenon DEF Keyed, m
<1> QED
  BY <1>1, <1>2, <1>3, FlvService

\* So is one whose address is filled in, as the protocol is one it is for.
LEMMA AddressedFits ==
    ASSUME NEW id, NEW protocols, NEW protocol \in RTMPs, NEW audio \in {AACorMP3, OnlyAAC}, NEW s,
           NEW skills, SettingsFit(id, s), Spoken(id) = RTMPs
    PROVE  LET v == Addressed(protocols, protocol, audio, s)
           IN  SettingsFit(id, v.settings) /\ CarriesSent(id, v, skills)
<1> DEFINE m == Merged(s, [protocol |-> protocol, address |-> "", key |-> ""])
<1>1. SettingsFit(id, m)
  BY MergedFit
<1>2. m.protocol \in RTMPs
  BY <1>1 DEF SettingsFit, Merged
<1> HIDE DEF m
<1>3. \A x \in ToSet(<<Output(m.protocol, <<m.address, m.key>>, Muxer("flv"))>>) : IsFlv(x)
  BY <1>2, FormatMuxer, FlvOutput
<1>4. Addressed(protocols, protocol, audio, s) =
         Service(protocols, {"flv"}, audio, <<"h264">>, m, <<Output(m.protocol, <<m.address, m.key>>, Muxer("flv"))>>)
  BY Zenon DEF Addressed, m
<1> QED
  BY <1>1, <1>3, <1>4, FlvService

\* A whole URL keeps to the protocols of the service.
LEMMA UrlFits ==
    ASSUME NEW id, NEW s, SettingsFit(id, s), Spoken(id) = RTMPs
    PROVE  LET m == Merged(s, [server_url |-> <<"", "">>, stream_key |-> ""])
           IN  SettingsFit(id, m) /\ m.server_url[1] \in RTMPs \cup {""}
<1> DEFINE d == [server_url |-> <<"", "">>, stream_key |-> ""]
           m == Merged(s, d)
<1>1. DOMAIN d = {"server_url", "stream_key"} /\ d["server_url"][1] = ""
  OBVIOUS
<1>3. \A url \in {"server_url", "v2_address"} \cap DOMAIN d : d[url][1] \in Spoken(id) \cup {""}
  BY <1>1
<1> HIDE DEF d
<1>2. SettingsFit(id, m) /\ "server_url" \in DOMAIN m
  <2>1. SettingsFit(id, m)
    BY <1>1, <1>3, MergedFit
  <2> QED
    BY <1>1, <2>1, MergedFields
<1> HIDE DEF m
<1> QED
  BY <1>2 DEF SettingsFit, m, d

\* So is a platform that gives one.
LEMMA PlayPathFits ==
    ASSUME NEW id, NEW protocols, NEW audio \in {AACorMP3, OnlyAAC}, NEW s, NEW skills, SettingsFit(id, s),
           Spoken(id) = RTMPs
    PROVE  LET v == PlayPath(protocols, audio, s)
           IN  SettingsFit(id, v.settings) /\ CarriesSent(id, v, skills)
<1> DEFINE m == Merged(s, [server_url |-> <<"", "">>, stream_key |-> ""])
           o == << <<"-rtmp_playpath", m.stream_key>> >> \o Muxer("flv")
<1>1. SettingsFit(id, m) /\ m.server_url[1] \in RTMPs \cup {""}
  BY UrlFits
<1> HIDE DEF m
<1>2. HasFormat(o, "flv")
  BY FormatMuxer, SilentOption, FormatConcat
<1> HIDE DEF o
<1> DEFINE outputs == <<Output(m.server_url[1], <<m.server_url[2]>>, o)>>
<1>3. \A x \in ToSet(outputs) : IsFlv(x)
  BY <1>1, <1>2, FlvOutput
<1>4. PlayPath(protocols, audio, s) = Service(protocols, {"flv"}, audio, <<"h264">>, m, outputs)
  BY Zenon DEF PlayPath, m, o
<1> HIDE DEF outputs
<1>5. SettingsFit(id, m)
  BY <1>1
<1> QED
  BY <1>3, <1>4, <1>5, FlvService

\* Rumble takes flv from the server it gives.
LEMMA RumbleFits ==
    ASSUME NEW s, NEW skills, SettingsFit("rumble", s)
    PROVE  SettingsFit("rumble", Rumble(s).settings) /\ CarriesSent("rumble", Rumble(s), skills)
<1> DEFINE m == Merged(s, [server_url |-> <<"", "">>, stream_key |-> ""])
<1>0. Spoken("rumble") = RTMPs
  BY DEF Spoken
<1>1. SettingsFit("rumble", m) /\ m.server_url[1] \in RTMPs \cup {""}
  BY <1>0, UrlFits
<1> HIDE DEF m
<1> DEFINE outputs == <<Output(m.server_url[1], <<m.server_url[2], m.stream_key>>, Muxer("flv"))>>
<1>3. \A x \in ToSet(outputs) : IsFlv(x)
  BY <1>1, FormatMuxer, FlvOutput
<1>4. Rumble(s) = Service({"rtmp", "rtmps"}, {"flv"}, AACorMP3, <<"h264">>, m, outputs)
  BY Zenon DEF Rumble, m
<1> HIDE DEF outputs
<1>5. SettingsFit("rumble", m)
  BY <1>1
<1> QED
  BY <1>3, <1>4, <1>5, FlvService

\* Twitch takes flv in every region.
LEMMA TwitchFits ==
    ASSUME NEW s, NEW skills, SettingsFit("twitch", s)
    PROVE  SettingsFit("twitch", Twitch(s).settings) /\ CarriesSent("twitch", Twitch(s), skills)
<1> DEFINE m == Merged(s, [region |-> "live", key |-> ""])
           to == <<m.region, IF m.region = "live-video.net" THEN "" ELSE "twitch", m.key>>
<1>1. SettingsFit("twitch", m)
  BY DefaultsFit
<1>2. Twitch(s) = Service({"rtmp"}, {"flv"}, AACorMP3, <<"h264">>, m, <<Output("rtmp", to, Muxer("flv"))>>)
  BY Zenon DEF Twitch
<1> HIDE DEF m, to
<1>3. \A x \in ToSet(<<Output("rtmp", to, Muxer("flv"))>>) : IsFlv(x)
  BY FormatMuxer, FlvOutput DEF RTMPs
<1> QED
  BY <1>1, <1>2, <1>3, FlvService

\* PeerTube takes flv with and without TLS.
LEMMA PeerTubeFits ==
    ASSUME NEW s, NEW skills, SettingsFit("peertube", s)
    PROVE  SettingsFit("peertube", PeerTube(s).settings) /\ CarriesSent("peertube", PeerTube(s), skills)
<1> DEFINE m == Merged(s, [rtmps |-> FALSE, domain |-> "", key |-> ""])
           protocol == IF m.rtmps THEN "rtmps" ELSE "rtmp"
           to == <<m.domain, IF m.rtmps THEN 1936 ELSE 1935, m.key>>
<1>1. SettingsFit("peertube", m)
  BY DefaultsFit
<1>2. PeerTube(s) = Service({"rtmp", "rtmps"}, {"flv"}, AACorMP3, <<"h264">>, m,
                            <<Output(protocol, to, Muxer("flv"))>>)
  BY Zenon DEF PeerTube
<1>4. protocol \in RTMPs
  BY DEF RTMPs
<1> HIDE DEF m, to, protocol
<1>3. \A x \in ToSet(<<Output(protocol, to, Muxer("flv"))>>) : IsFlv(x)
  BY <1>4, FormatMuxer, FlvOutput
<1> QED
  BY <1>1, <1>2, <1>3, FlvService

\* EarthCam's output has no options, and so no format.
LEMMA EarthCamFits ==
    ASSUME NEW s, NEW skills, SettingsFit("earthcam", s)
    PROVE  SettingsFit("earthcam", EarthCam(s).settings) /\ CarriesSent("earthcam", EarthCam(s), skills)
<1> DEFINE m == Merged(s, [stream_key |-> ""])
           o == [address |-> <<"rtmp", <<"earthcam", m.stream_key>> >>]
<1>1. SettingsFit("earthcam", m)
  BY DefaultsFit
<1>2. EarthCam(s) = Service({"rtmp"}, {"flv"}, OnlyAAC, <<"h264">>, m, <<o>>)
  BY Zenon DEF EarthCam
<1>3. IsFlv(o)
  BY DEF IsFlv
<1> HIDE DEF m, o
<1>4. \A x \in ToSet(<<o>>) : IsFlv(x)
  BY <1>3, OneElement
<1> QED
  BY <1>1, <1>2, <1>4, FlvService

\* Nimo TV takes flv, as long as there is a key.
LEMMA NimoTvFits ==
    ASSUME NEW s, NEW skills, SettingsFit("nimotv", s)
    PROVE  SettingsFit("nimotv", NimoTv(s).settings) /\ CarriesSent("nimotv", NimoTv(s), skills)
<1> DEFINE m == Merged(s, [lines |-> "1", stream_key |-> ""])
           sent == Output("rtmp", <<"nimo", m.lines, m.stream_key>>, Muxer("flv"))
           o == IF m.stream_key = "" THEN NullOutput ELSE sent
<1>1. SettingsFit("nimotv", m)
  BY DefaultsFit
<1>2. NimoTv(s) = Service({"rtmp"}, {"flv"}, AACorMP3, <<"h264">>, m, <<o>>)
  BY Zenon DEF NimoTv
<1> HIDE DEF m
<1>3. IsFlv(sent) /\ IsFlv(NullOutput)
  BY FormatMuxer DEF IsFlv, Output, NullOutput, RTMPs
<1> HIDE DEF sent
<1>5. IsFlv(o)
  BY <1>3
<1> HIDE DEF o
<1>4. \A x \in ToSet(<<o>>) : IsFlv(x)
  BY <1>5, OneElement
<1> QED
  BY <1>1, <1>2, <1>4, FlvService

\* Outputs of flv together.
LEMMA FlvMore ==
    ASSUME NEW a, NEW b, IsList(a), IsList(b), \A x \in ToSet(a) : IsFlv(x), \A x \in ToSet(b) : IsFlv(x)
    PROVE  \A x \in ToSet(a \o b) : IsFlv(x)
BY Concatenation

\* Facebook takes flv at both of its servers.
LEMMA FacebookFits ==
    ASSUME NEW s, NEW skills, SettingsFit("facebook", s)
    PROVE  SettingsFit("facebook", Facebook(s).settings) /\ CarriesSent("facebook", Facebook(s), skills)
<1> DEFINE m == Merged(s, [stream_key_primary |-> "", stream_key_backup |-> "",
                           rtmp_primary |-> TRUE, rtmp_backup |-> FALSE])
           To(key, on) == IF on /\ key # ""
                          THEN <<Output("rtmps", <<"facebook", key>>, Muxer("flv"))>> ELSE <<>>
           outputs == To(m.stream_key_primary, m.rtmp_primary) \o To(m.stream_key_backup, m.rtmp_backup)
<1>1. SettingsFit("facebook", m)
  BY DefaultsFit
<1>2. Facebook(s) = Service({"rtmps"}, {"flv"}, OnlyAAC, <<"h264">>, m, outputs)
  BY Zenon DEF Facebook
<1>3. \A key, on : IsList(To(key, on)) /\ \A x \in ToSet(To(key, on)) : IsFlv(x)
  <2> TAKE key, on
  <2>1. CASE on /\ key # ""
    <3>1. \A x \in ToSet(<<Output("rtmps", <<"facebook", key>>, Muxer("flv"))>>) : IsFlv(x)
      BY FormatMuxer, FlvOutput DEF RTMPs
    <3> QED
      BY <2>1, <3>1, OneElement
  <2>2. CASE ~(on /\ key # "")
    BY <2>2, NoOptions DEF Free
  <2> QED
    BY <2>1, <2>2
<1> HIDE DEF m, To
<1>4. \A x \in ToSet(outputs) : IsFlv(x)
  BY <1>3, FlvMore
<1> HIDE DEF outputs
<1> QED
  BY <1>1, <1>2, <1>4, FlvService

\* Akamai takes flv over the protocol that is chosen.
LEMMA AkamaiFits ==
    ASSUME NEW s, NEW skills, SettingsFit("akamai", s)
    PROVE  SettingsFit("akamai", Akamai(s).settings) /\ CarriesSent("akamai", Akamai(s), skills)
<1> DEFINE d == [protocol |-> "rtmp", stream_url |-> "", backup_url |-> "", enable_backup_stream |-> FALSE,
                 address_extensions |-> [live |-> "true", pubUser |-> ""]]
           m == Merged(s, d)
           to == <<m.stream_url, Filled(m.address_extensions, "live") \o Filled(m.address_extensions, "pubUser")>>
<1>0. Spoken("akamai") = RTMPs /\ "rtmp" \in RTMPs
  BY DEF Spoken, RTMPs
<1>1. SettingsFit("akamai", m) /\ "protocol" \in DOMAIN m
  BY <1>0, ProtocolFits
<1>2. Akamai(s) = Service({"rtmp"}, {"flv"}, AACorMP3, <<"h264">>, m, <<Output(m.protocol, to, Muxer("flv"))>>)
  BY Zenon DEF Akamai
<1> HIDE DEF m, to
<1>3. m.protocol \in RTMPs
  BY <1>0, <1>1 DEF SettingsFit
<1>4. \A x \in ToSet(<<Output(m.protocol, to, Muxer("flv"))>>) : IsFlv(x)
  BY <1>3, FormatMuxer, FlvOutput
<1> QED
  BY <1>1, <1>2, <1>4, FlvService

\* DaCast takes flv at both of its servers.
LEMMA DaCastFits ==
    ASSUME NEW s, NEW skills, SettingsFit("dacast", s)
    PROVE  SettingsFit("dacast", DaCast(s).settings) /\ CarriesSent("dacast", DaCast(s), skills)
<1> DEFINE m == Merged(s, [protocol |-> "rtmp", server |-> "", backup_server |-> "",
                           enable_backup_server |-> FALSE, stream_key |-> ""])
           o == Output(m.protocol, <<m.server, m.stream_key>>, Muxer("flv"))
           outputs == IF m.enable_backup_server THEN <<o, o>> ELSE <<o>>
<1>0. Spoken("dacast") = RTMPs /\ "rtmp" \in RTMPs
  BY DEF Spoken, RTMPs
<1>1. SettingsFit("dacast", m) /\ "protocol" \in DOMAIN m
  BY <1>0, ProtocolFits
<1>2. DaCast(s) = Service({"rtmp"}, {"flv"}, AACorMP3, <<"h264">>, m, outputs)
  BY Zenon DEF DaCast
<1> HIDE DEF m
<1>3. m.protocol \in RTMPs
  BY <1>0, <1>1 DEF SettingsFit
<1>4. \A x \in ToSet(<<o>>) : IsFlv(x)
  BY <1>3, FormatMuxer, FlvOutput
<1> HIDE DEF o
<1>5. <<o, o>> = <<o>> \o <<o>> /\ IsList(<<o>>)
  BY OneElement
<1>6. \A x \in ToSet(<<o, o>>) : IsFlv(x)
  BY <1>4, <1>5, FlvMore
<1>7. \A x \in ToSet(outputs) : IsFlv(x)
  BY <1>4, <1>6
<1> HIDE DEF outputs
<1> QED
  BY <1>1, <1>2, <1>7, FlvService

\* An output that goes over its protocol and takes what is sent.
LEMMA OneCarries ==
    ASSUME NEW id, NEW skills, NEW v, NEW protocol, NEW to, NEW options, NEW f,
           v.outputs = <<Output(protocol, to, options)>>, HasFormat(options, f),
           \A codecs \in SUBSET SentBy(v, skills) :
              skills.ffmpeg >= 6 /\ protocol # "" /\ codecs # {} /\ ~Misfit(id, protocol, codecs) =>
                 /\ GoesOver(f, protocol)
                 /\ f \in DOMAIN Takes =>
                       codecs \subseteq Takes[f] \cup UNION OptionsNamed(options, "-rtmp_enhanced_codecs")
    PROVE  CarriesSent(id, v, skills)
<1> DEFINE o == Output(protocol, to, options)
<1>1. o.options = options /\ o.address[1] = protocol
  BY DEF Output
<1> HIDE DEF o
<1>2. ToSet(v.outputs) = {o}
  BY OneElement DEF o
<1>3. ASSUME skills.ffmpeg >= 6, NEW codecs \in SUBSET SentBy(v, skills), o.address[1] # "", codecs # {},
             ~Misfit(id, o.address[1], codecs)
      PROVE  Carries(o, codecs)
  BY <1>1, <1>3, CarriesFormat
<1> QED
  BY <1>2, <1>3 DEF CarriesSent

\* Formats that take every codec.
LEMMA AnyCodec ==
    ASSUME NEW id, NEW skills, NEW v, NEW protocol, NEW to, NEW options,
           NEW f \in {"rtsp", "mpegts", "hls", "dash", "image2"},
           v.outputs = <<Output(protocol, to, options)>>, HasFormat(options, f), GoesOver(f, protocol)
    PROVE  CarriesSent(id, v, skills)
<1>1. f \notin DOMAIN Takes
  BY DEF Takes
<1> QED
  BY <1>1, OneCarries

\* Codecs that are told.
LEMMA ToldCarries ==
    ASSUME NEW id, NEW skills, NEW v, NEW protocol, NEW to, NEW options, NEW names, HasFormat(options, "flv"),
           v.outputs = <<Output(protocol, to, options)>>, Tells(options, names, skills),
           ToSet(v.codecs.audio) \subseteq {"aac", "mp3"}, ToSet(v.codecs.video) \subseteq {"h264"} \cup names,
           protocol \in RTMPs \cup {""}
    PROVE  CarriesSent(id, v, skills)
<1>1. ASSUME NEW codecs \in SUBSET SentBy(v, skills), skills.ffmpeg >= 6
      PROVE  codecs \subseteq Takes["flv"] \cup UNION OptionsNamed(options, "-rtmp_enhanced_codecs")
  BY <1>1 DEF SentBy, Tells, Takes
<1>2. protocol # "" => GoesOver("flv", protocol)
  BY DEF GoesOver
<1> QED
  BY <1>1, <1>2, OneCarries

\* The fields of a service.
LEMMA ServiceFields ==
    ASSUME NEW protocols, NEW formats, NEW audio, NEW video, NEW s, NEW outputs
    PROVE  LET v == Service(protocols, formats, audio, video, s, outputs)
           IN  v.settings = s /\ v.outputs = outputs /\ v.codecs.audio = audio /\ v.codecs.video = video
BY DEF Service

\* RTMP carries the newer codecs, which are announced.
LEMMA RTMPFits ==
    ASSUME NEW s, NEW skills, SettingsFit("rtmp", s)
    PROVE  SettingsFit("rtmp", RTMP(s, skills).settings) /\ CarriesSent("rtmp", RTMP(s, skills), skills)
<1> DEFINE m == Merged(s, [protocol |-> "rtmp", address |-> "",
                           options |-> [rtmp_app |-> "", rtmp_flush_interval |-> "10"]])
           names == {"hevc", "av1", "vp9"}
           front == Muxer("flv") \o Announced(names, skills)
           app == Filled(m.options, "rtmp_app")
           flush == IF m.protocol \in {"rtmpt", "rtmpte", "rtmpts"} THEN Filled(m.options, "rtmp_flush_interval")
                    ELSE <<>>
           options == front \o app \o flush
           video == <<"h264", "hevc", "vp9", "av1">>
           v == RTMP(s, skills)
<1>1. v = Service({"rtmp", "rtmps", "rtmpt", "rtmpts"}, {"flv"}, AACorMP3, video, m,
                  <<Output(m.protocol, <<m.address>>, options)>>)
  BY Zenon DEF RTMP
<1>0. Spoken("rtmp") = RTMPs /\ "rtmp" \in RTMPs
  BY DEF Spoken, RTMPs
<1>2. SettingsFit("rtmp", m) /\ m.protocol \in RTMPs
  BY <1>0, ProtocolFits
<1> HIDE DEF m, names, v
<1>3. HasFormat(front, "flv") /\ Tells(front, names, skills)
  <2>1. HasFormat(front, "flv")
    BY FormatMuxer, SilentAnnounced, FormatConcat
  <2>2. IsList(Muxer("flv"))
    BY FormatMuxer DEF HasFormat
  <2> QED
    BY <2>1, <2>2, ToldAnnounced
<1>4. Silent(app) /\ Silent(flush)
  BY SilentFilled, SilentNone
<1> HIDE DEF front, app, flush
<1> DEFINE middle == front \o app
<1>5. HasFormat(middle, "flv") /\ Tells(middle, names, skills)
  BY <1>3, <1>4, FormatConcat, ToldMore DEF HasFormat, Silent
<1> HIDE DEF middle
<1>6. options = middle \o flush
  BY DEF middle
<1> HIDE DEF options
<1>7. HasFormat(options, "flv") /\ Tells(options, names, skills)
  BY <1>4, <1>5, <1>6, FormatConcat, ToldMore DEF HasFormat, Silent
<1> DEFINE outputs == <<Output(m.protocol, <<m.address>>, options)>>
<1>8. v.settings = m /\ v.outputs = outputs /\ v.codecs.audio = AACorMP3 /\ v.codecs.video = video
  BY <1>1, ServiceFields
<1>9. ToSet(v.codecs.audio) \subseteq {"aac", "mp3"} /\ ToSet(v.codecs.video) \subseteq {"h264"} \cup names
  BY <1>8, CodecSets DEF names
<1>10. CarriesSent("rtmp", v, skills)
  BY <1>2, <1>7, <1>8, <1>9, ToldCarries
<1> QED
  BY <1>2, <1>8, <1>10 DEF v

\* Another Core takes flv with the newer codecs over RTMP, and MPEG-TS over SRT, also with the settings of version 1.
LEMMA CoreFits ==
    ASSUME NEW s, NEW skills, SettingsFit("datarheicore", s)
    PROVE  SettingsFit("datarheicore", Core(s, skills).settings)
           /\ CarriesSent("datarheicore", Core(s, skills), skills)
<1> DEFINE filled == ("base_url" \in DOMAIN s /\ "v2_address" \notin DOMAIN s) /\ s.base_url # ""
           a == [v2_address |-> <<s.protocol, s.base_url>>]
           b == [s EXCEPT !.base_url = ""]
           d == [v2_address |-> <<"", "">>]
           m == IF filled THEN Merged(a, b) ELSE Merged(s, d)
           names == {"hevc", "av1", "vp9"}
           ts == << <<"-bsf:v", "dump_extra">> >> \o Muxer("mpegts")
           flv == Muxer("flv") \o Announced(names, skills)
           options == IF m.v2_address[1] = "srt" THEN ts ELSE flv
           video == <<"h264", "hevc", "vp9", "av1">>
           v == Core(s, skills)
<1>1. v = Service({"rtmp", "rtmps", "srt"}, {"flv", "mpegts"}, OnlyAAC, video, m,
                  <<Output(m.v2_address[1], <<m.v2_address[2]>>, options)>>)
  BY Zenon DEF Core
<1>0. Spoken("datarheicore") = RTMPs \cup {"srt"}
  BY DEF Spoken
<1>2. SettingsFit("datarheicore", m) /\ "v2_address" \in DOMAIN m
  <2>1. CASE filled
    <3>0. DOMAIN a = {"v2_address"}
      OBVIOUS
    <3>1. a["v2_address"][1] \in Spoken("datarheicore") /\ SettingsFit("datarheicore", b)
      BY <2>1 DEF SettingsFit
    <3>2. m = Merged(a, b)
      BY <2>1
    <3> HIDE DEF a, b, m, filled
    <3>3. SettingsFit("datarheicore", Merged(a, b))
      BY <3>0, <3>1, MergedFit
    <3>5. DOMAIN Merged(a, b) = DOMAIN a \cup DOMAIN b
      BY MergedFields
    <3>4. "v2_address" \in DOMAIN Merged(a, b)
      BY <3>0, <3>5
    <3> QED
      BY <3>2, <3>3, <3>4
  <2>2. CASE ~filled
    <3>1. DOMAIN d = {"v2_address"} /\ d["v2_address"][1] = ""
      OBVIOUS
    <3>2. m = Merged(s, d)
      BY <2>2
    <3> HIDE DEF d, m, filled
    <3>3. SettingsFit("datarheicore", Merged(s, d))
      BY <3>1, MergedFit
    <3> QED
      BY <3>1, <3>2, <3>3, MergedFields
  <2> QED
    BY <2>1, <2>2
<1> HIDE DEF m, names, v
<1>3. m.v2_address[1] \in RTMPs \cup {"srt", ""}
  BY <1>0, <1>2 DEF SettingsFit
<1>4. HasFormat(flv, "flv") /\ Tells(flv, names, skills)
  <2>1. HasFormat(flv, "flv")
    BY FormatMuxer, SilentAnnounced, FormatConcat
  <2>2. IsList(Muxer("flv"))
    BY FormatMuxer DEF HasFormat
  <2> QED
    BY <2>1, <2>2, ToldAnnounced
<1>5. HasFormat(ts, "mpegts")
  BY FormatMuxer, SilentOption, FormatConcat
<1> HIDE DEF ts, flv
<1>6. HasFormat(options, IF m.v2_address[1] = "srt" THEN "mpegts" ELSE "flv")
      /\ (m.v2_address[1] # "srt" => Tells(options, names, skills))
  BY <1>4, <1>5
<1> HIDE DEF options
<1> DEFINE protocol == m.v2_address[1]
           outputs == <<Output(protocol, <<m.v2_address[2]>>, options)>>
<1>8. v.settings = m /\ v.outputs = outputs /\ v.codecs.audio = OnlyAAC /\ v.codecs.video = video
  BY <1>1, ServiceFields
<1>9. ToSet(v.codecs.audio) \subseteq {"aac", "mp3"} /\ ToSet(v.codecs.video) \subseteq {"h264"} \cup names
  BY <1>8, CodecSets DEF names
<1>12. protocol \in RTMPs \cup {"srt", ""} /\ HasFormat(options, IF protocol = "srt" THEN "mpegts" ELSE "flv")
       /\ (protocol # "srt" => Tells(options, names, skills))
  BY <1>3, <1>6
<1> HIDE DEF protocol
<1>10. CASE protocol = "srt"
  <2>1. GoesOver("mpegts", protocol) /\ HasFormat(options, "mpegts")
    BY <1>10, <1>12 DEF GoesOver
  <2>2. CarriesSent("datarheicore", v, skills)
    BY <1>8, <2>1, AnyCodec
  <2> QED
    BY <1>2, <1>8, <2>2 DEF v
<1>11. CASE protocol # "srt"
  <2>1. CarriesSent("datarheicore", v, skills)
    BY <1>8, <1>9, <1>11, <1>12, ToldCarries
  <2> QED
    BY <1>2, <1>8, <2>1 DEF v
<1> QED
  BY <1>10, <1>11

\* YouTube takes flv with the newer codecs, or HLS, at both of its servers.
LEMMA YoutubeFits ==
    ASSUME NEW s, NEW skills, SettingsFit("youtube", s)
    PROVE  SettingsFit("youtube", Youtube(s, skills).settings) /\ CarriesSent("youtube", Youtube(s, skills), skills)
<1> DEFINE m == Merged(s, [mode |-> "rtmps", stream_key |-> "", primary |-> TRUE, backup |-> FALSE])
           names == {"hevc", "av1"}
           options == Muxer("flv") \o Announced(names, skills)
           To(server, on) ==
               IF ~on THEN <<>>
               ELSE IF m.mode = "rtmps" THEN <<Output("rtmps", <<server, m.stream_key>>, options)>>
                    ELSE <<Output("https", <<server, m.stream_key>>, PushedPlaylist)>>
           outputs == IF m.stream_key = "" THEN <<>> ELSE To("a", m.primary) \o To("b", m.backup)
           video == <<"h264", "hevc", "av1">>
           v == Youtube(s, skills)
           IsFit(o) == \/ o.address[1] = "rtmps" /\ o.options = options
                       \/ o.address[1] = "https" /\ o.options = PushedPlaylist
<1>1. v = Service({"rtmps", "https"}, {"flv", "hls"}, AACorMP3, video, m, outputs)
  BY Zenon DEF Youtube
<1>2. SettingsFit("youtube", m)
  BY DefaultsFit
<1> HIDE DEF m, v
<1>3. HasFormat(options, "flv") /\ Tells(options, names, skills)
  <2>1. HasFormat(options, "flv")
    BY FormatMuxer, SilentAnnounced, FormatConcat
  <2>2. IsList(Muxer("flv"))
    BY FormatMuxer DEF HasFormat
  <2> QED
    BY <2>1, <2>2, ToldAnnounced
<1> HIDE DEF options
<1>4. \A server, on : IsList(To(server, on)) /\ \A o \in ToSet(To(server, on)) : IsFit(o)
  <2> TAKE server, on
  <2> DEFINE one == Output("rtmps", <<server, m.stream_key>>, options)
             two == Output("https", <<server, m.stream_key>>, PushedPlaylist)
  <2>1. IsFit(one) /\ IsFit(two)
    BY DEF Output
  <2> HIDE DEF IsFit, one, two
  <2>2. \A x \in {<<>>, <<one>>, <<two>>} : IsList(x) /\ \A o \in ToSet(x) : IsFit(o)
    BY <2>1, OneElement, NoOptions DEF Free
  <2>3. To(server, on) \in {<<>>, <<one>>, <<two>>}
    BY DEF one, two
  <2> QED
    BY <2>2, <2>3
<1> HIDE DEF To, IsFit
<1>5. \A o \in ToSet(outputs) : IsFit(o)
  <2>1. ToSet(To("a", m.primary) \o To("b", m.backup)) = ToSet(To("a", m.primary)) \cup ToSet(To("b", m.backup))
    BY <1>4, Concatenation
  <2> QED
    BY <1>4, <2>1, NoOptions
<1> HIDE DEF outputs
<1>8. v.settings = m /\ v.outputs = outputs /\ v.codecs.audio = AACorMP3 /\ v.codecs.video = video
  BY <1>1, ServiceFields
<1>9. SentBy(v, skills) \subseteq {"aac", "mp3", "h264"} \cup (names \cap ToSet(skills.codecs.video))
  BY <1>8, CodecSets DEF SentBy
<1>10. ASSUME NEW o \in ToSet(outputs), NEW codecs \in SUBSET SentBy(v, skills), skills.ffmpeg >= 6
       PROVE  Carries(o, codecs)
  <2>1. CASE o.address[1] = "rtmps" /\ o.options = options
    <3>1. codecs \subseteq Takes["flv"] \cup UNION OptionsNamed(o.options, "-rtmp_enhanced_codecs")
      BY <1>3, <1>9, <1>10, <2>1 DEF Takes, Tells
    <3>2. GoesOver("flv", o.address[1])
      BY <2>1 DEF GoesOver, RTMPs
    <3> QED
      BY <1>3, <2>1, <3>1, <3>2, CarriesFormat
  <2>2. CASE o.address[1] = "https" /\ o.options = PushedPlaylist
    <3>1. GoesOver("hls", o.address[1]) /\ "hls" \notin DOMAIN Takes
      BY <2>2 DEF GoesOver, Takes
    <3> QED
      BY <2>2, <3>1, FormatPlaylist, CarriesFormat
  <2> QED
    BY <1>5, <2>1, <2>2 DEF IsFit
<1>11. CarriesSent("youtube", v, skills)
  BY <1>8, <1>10 DEF CarriesSent
<1> QED
  BY <1>2, <1>8, <1>11 DEF v

\* Twitter takes flv or HLS.
LEMMA TwitterFits ==
    ASSUME NEW s, NEW skills, SettingsFit("twitter", s)
    PROVE  SettingsFit("twitter", Twitter(s).settings) /\ CarriesSent("twitter", Twitter(s), skills)
<1> DEFINE m == Merged(s, [mode |-> "rtmps", stream_key |-> "", region |-> "de"])
           protocol == IF m.mode = "rtmps" THEN "rtmps" ELSE "https"
           options == IF m.mode = "rtmps" THEN Muxer("flv") ELSE PushedPlaylist
           sent == <<Output(protocol, <<m.region, m.stream_key>>, options)>>
           outputs == IF m.stream_key = "" THEN <<>> ELSE sent
           v == Twitter(s)
<1>1. v = Service({"rtmps", "https"}, {"flv", "hls"}, AACorMP3, <<"h264">>, m, outputs)
  BY Zenon DEF Twitter
<1>2. SettingsFit("twitter", m)
  BY DefaultsFit
<1>3. \/ protocol = "rtmps" /\ HasFormat(options, "flv")
      \/ protocol = "https" /\ HasFormat(options, "hls")
  BY FormatMuxer, FormatPlaylist
<1>8. outputs \in {<<>>, sent}
  OBVIOUS
<1> HIDE DEF m, protocol, options, v, outputs
<1>4. v.settings = m /\ v.outputs = outputs /\ v.codecs.audio = AACorMP3 /\ v.codecs.video = <<"h264">>
  BY <1>1, ServiceFields
<1>5. CASE outputs = <<>>
  <2>1. ToSet(v.outputs) = {}
    BY <1>4, <1>5, NoOptions
  <2> QED
    BY <1>2, <1>4, <2>1 DEF CarriesSent, v
<1>6. CASE outputs = sent /\ protocol = "rtmps"
  <2>1. SentBy(v, skills) \subseteq Takes["flv"]
    BY <1>4, CodecSets DEF SentBy, Takes
  <2>2. GoesOver("flv", protocol)
    BY <1>6 DEF GoesOver, RTMPs
  <2>3. CarriesSent("twitter", v, skills)
    BY <1>3, <1>4, <1>6, <2>1, <2>2, OneCarries
  <2> QED
    BY <1>2, <1>4, <2>3 DEF v
<1>7. CASE outputs = sent /\ protocol = "https"
  <2>1. GoesOver("hls", protocol)
    BY <1>7 DEF GoesOver
  <2>2. CarriesSent("twitter", v, skills)
    BY <1>3, <1>4, <1>7, <2>1, AnyCodec
  <2> QED
    BY <1>2, <1>4, <2>2 DEF v
<1> QED
  BY <1>3, <1>5, <1>6, <1>7, <1>8

\* Over RTSP they are sent flv, which is what they are known to get wrong.
LEMMA ServerFits ==
    ASSUME NEW id \in {"red5", "wowza"}, NEW s, NEW skills, NEW d, DOMAIN d \cap {"server_url", "v2_address"} = {},
           "protocol" \in DOMAIN d, d["protocol"] = "rtmp", SettingsFit(id, s), NEW to,
           NEW protocols, NEW formats
    PROVE  LET m == Merged(s, d)
               v == Service(protocols, formats, AACorMP3, <<"h264">>, m, <<Output(m.protocol, to, Muxer("flv"))>>)
           IN  SettingsFit(id, v.settings) /\ CarriesSent(id, v, skills)
<1> DEFINE m == Merged(s, d)
           protocol == m.protocol
           v == Service(protocols, formats, AACorMP3, <<"h264">>, m, <<Output(protocol, to, Muxer("flv"))>>)
<1>1. Spoken(id) = {"rtmp", "rtsp"}
  BY DEF Spoken
<1>2. SettingsFit(id, m) /\ protocol \in {"rtmp", "rtsp"}
  BY <1>1, ProtocolFits
<1> HIDE DEF protocol, m
<1>3. /\ v.settings = m /\ v.outputs = <<Output(protocol, to, Muxer("flv"))>>
      /\ v.codecs.audio = AACorMP3 /\ v.codecs.video = <<"h264">>
  BY ServiceFields
<1> HIDE DEF v
<1>4. SentBy(v, skills) \subseteq Takes["flv"]
  BY <1>3, CodecSets DEF SentBy, Takes
<1>5. \A codecs : ~Misfit(id, protocol, codecs) => GoesOver("flv", protocol)
  BY <1>2 DEF Misfit, GoesOver, RTMPs
<1>6. CarriesSent(id, v, skills)
  BY <1>3, <1>4, <1>5, FormatMuxer, OneCarries
<1> QED
  BY <1>2, <1>3, <1>6 DEF v, protocol, m

\* Red5 is sent flv, which goes over RTMP only.
LEMMA Red5Fits ==
    ASSUME NEW s, NEW skills, SettingsFit("red5", s)
    PROVE  SettingsFit("red5", Red5(s).settings) /\ CarriesSent("red5", Red5(s), skills)
<1> DEFINE d == [protocol |-> "rtmp", address |-> "", username |-> "", password |-> ""]
           m == Merged(s, d)
           user == IF m.username # "" /\ m.password # "" THEN <<m.username, m.password>> ELSE <<>>
           to == <<user, m.address>>
<1>1. Red5(s) = Service({"rtmp", "rtp"}, {"flv", "rtsp"}, AACorMP3, <<"h264">>, m,
                        <<Output(m.protocol, to, Muxer("flv"))>>)
  BY Zenon DEF Red5
<1>2. DOMAIN d \cap {"server_url", "v2_address"} = {} /\ "protocol" \in DOMAIN d /\ d["protocol"] = "rtmp"
  OBVIOUS
<1> HIDE DEF d, to
<1> QED
  BY <1>1, <1>2, ServerFits

\* So is Wowza.
LEMMA WOWZAFits ==
    ASSUME NEW s, NEW skills, SettingsFit("wowza", s)
    PROVE  SettingsFit("wowza", WOWZA(s).settings) /\ CarriesSent("wowza", WOWZA(s), skills)
<1> DEFINE d == [protocol |-> "rtmp", rtsp_over_udp |-> FALSE, address |-> "", username |-> "", password |-> ""]
           m == Merged(s, d)
           to == << <<m.username, m.password>>, m.address>>
<1>1. WOWZA(s) = Service({"rtmp", "rtp"}, {"flv", "rtsp"}, AACorMP3, <<"h264">>, m,
                         <<Output(m.protocol, to, Muxer("flv"))>>)
  BY Zenon DEF WOWZA
<1>2. DOMAIN d \cap {"server_url", "v2_address"} = {} /\ "protocol" \in DOMAIN d /\ d["protocol"] = "rtmp"
  OBVIOUS
<1> HIDE DEF d, to
<1> QED
  BY <1>1, <1>2, ServerFits

\* A service with an address and a protocol, whose format takes every codec.
LEMMA ProtocolService ==
    ASSUME NEW id, NEW skills, NEW v, NEW m, NEW to, NEW options, NEW f, SettingsFit(id, m),
           m.protocol \in Spoken(id), v.settings = m, v.outputs = <<Output(m.protocol, to, options)>>,
           HasFormat(options, f), f \in {"rtsp", "mpegts", "hls", "dash", "image2"},
           \A protocol \in Spoken(id) : GoesOver(f, protocol)
    PROVE  SettingsFit(id, v.settings) /\ CarriesSent(id, v, skills)
<1> DEFINE protocol == m.protocol
<1>1. protocol \in Spoken(id) /\ v.outputs = <<Output(protocol, to, options)>> /\ GoesOver(f, protocol)
  OBVIOUS
<1> HIDE DEF protocol
<1>2. CarriesSent(id, v, skills)
  BY <1>1, AnyCodec
<1> QED
  BY <1>2

\* RTSP goes over its own protocol.
LEMMA RTSPFits ==
    ASSUME NEW s, NEW skills, SettingsFit("rtsp", s)
    PROVE  SettingsFit("rtsp", RTSP(s).settings) /\ CarriesSent("rtsp", RTSP(s), skills)
<1> DEFINE v == RTSP(s)
           d == [protocol |-> "rtsp", address |-> "", username |-> "", password |-> "",
                 options |-> [rtsp_transport |-> "", muxdelay |-> "0.1"]]
           m == Merged(s, d)
           to == << <<m.username, m.password>>, m.address>>
           options == Muxer("rtsp") \o Filled(m.options, "rtsp_transport") \o Filled(m.options, "muxdelay")
<1>1. v = Service({"rtp"}, {"rtsp"}, AACorMP3, <<"h264", "hevc", "vp9">>, m,
                        <<Output(m.protocol, to, options)>>)
  BY Zenon DEF RTSP
<1>2. Spoken("rtsp") # {} /\ \A protocol \in Spoken("rtsp") : GoesOver("rtsp", protocol)
  BY DEF Spoken, GoesOver
<1>6. DOMAIN d \cap {"server_url", "v2_address"} = {} /\ "protocol" \in DOMAIN d /\ d["protocol"] \in Spoken("rtsp")
  BY DEF Spoken
<1> HIDE DEF d
<1>3. SettingsFit("rtsp", m) /\ m.protocol \in Spoken("rtsp")
  BY <1>6, ProtocolFits
<1> HIDE DEF v, m
<1>4. HasFormat(options, "rtsp")
  BY FormatMuxer, SilentFilled, FormatConcat
<1> HIDE DEF to, options
<1>5. v.settings = m /\ v.outputs = <<Output(m.protocol, to, options)>>
  BY <1>1, ServiceFields
<1> QED
  BY <1>2, <1>3, <1>4, <1>5, ProtocolService DEF v

\* MPEG-TS goes over UDP.
LEMMA UDPFits ==
    ASSUME NEW s, NEW skills, SettingsFit("udp", s)
    PROVE  SettingsFit("udp", UDP(s).settings) /\ CarriesSent("udp", UDP(s), skills)
<1> DEFINE v == UDP(s)
           d == [protocol |-> "udp", address |-> "",
                 params |-> [buffer_size |-> "32", ttl |-> "", broadcast |-> "false"]]
           m == Merged(s, d)
           to == <<m.address, Filled(m.params, "buffer_size") \o Filled(m.params, "ttl")
                              \o Filled(m.params, "broadcast")>>
<1>1. v = Service({"udp"}, {"mpegts"}, AACorMP3, <<"h264", "hevc", "vp9", "av1">>, m,
                       <<Output(m.protocol, to, Muxer("mpegts"))>>)
  BY Zenon DEF UDP
<1>2. Spoken("udp") # {} /\ \A protocol \in Spoken("udp") : GoesOver("mpegts", protocol)
  BY DEF Spoken, GoesOver
<1>6. DOMAIN d \cap {"server_url", "v2_address"} = {} /\ "protocol" \in DOMAIN d /\ d["protocol"] \in Spoken("udp")
  BY DEF Spoken
<1> HIDE DEF d
<1>3. SettingsFit("udp", m) /\ m.protocol \in Spoken("udp")
  BY <1>6, ProtocolFits
<1> HIDE DEF v, m
<1>4. HasFormat(Muxer("mpegts"), "mpegts")
  BY FormatMuxer
<1> HIDE DEF to
<1>5. v.settings = m /\ v.outputs = <<Output(m.protocol, to, Muxer("mpegts"))>>
  BY <1>1, ServiceFields
<1> QED
  BY <1>2, <1>3, <1>4, <1>5, ProtocolService DEF v

\* It goes over TCP as well, whatever the type of the service.
LEMMA MPEGTSFits ==
    ASSUME NEW s, NEW skills, SettingsFit("mpegts", s)
    PROVE  SettingsFit("mpegts", MPEGTS(s).settings) /\ CarriesSent("mpegts", MPEGTS(s), skills)
<1> DEFINE v == MPEGTS(s)
           d == [protocol |-> "udp", address |-> "",
                 options |-> [mpegts_service_type |-> "digital_tv", muxrate |-> "", hex_value |-> ""]]
           m == Merged(s, d)
           o == IF m.options.mpegts_service_type = "hex_value"
                THEN [m.options EXCEPT !.mpegts_service_type = m.options.hex_value] ELSE m.options
           options == Muxer("mpegts") \o Filled(o, "mpegts_service_type") \o Filled(o, "muxrate")
<1>1. v = Service({"udp", "tcp"}, {"mpegts"}, AACorMP3, <<"h264", "hevc", "vp9", "av1">>, m,
                          <<Output(m.protocol, <<m.address>>, options)>>)
  BY Zenon DEF MPEGTS
<1>2. Spoken("mpegts") # {} /\ \A protocol \in Spoken("mpegts") : GoesOver("mpegts", protocol)
  BY DEF Spoken, GoesOver
<1>6. DOMAIN d \cap {"server_url", "v2_address"} = {} /\ "protocol" \in DOMAIN d /\ d["protocol"] \in Spoken("mpegts")
  BY DEF Spoken
<1> HIDE DEF d
<1>3. SettingsFit("mpegts", m) /\ m.protocol \in Spoken("mpegts")
  BY <1>6, ProtocolFits
<1> HIDE DEF v, m, o
<1>4. HasFormat(options, "mpegts")
  BY FormatMuxer, SilentFilled, FormatConcat
<1> HIDE DEF options
<1>5. v.settings = m /\ v.outputs = <<Output(m.protocol, <<m.address>>, options)>>
  BY <1>1, ServiceFields
<1> QED
  BY <1>2, <1>3, <1>4, <1>5, ProtocolService DEF v

\* It goes over SRT.
LEMMA SRTFits ==
    ASSUME NEW s, NEW skills, SettingsFit("srt", s)
    PROVE  SettingsFit("srt", SRT(s).settings) /\ CarriesSent("srt", SRT(s), skills)
<1> DEFINE v == SRT(s)
           d == [protocol |-> "srt", address |-> "", params |-> SRTDefaults]
           m == Merged(s, d)
           Changes(key) == IF m.params[key] = SRTDefaults[key] THEN <<>> ELSE Filled(m.params, key)
           to == <<m.address, Changes("latency") \o Changes("passphrase") \o Changes("nakreport")>>
           options == << <<"-bsf:v", "dump_extra">> >> \o Muxer("mpegts")
<1>1. v = Service({"srt"}, {"mpegts"}, AACorMP3, <<"h264", "hevc", "vp9", "av1">>, m,
                       <<Output(m.protocol, to, options)>>)
  BY Zenon DEF SRT
<1>2. Spoken("srt") # {} /\ \A protocol \in Spoken("srt") : GoesOver("mpegts", protocol)
  BY DEF Spoken, GoesOver
<1>6. DOMAIN d \cap {"server_url", "v2_address"} = {} /\ "protocol" \in DOMAIN d /\ d["protocol"] \in Spoken("srt")
  BY DEF Spoken
<1> HIDE DEF d
<1>3. SettingsFit("srt", m) /\ m.protocol \in Spoken("srt")
  BY <1>6, ProtocolFits
<1> HIDE DEF v, m
<1>4. HasFormat(options, "mpegts")
  BY FormatMuxer, SilentOption, FormatConcat
<1> HIDE DEF to, options
<1>5. v.settings = m /\ v.outputs = <<Output(m.protocol, to, options)>>
  BY <1>1, ServiceFields
<1> QED
  BY <1>2, <1>3, <1>4, <1>5, ProtocolService DEF v

\* Playlists and pictures are uploaded over HTTP.
LEMMA UploadedFits ==
    ASSUME NEW id \in {"hls", "dash", "image2"}, NEW protocols, NEW first, Silent(first), NEW audio, NEW defaults,
           NEW order, \A i \in 1..3 : order[i] # "-f", NEW s, NEW skills, SettingsFit(id, s)
    PROVE  LET v == Uploaded(id, protocols, first, audio, defaults, order, s)
           IN  SettingsFit(id, v.settings) /\ CarriesSent(id, v, skills)
<1> DEFINE v == Uploaded(id, protocols, first, audio, defaults, order, s)
           d == [protocol |-> "https", address |-> "", username |-> "", password |-> "", options |-> defaults]
           m == Merged(s, d)
           to == << <<m.username, m.password>>, m.address>>
           options == first \o Muxer(id) \o Filled(m.options, order[1]) \o Filled(m.options, order[2])
                      \o Filled(m.options, order[3])
<1>1. v =
         Service(protocols, {id}, audio, <<"h264">>, m, <<Output(m.protocol, to, options)>>)
  BY Zenon DEF Uploaded
<1>2. Spoken(id) # {} /\ \A protocol \in Spoken(id) : GoesOver(id, protocol)
  BY DEF Spoken, GoesOver
<1>6. DOMAIN d \cap {"server_url", "v2_address"} = {} /\ "protocol" \in DOMAIN d /\ d["protocol"] \in Spoken(id)
  BY DEF Spoken
<1> HIDE DEF d
<1>3. SettingsFit(id, m) /\ m.protocol \in Spoken(id)
  BY <1>6, ProtocolFits
<1> HIDE DEF v, m
<1>4. HasFormat(options, id)
  BY FormatMuxer, SilentFilled, FormatConcat
<1> HIDE DEF to, options
<1>5. v.settings = m /\ v.outputs = <<Output(m.protocol, to, options)>>
  BY <1>1, ServiceFields
<1> QED
  BY <1>2, <1>3, <1>4, <1>5, ProtocolService DEF v

\* The frame buffer takes raw video.
LEMMA FramebufferFits ==
    ASSUME NEW s, NEW skills, SettingsFit("framebuffer", s)
    PROVE  SettingsFit("framebuffer", Framebuffer(s).settings)
           /\ CarriesSent("framebuffer", Framebuffer(s), skills)
<1> DEFINE m == Merged(s, [device |-> "none", pix_fmt |-> "bgra"])
           options == << <<"-pix_fmt", m.pix_fmt>> >> \o Muxer("fbdev")
           outputs == <<Output("device", <<m.device>>, options)>>
           w == Service({}, {"fbdev"}, <<"none">>, <<"rawvideo">>, m, outputs)
           v == Framebuffer(s)
<1>1. v = [w EXCEPT !.devices = {"fbdev"}]
  BY Zenon DEF Framebuffer
<1>2. HasFormat(options, "fbdev")
  BY FormatMuxer, SilentOption, FormatConcat
<1>3. SettingsFit("framebuffer", m)
  BY DefaultsFit
<1> HIDE DEF m, options, v, outputs
<1>4. /\ w.settings = m /\ w.outputs = outputs /\ w.codecs.audio = <<"none">> /\ w.codecs.video = <<"rawvideo">>
      /\ DOMAIN w = {"protocols", "formats", "devices", "codecs", "settings", "outputs"}
  BY DEF Service
<1> HIDE DEF w
<1>5. v.settings = m /\ v.outputs = outputs /\ v.codecs = w.codecs
  BY <1>1, <1>4
<1>6. SentBy(v, skills) \subseteq Takes["fbdev"]
  BY <1>4, <1>5, CodecSets DEF SentBy, Takes
<1>7. GoesOver("fbdev", "device")
  BY DEF GoesOver
<1>8. CarriesSent("framebuffer", v, skills)
  BY <1>2, <1>5, <1>6, <1>7, OneCarries DEF outputs
<1> QED
  BY <1>3, <1>5, <1>8 DEF v

\* The streams of a publication are of codecs its service names, one of a type.
IsListing(v, list) ==
    /\ DOMAIN list \subseteq Nat /\ \A i, j \in DOMAIN list : list[i].type = list[j].type => i = j
    /\ \A j \in DOMAIN list : \/ list[j].type = "video" /\ list[j].codec \in ToSet(v.codecs.video) \ {"none"}
                              \/ list[j].type = "audio" /\ list[j].codec \in ToSet(v.codecs.audio) \ {"none"}
CodecsListed(list) == { list[j].codec : j \in DOMAIN list }

\* Icecast gets the format of the sound, as long as there is no picture.
LEMMA IcecastFits ==
    ASSUME NEW s, NEW streams, SettingsFit("icecast", s)
    PROVE  LET v == Icecast(s, streams)
           IN  /\ SettingsFit("icecast", v.settings)
               /\ IsListing(v, streams) /\ CodecsListed(streams) # {}
                     /\ ~Misfit("icecast", "icecast", CodecsListed(streams)) =>
                     \A o \in ToSet(v.outputs) : Carries(o, CodecsListed(streams))
<1> DEFINE m == Merged(s, [protocol |-> "icecast", address |-> "",
                           options |-> [ice_genre |-> "", ice_public |-> "true"]])
           OfType(type) == { i \in DOMAIN streams : streams[i].type = type }
           last == CHOOSE i \in OfType("audio") : \A j \in OfType("audio") : j <= i
           format == IF OfType("video") # {} THEN Muxer("webm")
                     ELSE IF OfType("audio") # {} /\ streams[last].codec \in DOMAIN AudioFormat
                          THEN Muxer(AudioFormat[streams[last].codec]) ELSE <<>>
           genre == Filled(m.options, "ice_genre")
           public == Filled(m.options, "ice_public")
           options == genre \o public \o format
           audio == <<"aac", "opus", "vorbis", "mp3">>
           video == <<"none", "vp9">>
           codecs == CodecsListed(streams)
           v == Icecast(s, streams)
<1>1. v = Service({"icecast"}, {"adts", "opus", "mp3", "ogg", "webm"}, audio, video, m,
                  <<Output("icecast", <<m.address>>, options)>>)
  BY Zenon DEF Icecast
<1>0. "icecast" \in Spoken("icecast")
  BY DEF Spoken
<1>2. SettingsFit("icecast", m)
  BY <1>0, ProtocolFits
<1> HIDE DEF m, v
<1>3. Silent(genre) /\ Silent(public)
  BY SilentFilled
<1> HIDE DEF genre, public, format
<1>4. v.settings = m /\ v.outputs = <<Output("icecast", <<m.address>>, options)>>
      /\ v.codecs.audio = audio /\ v.codecs.video = video
  BY <1>1, ServiceFields
<1>5. ASSUME IsListing(v, streams), codecs # {}, ~Misfit("icecast", "icecast", codecs)
      PROVE  \A o \in ToSet(v.outputs) : Carries(o, codecs)
  <2>1. codecs \subseteq {"aac", "mp3", "opus", "vorbis"}
    BY <1>5 DEF Misfit
  <2>2. \A j \in DOMAIN streams : streams[j].type = "audio" /\ streams[j].codec \in {"aac", "mp3", "opus", "vorbis"}
    <3> TAKE j \in DOMAIN streams
    <3>1. streams[j].codec \in codecs
      BY DEF CodecsListed
    <3>2. streams[j].type = "video" => streams[j].codec = "vp9"
      BY <1>4, <1>5, CodecSets DEF IsListing
    <3> QED
      BY <1>5, <2>1, <3>1, <3>2 DEF IsListing
  <2>3. PICK j \in DOMAIN streams : TRUE
    BY <1>5 DEF CodecsListed
  <2>4. OfType("video") = {} /\ OfType("audio") = {j} /\ j \in Nat
    BY <1>5, <2>2, <2>3 DEF IsListing
  <2>5. codecs = {streams[j].codec}
    BY <1>5, <2>2, <2>3 DEF CodecsListed, IsListing
  <2> HIDE DEF OfType
  <2>6. last = j
    BY <2>4
  <2> HIDE DEF last
  <2> DEFINE c == streams[j].codec
             f == AudioFormat[c]
  <2>7. c \in DOMAIN AudioFormat /\ format = Muxer(f)
    BY <2>2, <2>4, <2>6 DEF AudioFormat, format
  <2>8. GoesOver(f, "icecast") /\ f \in DOMAIN Takes /\ codecs \subseteq Takes[f]
    BY <2>2, <2>5 DEF AudioFormat, GoesOver, Takes
  <2> HIDE DEF c, f
  <2>9. HasFormat(options, f)
    <3> DEFINE front == genre \o public
    <3>1. Silent(front)
      BY <1>3, Concatenation, Named DEF Silent
    <3> HIDE DEF front
    <3>2. HasFormat(front \o format, f)
      BY <2>7, <3>1, FormatMuxer, FormatConcat
    <3> QED
      BY <3>2 DEF front
  <2> HIDE DEF options, codecs
  <2> DEFINE o == Output("icecast", <<m.address>>, options)
  <2>10. o.options = options /\ o.address[1] = "icecast"
    BY DEF Output
  <2> HIDE DEF o
  <2>11. ToSet(v.outputs) = {o}
    BY <1>4, OneElement DEF o
  <2>12. Carries(o, codecs)
    BY <2>8, <2>9, <2>10, CarriesFormat
  <2> QED
    BY <2>11, <2>12
<1> QED
  BY <1>2, <1>4, <1>5 DEF v

\* It has one output, to the server.
LEMMA IcecastGoes == \A s, streams : \A o \in ToSet(Icecast(s, streams).outputs) : o.address[1] = "icecast"
<1> TAKE s, streams
<1>1. PICK to, options : Icecast(s, streams).outputs = <<Output("icecast", to, options)>>
  BY Zenon DEF Icecast, Service
<1> QED
  BY <1>1, OneElement DEF Output

\* What a service names does not depend on its settings.
LEMMA SameCodecs ==
    ASSUME NEW id \in Names, NEW s, NEW skills, NEW streams
    PROVE  ServiceOf(id, s, skills, streams).codecs = Requires(id).codecs
<1> DEFINE Same(n) == ServiceOf(n, s, skills, streams).codecs = Requires(n).codecs
<1>1. Same("facebook")
  <2>1. \A t : Facebook(t).codecs = [audio |-> OnlyAAC, video |-> <<"h264">>]
    BY Zenon DEF Facebook, Service
  <2> QED
    BY <2>1, OtherRegistry DEF Requires
<1>2. Same("youtube")
  <2>1. \A t, k : Youtube(t, k).codecs = [audio |-> AACorMP3, video |-> <<"h264", "hevc", "av1">>]
    BY Zenon DEF Youtube, Service
  <2> QED
    BY <2>1, OtherRegistry DEF Requires
<1>3. Same("twitter")
  <2>1. \A t : Twitter(t).codecs = [audio |-> AACorMP3, video |-> <<"h264">>]
    BY Zenon DEF Twitter, Service
  <2> QED
    BY <2>1, OtherRegistry DEF Requires
<1>4. Same("twitch")
  <2>1. \A t : Twitch(t).codecs = [audio |-> AACorMP3, video |-> <<"h264">>]
    BY Zenon DEF Twitch, Service
  <2> QED
    BY <2>1, OtherRegistry DEF Requires
<1>5. Same("kick")
  <2>1. \A t : Kick(t).codecs = [audio |-> AACorMP3, video |-> <<"h264">>]
    BY Zenon DEF Kick, PlayPath, Service
  <2> QED
    BY <2>1, OtherRegistry DEF Requires
<1>6. Same("tiktok")
  <2>1. \A t : TikTok(t).codecs = [audio |-> AACorMP3, video |-> <<"h264">>]
    BY Zenon DEF TikTok, PlayPath, Service
  <2> QED
    BY <2>1, OtherRegistry DEF Requires
<1>7. Same("instagram")
  <2>1. \A t : Instagram(t).codecs = [audio |-> AACorMP3, video |-> <<"h264">>]
    BY Zenon DEF Instagram, Keyed, Service
  <2> QED
    BY <2>1, KeyedRegistry DEF Requires
<1>8. Same("vimeo")
  <2>1. \A t : Vimeo(t).codecs = [audio |-> AACorMP3, video |-> <<"h264">>]
    BY Zenon DEF Vimeo, Keyed, Service
  <2> QED
    BY <2>1, KeyedRegistry DEF Requires
<1>9. Same("restream")
  <2>1. \A t : Restream(t).codecs = [audio |-> AACorMP3, video |-> <<"h264">>]
    BY Zenon DEF Restream, Keyed, Service
  <2> QED
    BY <2>1, KeyedRegistry DEF Requires
<1>10. Same("telegram")
  <2>1. \A t : Telegram(t).codecs = [audio |-> AACorMP3, video |-> <<"h264">>]
    BY Zenon DEF Telegram, Addressed, Service
  <2> QED
    BY <2>1, AddressedRegistry DEF Requires
<1>11. Same("linkedin")
  <2>1. \A t : Linkedin(t).codecs = [audio |-> AACorMP3, video |-> <<"h264">>]
    BY Zenon DEF Linkedin, Addressed, Service
  <2> QED
    BY <2>1, AddressedRegistry DEF Requires
<1>12. Same("dlive")
  <2>1. \A t : DLive(t).codecs = [audio |-> AACorMP3, video |-> <<"h264">>]
    BY Zenon DEF DLive, Keyed, Service
  <2> QED
    BY <2>1, KeyedRegistry DEF Requires
<1>13. Same("trovo")
  <2>1. \A t : Trovo(t).codecs = [audio |-> AACorMP3, video |-> <<"h264">>]
    BY Zenon DEF Trovo, Keyed, Service
  <2> QED
    BY <2>1, KeyedRegistry DEF Requires
<1>14. Same("picartotv")
  <2>1. \A t : PicartoTv(t).codecs = [audio |-> AACorMP3, video |-> <<"h264">>]
    BY Zenon DEF PicartoTv, Keyed, Service
  <2> QED
    BY <2>1, KeyedRegistry DEF Requires
<1>15. Same("nimotv")
  <2>1. \A t : NimoTv(t).codecs = [audio |-> AACorMP3, video |-> <<"h264">>]
    BY Zenon DEF NimoTv, Service
  <2> QED
    BY <2>1, OtherRegistry DEF Requires
<1>16. Same("peertube")
  <2>1. \A t : PeerTube(t).codecs = [audio |-> AACorMP3, video |-> <<"h264">>]
    BY Zenon DEF PeerTube, Service
  <2> QED
    BY <2>1, OtherRegistry DEF Requires
<1>17. Same("medianetwork")
  <2>1. \A t : MediaNetwork(t).codecs = [audio |-> AACorMP3, video |-> <<"h264">>]
    BY Zenon DEF MediaNetwork, Keyed, Service
  <2> QED
    BY <2>1, KeyedRegistry DEF Requires
<1>18. Same("livespotting")
  <2>1. \A t : Livespotting(t).codecs = [audio |-> OnlyAAC, video |-> <<"h264">>]
    BY Zenon DEF Livespotting, Addressed, Service
  <2> QED
    BY <2>1, AddressedRegistry DEF Requires
<1>19. Same("wettercom")
  <2>1. \A t : Wettercom(t).codecs = [audio |-> OnlyAAC, video |-> <<"h264">>]
    BY Zenon DEF Wettercom, Addressed, Service
  <2> QED
    BY <2>1, AddressedRegistry DEF Requires
<1>20. Same("earthcam")
  <2>1. \A t : EarthCam(t).codecs = [audio |-> OnlyAAC, video |-> <<"h264">>]
    BY Zenon DEF EarthCam, Service
  <2> QED
    BY <2>1, OtherRegistry DEF Requires
<1>21. Same("azure")
  <2>1. \A t : Azure(t).codecs = [audio |-> AACorMP3, video |-> <<"h264">>]
    BY Zenon DEF Azure, Addressed, Service
  <2> QED
    BY <2>1, AddressedRegistry DEF Requires
<1>22. Same("brightcove")
  <2>1. \A t : Brightcove(t).codecs = [audio |-> AACorMP3, video |-> <<"h264">>]
    BY Zenon DEF Brightcove, Addressed, Service
  <2> QED
    BY <2>1, AddressedRegistry DEF Requires
<1>23. Same("akamai")
  <2>1. \A t : Akamai(t).codecs = [audio |-> AACorMP3, video |-> <<"h264">>]
    BY Zenon DEF Akamai, Service
  <2> QED
    BY <2>1, OtherRegistry DEF Requires
<1>24. Same("dacast")
  <2>1. \A t : DaCast(t).codecs = [audio |-> AACorMP3, video |-> <<"h264">>]
    BY Zenon DEF DaCast, Service
  <2> QED
    BY <2>1, OtherRegistry DEF Requires
<1>25. Same("dailymotion")
  <2>1. \A t : Dailymotion(t).codecs = [audio |-> OnlyAAC, video |-> <<"h264">>]
    BY Zenon DEF Dailymotion, PlayPath, Service
  <2> QED
    BY <2>1, OtherRegistry DEF Requires
<1>26. Same("livepush")
  <2>1. \A t : Livepush(t).codecs = [audio |-> AACorMP3, video |-> <<"h264">>]
    BY Zenon DEF Livepush, Keyed, Service
  <2> QED
    BY <2>1, KeyedRegistry DEF Requires
<1>27. Same("rumble")
  <2>1. \A t : Rumble(t).codecs = [audio |-> AACorMP3, video |-> <<"h264">>]
    BY Zenon DEF Rumble, Service
  <2> QED
    BY <2>1, OtherRegistry DEF Requires
<1>28. Same("cdn77")
  <2>1. \A t : CDN77(t).codecs = [audio |-> AACorMP3, video |-> <<"h264">>]
    BY Zenon DEF CDN77, Addressed, Service
  <2> QED
    BY <2>1, AddressedRegistry DEF Requires
<1>29. Same("datarheicore")
  <2>1. \A t, k : Core(t, k).codecs = [audio |-> OnlyAAC, video |-> <<"h264", "hevc", "vp9", "av1">>]
    BY Zenon DEF Core, Service
  <2> QED
    BY <2>1, OtherRegistry DEF Requires
<1>30. Same("owncast")
  <2>1. \A t : Owncast(t).codecs = [audio |-> AACorMP3, video |-> <<"h264">>]
    BY Zenon DEF Owncast, Addressed, Service
  <2> QED
    BY <2>1, AddressedRegistry DEF Requires
<1>31. Same("wowza")
  <2>1. \A t : WOWZA(t).codecs = [audio |-> AACorMP3, video |-> <<"h264">>]
    BY Zenon DEF WOWZA, Service
  <2> QED
    BY <2>1, OtherRegistry DEF Requires
<1>32. Same("red5")
  <2>1. \A t : Red5(t).codecs = [audio |-> AACorMP3, video |-> <<"h264">>]
    BY Zenon DEF Red5, Service
  <2> QED
    BY <2>1, OtherRegistry DEF Requires
<1>33. Same("icecast")
  <2>1. \A t, l : Icecast(t, l).codecs = [audio |-> <<"aac", "opus", "vorbis", "mp3">>, video |-> <<"none", "vp9">>]
    BY Zenon DEF Icecast, Service
  <2> QED
    BY <2>1, OtherRegistry DEF Requires
<1>34. Same("image2")
  <2>1. \A t : Image2(t).codecs = [audio |-> <<"none">>, video |-> <<"h264">>]
    BY Zenon DEF Image2, Uploaded, Service
  <2> QED
    BY <2>1, OtherRegistry DEF Requires
<1>35. Same("rtsp")
  <2>1. \A t : RTSP(t).codecs = [audio |-> AACorMP3, video |-> <<"h264", "hevc", "vp9">>]
    BY Zenon DEF RTSP, Service
  <2> QED
    BY <2>1, OtherRegistry DEF Requires
<1>36. Same("rtmp")
  <2>1. \A t, k : RTMP(t, k).codecs = [audio |-> AACorMP3, video |-> <<"h264", "hevc", "vp9", "av1">>]
    BY Zenon DEF RTMP, Service
  <2> QED
    BY <2>1, OtherRegistry DEF Requires
<1>37. Same("hls")
  <2>1. \A t : HLS(t).codecs = [audio |-> AACorMP3, video |-> <<"h264">>]
    BY Zenon DEF HLS, Uploaded, Service
  <2> QED
    BY <2>1, OtherRegistry DEF Requires
<1>38. Same("dash")
  <2>1. \A t : DASH(t).codecs = [audio |-> <<"none">>, video |-> <<"h264">>]
    BY Zenon DEF DASH, Uploaded, Service
  <2> QED
    BY <2>1, OtherRegistry DEF Requires
<1>39. Same("srt")
  <2>1. \A t : SRT(t).codecs = [audio |-> AACorMP3, video |-> <<"h264", "hevc", "vp9", "av1">>]
    BY Zenon DEF SRT, Service
  <2> QED
    BY <2>1, OtherRegistry DEF Requires
<1>40. Same("udp")
  <2>1. \A t : UDP(t).codecs = [audio |-> AACorMP3, video |-> <<"h264", "hevc", "vp9", "av1">>]
    BY Zenon DEF UDP, Service
  <2> QED
    BY <2>1, OtherRegistry DEF Requires
<1>41. Same("mpegts")
  <2>1. \A t : MPEGTS(t).codecs = [audio |-> AACorMP3, video |-> <<"h264", "hevc", "vp9", "av1">>]
    BY Zenon DEF MPEGTS, Service
  <2> QED
    BY <2>1, OtherRegistry DEF Requires
<1>42. Same("framebuffer")
  <2>1. \A t : Framebuffer(t).codecs = [audio |-> <<"none">>, video |-> <<"rawvideo">>]
    BY Zenon DEF Framebuffer, Service
  <2> QED
    BY <2>1, OtherRegistry DEF Requires
<1> HIDE DEF Same
<1>43. Same(id)
  BY <1>1, <1>2, <1>3, <1>4, <1>5, <1>6, <1>7, <1>8, <1>9, <1>10, <1>11, <1>12, <1>13, <1>14, <1>15, <1>16, <1>17, <1>18, <1>19, <1>20, <1>21, <1>22, <1>23, <1>24, <1>25, <1>26, <1>27, <1>28, <1>29, <1>30, <1>31, <1>32, <1>33, <1>34, <1>35, <1>36, <1>37, <1>38, <1>39, <1>40, <1>41, <1>42 DEF Names
<1> QED
  BY <1>43 DEF Same

\* The address of Instagram is known not to fit.
LEMMA InstagramFits ==
    ASSUME NEW s, NEW skills, SettingsFit("instagram", s)
    PROVE  SettingsFit("instagram", Instagram(s).settings) /\ CarriesSent("instagram", Instagram(s), skills)
<1> DEFINE m == Merged(s, [key |-> ""])
<1>1. Instagram(s).settings = m
  BY Zenon DEF Instagram, Keyed, Service
<1>2. SettingsFit("instagram", m)
  BY DefaultsFit
<1> QED
  BY <1>1, <1>2 DEF CarriesSent, Misfit

Fitting(id, s, skills, streams) ==
    LET v == ServiceOf(id, s, skills, streams)
    IN  SettingsFit(id, s) => SettingsFit(id, v.settings) /\ (id # "icecast" => CarriesSent(id, v, skills))

\* Every service keeps to its protocols, and what is sent to it goes in a format that carries it
\* (createOutput of Services/*.js).
LEMMA ServiceFits ==
    ASSUME NEW id \in Names, NEW s, NEW skills, NEW streams
    PROVE  Fitting(id, s, skills, streams)
<1>43. \A n \in Names \ {"datarheicore", "red5", "wowza", "rtsp", "srt", "udp", "icecast", "mpegts", "hls", "dash", "image2"} :
         Spoken(n) = RTMPs
  BY DEF Spoken
<1>44. "rtmp" \in RTMPs /\ "rtmps" \in RTMPs
  BY DEF RTMPs
<1>1. Fitting("facebook", s, skills, streams)
  BY OtherRegistry, FacebookFits DEF Fitting
<1>2. Fitting("youtube", s, skills, streams)
  BY OtherRegistry, YoutubeFits DEF Fitting
<1>3. Fitting("twitter", s, skills, streams)
  BY OtherRegistry, TwitterFits DEF Fitting
<1>4. Fitting("twitch", s, skills, streams)
  BY OtherRegistry, TwitchFits DEF Fitting
<1>5. Fitting("kick", s, skills, streams)
  BY <1>43, <1>44, OtherRegistry, PlayPathFits DEF Fitting, Kick, Names
<1>6. Fitting("tiktok", s, skills, streams)
  BY <1>43, <1>44, OtherRegistry, PlayPathFits DEF Fitting, TikTok, Names
<1>7. Fitting("instagram", s, skills, streams)
  BY KeyedRegistry, InstagramFits DEF Fitting
<1>8. Fitting("vimeo", s, skills, streams)
  BY <1>44, KeyedRegistry, KeyedFits DEF Fitting, Vimeo
<1>9. Fitting("restream", s, skills, streams)
  BY <1>44, KeyedRegistry, KeyedFits DEF Fitting, Restream
<1>10. Fitting("telegram", s, skills, streams)
  BY <1>43, <1>44, AddressedRegistry, AddressedFits DEF Fitting, Telegram, Names
<1>11. Fitting("linkedin", s, skills, streams)
  BY <1>43, <1>44, AddressedRegistry, AddressedFits DEF Fitting, Linkedin, Names
<1>12. Fitting("dlive", s, skills, streams)
  BY <1>44, KeyedRegistry, KeyedFits DEF Fitting, DLive
<1>13. Fitting("trovo", s, skills, streams)
  BY <1>44, KeyedRegistry, KeyedFits DEF Fitting, Trovo
<1>14. Fitting("picartotv", s, skills, streams)
  BY <1>44, KeyedRegistry, KeyedFits DEF Fitting, PicartoTv
<1>15. Fitting("nimotv", s, skills, streams)
  BY OtherRegistry, NimoTvFits DEF Fitting
<1>16. Fitting("peertube", s, skills, streams)
  BY OtherRegistry, PeerTubeFits DEF Fitting
<1>17. Fitting("medianetwork", s, skills, streams)
  BY <1>44, KeyedRegistry, KeyedFits DEF Fitting, MediaNetwork
<1>18. Fitting("livespotting", s, skills, streams)
  <2>1. Spoken("livespotting") = RTMPs
    BY <1>43 DEF Names
  <2> QED
    BY <2>1, <1>44, AddressedRegistry, AddressedFits DEF Fitting, Livespotting
<1>19. Fitting("wettercom", s, skills, streams)
  BY <1>43, <1>44, AddressedRegistry, AddressedFits DEF Fitting, Wettercom, Names
<1>20. Fitting("earthcam", s, skills, streams)
  BY OtherRegistry, EarthCamFits DEF Fitting
<1>21. Fitting("azure", s, skills, streams)
  BY <1>43, <1>44, AddressedRegistry, AddressedFits DEF Fitting, Azure, Names
<1>22. Fitting("brightcove", s, skills, streams)
  BY <1>43, <1>44, AddressedRegistry, AddressedFits DEF Fitting, Brightcove, Names
<1>23. Fitting("akamai", s, skills, streams)
  BY OtherRegistry, AkamaiFits DEF Fitting
<1>24. Fitting("dacast", s, skills, streams)
  BY OtherRegistry, DaCastFits DEF Fitting
<1>25. Fitting("dailymotion", s, skills, streams)
  BY <1>43, <1>44, OtherRegistry, PlayPathFits DEF Fitting, Dailymotion, Names
<1>26. Fitting("livepush", s, skills, streams)
  BY <1>44, KeyedRegistry, KeyedFits DEF Fitting, Livepush
<1>27. Fitting("rumble", s, skills, streams)
  BY OtherRegistry, RumbleFits DEF Fitting
<1>28. Fitting("cdn77", s, skills, streams)
  BY <1>43, <1>44, AddressedRegistry, AddressedFits DEF Fitting, CDN77, Names
<1>29. Fitting("datarheicore", s, skills, streams)
  BY OtherRegistry, CoreFits DEF Fitting
<1>30. Fitting("owncast", s, skills, streams)
  BY <1>43, <1>44, AddressedRegistry, AddressedFits DEF Fitting, Owncast, Names
<1>31. Fitting("wowza", s, skills, streams)
  BY OtherRegistry, WOWZAFits DEF Fitting
<1>32. Fitting("red5", s, skills, streams)
  BY OtherRegistry, Red5Fits DEF Fitting
<1>33. Fitting("icecast", s, skills, streams)
  BY OtherRegistry, IcecastFits DEF Fitting
<1>34. Fitting("image2", s, skills, streams)
  <2>1. \A i \in 1..3 : <<"start_number", "update", "method">>[i] # "-f"
    OBVIOUS
  <2>2. Silent(<<>>)
    BY SilentNone, SilentOption
  <2> DEFINE order == <<"start_number", "update", "method">>
             defaults == [start_number |-> "1", update |-> "true", method |-> "PUT"]
             first == <<>>
             v == Uploaded("image2", {"http", "https"}, first, <<"none">>, defaults, order, s)
  <2>3. ServiceOf("image2", s, skills, streams) = v
    BY Zenon, OtherRegistry DEF Image2
  <2> HIDE DEF order, defaults, first, v
  <2>4. SettingsFit("image2", s) => SettingsFit("image2", v.settings) /\ CarriesSent("image2", v, skills)
    BY <2>1, <2>2, UploadedFits DEF order, first, v
  <2> QED
    BY <2>3, <2>4 DEF Fitting
<1>35. Fitting("rtsp", s, skills, streams)
  BY OtherRegistry, RTSPFits DEF Fitting
<1>36. Fitting("rtmp", s, skills, streams)
  BY OtherRegistry, RTMPFits DEF Fitting
<1>37. Fitting("hls", s, skills, streams)
  <2>1. \A i \in 1..3 : <<"hls_time", "hls_key_info_file", "http_persistent">>[i] # "-f"
    OBVIOUS
  <2>2. Silent(<<>>)
    BY SilentNone, SilentOption
  <2> DEFINE order == <<"hls_time", "hls_key_info_file", "http_persistent">>
             defaults == [hls_time |-> "2", hls_key_info_file |-> "", http_persistent |-> "0"]
             first == <<>>
             v == Uploaded("hls", {"http", "https"}, first, AACorMP3, defaults, order, s)
  <2>3. ServiceOf("hls", s, skills, streams) = v
    BY Zenon, OtherRegistry DEF HLS
  <2> HIDE DEF order, defaults, first, v
  <2>4. SettingsFit("hls", s) => SettingsFit("hls", v.settings) /\ CarriesSent("hls", v, skills)
    BY <2>1, <2>2, UploadedFits DEF order, first, v
  <2> QED
    BY <2>3, <2>4 DEF Fitting
<1>38. Fitting("dash", s, skills, streams)
  <2>1. \A i \in 1..3 : <<"seg_duration", "frag_duration", "streaming">>[i] # "-f"
    OBVIOUS
  <2>2. Silent(<< <<"-strict", "experimental">> >>)
    BY SilentNone, SilentOption
  <2> DEFINE order == <<"seg_duration", "frag_duration", "streaming">>
             defaults == [seg_duration |-> "2", frag_duration |-> "", streaming |-> "1"]
             first == << <<"-strict", "experimental">> >>
             v == Uploaded("dash", {"http", "https"}, first, <<"none">>, defaults, order, s)
  <2>3. ServiceOf("dash", s, skills, streams) = v
    BY Zenon, OtherRegistry DEF DASH
  <2> HIDE DEF order, defaults, first, v
  <2>4. SettingsFit("dash", s) => SettingsFit("dash", v.settings) /\ CarriesSent("dash", v, skills)
    BY <2>1, <2>2, UploadedFits DEF order, first, v
  <2> QED
    BY <2>3, <2>4 DEF Fitting
<1>39. Fitting("srt", s, skills, streams)
  BY OtherRegistry, SRTFits DEF Fitting
<1>40. Fitting("udp", s, skills, streams)
  BY OtherRegistry, UDPFits DEF Fitting
<1>41. Fitting("mpegts", s, skills, streams)
  BY OtherRegistry, MPEGTSFits DEF Fitting
<1>42. Fitting("framebuffer", s, skills, streams)
  BY OtherRegistry, FramebufferFits DEF Fitting
<1> QED
  BY <1>1, <1>2, <1>3, <1>4, <1>5, <1>6, <1>7, <1>8, <1>9, <1>10, <1>11, <1>12, <1>13, <1>14, <1>15, <1>16, <1>17, <1>18, <1>19, <1>20, <1>21, <1>22, <1>23, <1>24, <1>25, <1>26, <1>27, <1>28, <1>29, <1>30, <1>31, <1>32, <1>33, <1>34, <1>35, <1>36, <1>37, <1>38, <1>39, <1>40, <1>41, <1>42 DEF Names

-----------------------------------------------------------------------------
(* What a process makes *)

\* The codecs a page offers begin with "copy", and "null" is none of them (conflateServiceSkills).
LEMMA Skills ==
    ASSUME NEW id \in Names, NEW ff, NEW type \in Media
    PROVE  LET k == ConflateServiceSkills(id, ff).codecs[type]
           IN  /\ DOMAIN k \subseteq Nat /\ ToSet(k) = TakenBy(id, ff)[type]
               /\ "null" \notin ToSet(k) /\ k[0] = "copy" /\ 0 \in DOMAIN k
<1> DEFINE list == Requires(id).codecs[type]
           k == [i \in {0} \cup { j \in DOMAIN list : list[j] \in ff.codecs[type] } |->
                    IF i = 0 THEN "copy" ELSE list[i]]
<1>1. list \in Seq(CodecNames)
  BY ServiceSound DEF Outcome, IsSound, CodecList, Requires, Media
<1>2. ConflateServiceSkills(id, ff).codecs[type] = k
  <2>1. CASE type = "video"
    BY <2>1 DEF ConflateServiceSkills, KnownCodecs
  <2>2. CASE type = "audio"
    BY <2>2 DEF ConflateServiceSkills, KnownCodecs
  <2> QED
    BY <2>1, <2>2 DEF Media
<1>3. TakenBy(id, ff)[type] = ToSet(ConflateServiceSkills(id, ff).codecs[type])
  BY DEF TakenBy
<1> HIDE DEF list
<1>4. DOMAIN k \subseteq Nat
  BY <1>1
<1>5. \A i \in DOMAIN k : k[i] # "null"
  BY <1>1 DEF CodecNames
<1>6. k[0] = "copy" /\ 0 \in DOMAIN k
  OBVIOUS
<1> HIDE DEF k
<1> QED
  BY <1>2, <1>3, <1>4, <1>5, <1>6 DEF ToSet

\* The options that speak of a coder or a format.
Watched == Reserved \cup {"-f"}

\* An option that is not watched gives no watched option a value.
LEMMA NamedOther ==
    ASSUME NEW n, NEW v, n \notin Watched
    PROVE  IsList(<< <<n, v>> >>) /\ Len(<< <<n, v>> >>) = 1
           /\ \A name \in Watched : OptionsNamed(<< <<n, v>> >>, name) = {}
BY OneOption, NamedOne

\* The options of an encoding choose the coder its encoder chooses.
LEMMA Encoding ==
    ASSUME NEW m, NEW filter, filter \notin Watched, IsList(m.encoder.mapping.local)
    PROVE  /\ IsList(EncodeOptions(m, filter))
           /\ \A name \in Watched :
                 OptionsNamed(EncodeOptions(m, filter), name) = OptionsNamed(m.encoder.mapping.local, name)
<1> DEFINE graph == m.filter.graph \o m.encoder.mapping.filter
           f == IF m.encoder.coder # "copy" /\ graph # <<>> THEN << <<filter, graph>> >> ELSE <<>>
           local == m.encoder.mapping.local
<1>1. IsList(f) /\ \A name \in Watched : OptionsNamed(f, name) = {}
  <2>1. IsList(<<>>) /\ \A name : OptionsNamed(<<>>, name) = {}
    BY NoOptions DEF Free, OptionsNamed
  <2> QED
    BY <2>1, NamedOther
<1>2. EncodeOptions(m, filter) = f \o local
  BY DEF EncodeOptions
<1> HIDE DEF f, local
<1>3. IsList(f) /\ IsList(local)
  BY <1>1 DEF local
<1>4. IsList(f \o local)
  BY <1>3, Concatenation
<1>5. \A name \in Watched : OptionsNamed(f \o local, name) = OptionsNamed(local, name)
  <2> TAKE name \in Watched
  <2>1. OptionsNamed(f, name) = {}
    BY <1>1
  <2>2. OptionsNamed(f \o local, name) = OptionsNamed(f, name) \cup OptionsNamed(local, name)
    BY <1>3, Named
  <2> QED
    BY <2>1, <2>2
<1> QED
  BY <1>2, <1>4, <1>5 DEF local

(* The options of a process choose the coders of its profile, and leave out the sound if there is none
   (createInputsOutputs). *)
LEMMA ProcessOptions ==
    ASSUME NEW sources, NEW p, IsList(p.video.encoder.mapping.local),
           IsList(p.audio.encoder.mapping.local)
    PROVE  LET o == InputsOutputs(sources, p).outputs[1]
           IN  /\ IsList(o) /\ Len(o) > 0
               /\ \A name \in Watched :
                     OptionsNamed(o, name) = OptionsNamed(p.video.encoder.mapping.local, name) \cup
                         (IF HasAudio(p) THEN OptionsNamed(p.audio.encoder.mapping.local, name)
                          ELSE IF name = "-an" THEN {""} ELSE {})
<1> DEFINE o == InputsOutputs(sources, p).outputs[1]
           v == EncodeOptions(p.video, "-filter:v")
           a == EncodeOptions(p.audio, "-filter:a")
<1>1. PICK x, y : o = << <<"-map", x>> >> \o v \o
                      (IF HasAudio(p) THEN << <<"-map", y>> >> \o a ELSE << <<"-an", "">> >>)
  BY Zenon DEF InputsOutputs
<1>2. /\ IsList(v)
      /\ \A name \in Watched : OptionsNamed(v, name) = OptionsNamed(p.video.encoder.mapping.local, name)
  BY Encoding DEF Watched, Reserved
<1>3. /\ IsList(a)
      /\ \A name \in Watched : OptionsNamed(a, name) = OptionsNamed(p.audio.encoder.mapping.local, name)
  BY Encoding DEF Watched, Reserved
<1> DEFINE mv == << <<"-map", x>> >>
           ma == << <<"-map", y>> >>
           an == << <<"-an", "">> >>
<1> HIDE DEF o, v, a
<1>4. /\ IsList(mv) /\ IsList(ma) /\ IsList(an) /\ Len(mv) = 1
      /\ \A name \in Watched : OptionsNamed(mv, name) = {} /\ OptionsNamed(ma, name) = {}
  <2>1. "-map" \notin Watched
    BY DEF Watched, Reserved
  <2>2. IsList(an)
    BY OneOption
  <2> QED
    BY <2>1, <2>2, NamedOther
<1>5. \A name \in Watched : OptionsNamed(an, name) = IF name = "-an" THEN {""} ELSE {}
  BY NamedOne
<1> DEFINE sound == ma \o a
           front == mv \o v
<1> DEFINE tail == IF HasAudio(p) THEN sound ELSE an
<1>6. o = front \o tail
  BY <1>1
<1> HIDE DEF mv, ma, an
<1>7. IsList(sound) /\ IsList(front) /\ Len(front) = Len(mv) + Len(v) /\ Len(v) \in Nat
  BY <1>2, <1>3, <1>4, Concatenation, ListType
<1>8. \A name \in Watched : OptionsNamed(sound, name) = OptionsNamed(a, name)
  <2> TAKE name \in Watched
  <2>1. OptionsNamed(ma, name) = {}
    BY <1>4
  <2>2. OptionsNamed(sound, name) = OptionsNamed(ma, name) \cup OptionsNamed(a, name)
    BY <1>3, <1>4, Named
  <2> QED
    BY <2>1, <2>2
<1>9. \A name \in Watched : OptionsNamed(front, name) = OptionsNamed(v, name)
  <2> TAKE name \in Watched
  <2>1. OptionsNamed(mv, name) = {}
    BY <1>4
  <2>2. OptionsNamed(front, name) = OptionsNamed(mv, name) \cup OptionsNamed(v, name)
    BY <1>2, <1>4, Named
  <2> QED
    BY <2>1, <2>2
<1> HIDE DEF sound, front
<1>10. IsList(tail)
  BY <1>4, <1>7
<1>11. \A name \in Watched : OptionsNamed(tail, name) =
           IF HasAudio(p) THEN OptionsNamed(a, name) ELSE IF name = "-an" THEN {""} ELSE {}
  <2>1. CASE HasAudio(p)
    BY <1>8, <2>1
  <2>2. CASE ~HasAudio(p)
    BY <1>5, <2>2
  <2> QED
    BY <2>1, <2>2
<1> HIDE DEF tail
<1>12. IsList(o) /\ Len(o) = Len(front) + Len(tail) /\ Len(tail) \in Nat
  BY <1>6, <1>7, <1>10, Concatenation, ListType
<1>13. Len(o) > 0
  BY <1>4, <1>7, <1>12
<1>14. ASSUME NEW name \in Watched
       PROVE  OptionsNamed(o, name) = OptionsNamed(p.video.encoder.mapping.local, name) \cup
                         (IF HasAudio(p) THEN OptionsNamed(p.audio.encoder.mapping.local, name)
                          ELSE IF name = "-an" THEN {""} ELSE {})
  <2>1. OptionsNamed(o, name) = OptionsNamed(front, name) \cup OptionsNamed(tail, name)
    BY <1>6, <1>7, <1>10, Named
  <2>2. OptionsNamed(front, name) = OptionsNamed(p.video.encoder.mapping.local, name)
    BY <1>2, <1>9
  <2>3. OptionsNamed(tail, name) = IF HasAudio(p) THEN OptionsNamed(p.audio.encoder.mapping.local, name)
                                   ELSE IF name = "-an" THEN {""} ELSE {}
    BY <1>3, <1>11
  <2> QED
    BY <2>1, <2>2, <2>3
<1> QED
  BY <1>12, <1>13, <1>14 DEF o

-----------------------------------------------------------------------------
(* The inductive invariant *)

PageFields == {"view", "id", "service", "skills", "tab", "streams", "input", "settings", "unsaved", "outdated"}
SettingsFields == {"source", "outputs", "settings", "profile", "streams"}

\* The stream of a type that is chosen, and its coder, are what the service takes.
Suits(m, type, streams, takes, ff) ==
    IF m.stream = -1 THEN type \notin Types(streams) /\ m.encoder.coder = "none"
    ELSE /\ Within(streams, m.stream) /\ At(streams, m.stream).type = type
         /\ IF m.encoder.coder = "copy" THEN At(streams, m.stream).codec \in takes[type]
            ELSE \/ Get(Encoders[type], m.encoder.coder).codec \in takes[type]
                 \/ m.encoder.coder = "none" /\ ~HasCoder(takes, type, ff)

\* What is said of the video or audio on a page.
Fits(m, type, streams, takes, ff) == IsMedia(m, type, takes, ff) /\ Suits(m, type, streams, takes, ff)

\* The codec a profile makes of a stream.
CodecOf(m, type, streams) == IF m.encoder.coder = "copy" THEN At(streams, m.stream).codec
                             ELSE Get(Encoders[type], m.encoder.coder).codec

\* The streams that are stored are those that are made, and all of them, each once.
Listed(list, profile, streams) ==
    /\ DOMAIN list \subseteq Nat /\ \A i, j \in DOMAIN list : list[i].type = list[j].type => i = j
    /\ \A j \in DOMAIN list : \E type \in Media :
          /\ HasMedia(profile[type]) /\ list[j].type = type
          /\ list[j].codec = CodecOf(profile[type], type, streams)
    /\ \A type \in Media : HasMedia(profile[type]) => \E j \in DOMAIN list : list[j].type = type

ProfileFits(id, profile, streams, ff) ==
    /\ HasFields(profile, Media)
    /\ \A type \in Media : Fits(profile[type], type, streams, TakenBy(id, ff), ff)

PageFits(p) ==
    /\ p.service \in Names
    /\ p.skills = ConflateServiceSkills(p.service, env)
    /\ ProfileFits(p.service, p.settings.profile, p.streams, env)
    /\ Listed(p.settings.streams, p.settings.profile, p.streams)
    /\ OutputsFit(p.service, p.settings, p.outdated, env)
    /\ SettingsFit(p.service, p.settings.settings)

\* The publication of the page is the one that is stored.
SamePublication(p) ==
    /\ p.id = "" => core.egress = NoEgress
    /\ core.egress # NoEgress => core.egress.service = p.service

PageSound(p) ==
    p.view = "page" =>
        /\ HasFields(p, PageFields) /\ HasFields(p.settings, SettingsFields)
        /\ IsChannel(p.streams)
        /\ SamePublication(p)
        /\ IF p.service = "" THEN p.id = "" /\ p.settings = NewSettings ELSE PageFits(p)

EnvSound == /\ \A streams \in env.found : IsChannel(streams)
            /\ env.services \subseteq Names
CoreSound == /\ HasFields(core, {"streams", "sources", "egress"})
             /\ IsChannel(core.streams)
             /\ core.egress # NoEgress => IsPublication(core.egress, env)

Inv == EnvSound /\ CoreSound /\ PageSound(page)

-----------------------------------------------------------------------------

\* A stream of a channel is the first of its type, there being no other.
LEMMA FirstOfType ==
    ASSUME NEW streams, IsChannel(streams), NEW i, Within(streams, i), NEW type,
           At(streams, i).type = type
    PROVE  At(streams, First(streams, type)) = At(streams, i) /\ type \in Types(streams)
<1> DEFINE Is(k) == /\ streams[k].type = type
                    /\ \A j \in 1..(k - 1) : streams[j].type # type
           l == CHOOSE k \in DOMAIN streams : Is(k)
           n == i + 1
<1>1. n \in DOMAIN streams /\ streams[n].type = type /\ DOMAIN streams = 1..Len(streams)
      /\ Len(streams) \in Nat
  BY ListType DEF Within, At, IsChannel
<1> HIDE DEF n
<1>2. \A j \in 1..(n - 1) : j \in DOMAIN streams /\ j # n
  BY <1>1
<1>3. Is(n)
  BY <1>1, <1>2 DEF IsChannel
<1> HIDE DEF Is
<1>4. l \in DOMAIN streams /\ Is(l)
  BY <1>1, <1>3
<1>5. type \in Types(streams)
  BY <1>1 DEF Types
<1>6. First(streams, type) = l - 1
  BY <1>5 DEF First, Is
<1> HIDE DEF l
<1>7. l = n
  BY <1>1, <1>4 DEF IsChannel, Is
<1>8. At(streams, First(streams, type)) = streams[n]
  <2>1. (l - 1) + 1 = l
    BY <1>1, <1>4
  <2> QED
    BY <1>6, <1>7, <2>1 DEF At
<1> QED
  BY <1>5, <1>8 DEF At, n

\* Options that leave a type out make nothing of it.
LEMMA MadeNone ==
    ASSUME NEW o, NEW type, NEW loaded, OptionsNamed(o, OffOption(type)) # {}
    PROVE  CodecMade(o, type, loaded) = "none"
BY DEF CodecMade

\* Options with one coder make the codec of this coder.
LEMMA MadeBy ==
    ASSUME NEW o, NEW type, NEW loaded, NEW x, OptionsNamed(o, OffOption(type)) = {},
           OptionsNamed(o, CodecOption(type)) = {x}
    PROVE  /\ x = "copy" => CodecMade(o, type, loaded) = At(loaded, First(loaded, type)).codec
           /\ \A c \in DOMAIN EncoderCodecs :
                 x # "copy" /\ x \in EncoderCodecs[c] => CodecMade(o, type, loaded) = c
<1> DEFINE used == OptionsNamed(o, CodecOption(type))
<1>1. used = {x} /\ Cardinality(used) = 1 /\ (used = {"copy"} <=> x = "copy")
  BY FS_Singleton
<1> HIDE DEF used
<1>2. CodecMade(o, type, loaded) =
        IF x = "copy" THEN At(loaded, First(loaded, type)).codec
        ELSE CHOOSE c \in DOMAIN EncoderCodecs : used \subseteq EncoderCodecs[c]
  BY <1>1 DEF CodecMade, used
<1>3. ASSUME NEW c \in DOMAIN EncoderCodecs, x # "copy", x \in EncoderCodecs[c]
      PROVE  CodecMade(o, type, loaded) = c
  <2> DEFINE d == CHOOSE e \in DOMAIN EncoderCodecs : used \subseteq EncoderCodecs[e]
  <2>1. used \subseteq EncoderCodecs[c]
    BY <1>1, <1>3
  <2>2. d \in DOMAIN EncoderCodecs /\ used \subseteq EncoderCodecs[d]
    BY <1>3, <2>1
  <2>3. CodecMade(o, type, loaded) = d
    BY <1>2, <1>3
  <2> HIDE DEF d
  <2>4. x \in EncoderCodecs[d]
    BY <1>1, <2>2
  <2>5. d = c
    BY <1>3, <2>2, <2>4, OneCodec
  <2> QED
    BY <2>3, <2>5
<1> QED
  BY <1>2, <1>3

\* What the coder of a stream that is chosen makes.
LEMMA ChosenCoder ==
    ASSUME NEW type \in Media, NEW m, NEW streams, NEW takes, NEW ff,
           Fits(m, type, streams, takes, ff), IsChannel(streams), m.stream # -1,
           "null" \notin takes[type]
    PROVE  LET coder == m.encoder.coder
               local == m.encoder.mapping.local
               codec == CodecOf(m, type, streams)
           IN  IF coder = "none"
               THEN HasCoder(takes, type, ff) =>
                       "none" \in takes[type] /\ OptionsNamed(local, OffOption(type)) # {}
               ELSE /\ OptionsNamed(local, CodecOption(type)) = {coder}
                    /\ OptionsNamed(local, OffOption(type)) = {}
                    /\ codec \in takes[type] \ {"copy", "none"}
                    /\ IF coder = "copy" THEN codec = At(streams, First(streams, type)).codec
                       ELSE codec \in DOMAIN EncoderCodecs /\ coder \in EncoderCodecs[codec]
<1> DEFINE coder == m.encoder.coder
           local == m.encoder.mapping.local
           codec == CodecOf(m, type, streams)
<1>1. /\ Within(streams, m.stream) /\ At(streams, m.stream).type = type
      /\ IF coder = "copy" THEN At(streams, m.stream).codec \in takes[type]
         ELSE \/ Get(Encoders[type], coder).codec \in takes[type]
              \/ coder = "none" /\ ~HasCoder(takes, type, ff)
  BY DEF Fits, Suits
<1>2. /\ coder # "none" => /\ OptionsNamed(local, CodecOption(type)) = {coder}
                           /\ OptionsNamed(local, OffOption(type)) = {}
      /\ coder = "none" /\ HasCoder(takes, type, ff) => OptionsNamed(local, OffOption(type)) # {}
  BY DEF Fits, IsMedia, IsEncoder
<1>3. /\ At(streams, m.stream).codec \notin {"copy", "none"}
      /\ At(streams, First(streams, type)) = At(streams, m.stream)
  <2>1. At(streams, m.stream).codec \notin {"copy", "none"}
    BY <1>1 DEF IsChannel, At, Within
  <2> QED
    BY <1>1, <2>1, FirstOfType
<1>4. codec = IF coder = "copy" THEN At(streams, m.stream).codec ELSE Get(Encoders[type], coder).codec
  BY DEF CodecOf
<1> DEFINE g == Get(Encoders[type], coder)
<1>5. coder # "copy" /\ g.codec \in takes[type] => Makes(g) /\ g.coder = coder
  <2> SUFFICES ASSUME g.codec \in takes[type] PROVE Makes(g) /\ g.coder = coder
    OBVIOUS
  <2>1. g # NoCoder
    BY DEF NoCoder
  <2> QED
    BY <2>1, Found, Coder
<1> HIDE DEF g, coder, local, codec
<1>6. CASE coder = "none"
  <2>1. HasCoder(takes, type, ff) => g.codec \in takes[type] /\ Makes(g) /\ g.coder = coder
    BY <1>1, <1>5, <1>6 DEF g
  <2>2. HasCoder(takes, type, ff) => "none" \in takes[type]
    BY <1>6, <2>1 DEF Makes
  <2> QED
    BY <1>2, <1>6, <2>2 DEF coder, local
<1>7. CASE coder = "copy"
  BY <1>1, <1>2, <1>3, <1>4, <1>7 DEF coder, local, codec
<1>8. CASE coder \notin {"none", "copy"}
  <2>1. g.codec \in takes[type] /\ Makes(g) /\ g.coder = coder /\ codec = g.codec
    BY <1>1, <1>4, <1>5, <1>8 DEF g
  <2>2. codec \in DOMAIN EncoderCodecs /\ coder \in EncoderCodecs[codec] /\ codec # "copy"
    BY <1>8, <2>1 DEF Makes
  <2>3. codec # "none"
    BY <2>2 DEF EncoderCodecs
  <2> QED
    BY <1>2, <1>8, <2>1, <2>2, <2>3 DEF coder, local, codec
<1> QED
  BY <1>6, <1>7, <1>8

\* The options of a process that speak of a type are those of its encoder.
LEMMA PublishedOptions ==
    ASSUME NEW sources, NEW p, \A type \in Media : IsEncoder(p[type].encoder, type), NEW out, Free(out),
           NEW type \in Media
    PROVE  LET o == InputsOutputs(sources, p).outputs[1] \o out
               local == p[type].encoder.mapping.local
           IN  IF type = "video" \/ HasAudio(p)
               THEN /\ OptionsNamed(o, CodecOption(type)) = OptionsNamed(local, CodecOption(type))
                    /\ OptionsNamed(o, OffOption(type)) = OptionsNamed(local, OffOption(type))
               ELSE OptionsNamed(o, OffOption(type)) # {}
<1> DEFINE io == InputsOutputs(sources, p).outputs[1]
           o == io \o out
           v == p.video.encoder.mapping.local
           a == p.audio.encoder.mapping.local
<1>1. /\ IsList(v) /\ OptionsNamed(v, CodecOption("audio")) = {} /\ OptionsNamed(v, OffOption("audio")) = {}
      /\ IsList(a) /\ OptionsNamed(a, CodecOption("video")) = {} /\ OptionsNamed(a, OffOption("video")) = {}
  BY DEF IsEncoder, Media
<1>2. /\ IsList(io)
      /\ \A name \in Reserved :
            OptionsNamed(io, name) = OptionsNamed(v, name) \cup
                (IF HasAudio(p) THEN OptionsNamed(a, name)
                 ELSE IF name = "-an" THEN {""} ELSE {})
  <2>1. /\ IsList(io) /\ Len(io) > 0
        /\ \A name \in Watched :
              OptionsNamed(io, name) = OptionsNamed(v, name) \cup
                  (IF HasAudio(p) THEN OptionsNamed(a, name)
                   ELSE IF name = "-an" THEN {""} ELSE {})
    <3>1. IsList(p.video.encoder.mapping.local) /\ IsList(p.audio.encoder.mapping.local)
      BY <1>1
    <3> QED
      BY <3>1, ProcessOptions, Zenon
  <2>2. Reserved \subseteq Watched
    BY DEF Watched
  <2> HIDE DEF io, v, a
  <2> QED
    BY <2>1, <2>2
<1> HIDE DEF io, v, a
<1>3. \A name \in Reserved : OptionsNamed(o, name) = OptionsNamed(v, name) \cup
                (IF HasAudio(p) THEN OptionsNamed(a, name)
                 ELSE IF name = "-an" THEN {""} ELSE {})
  <2> TAKE name \in Reserved
  <2>0. IsList(out) /\ IsList(io)
    BY <1>2 DEF Free
  <2>1. OptionsNamed(o, name) = OptionsNamed(io, name) \cup OptionsNamed(out, name)
    BY <2>0, Named
  <2>2. OptionsNamed(out, name) = {}
    BY NamedFree
  <2> QED
    BY <1>2, <2>1, <2>2
<1> HIDE DEF o
<1>4. CASE type = "video"
  <2>1. OptionsNamed(o, "-codec:v") = OptionsNamed(v, "-codec:v")
    BY <1>1, <1>3, OptionNames DEF Reserved
  <2>2. OptionsNamed(o, "-vn") = OptionsNamed(v, "-vn")
    BY <1>1, <1>3, OptionNames DEF Reserved
  <2> QED
    BY <1>4, <2>1, <2>2, OptionNames DEF o, io, v
<1>5. CASE type = "audio"
  <2>1. HasAudio(p) => OptionsNamed(o, "-codec:a") = OptionsNamed(a, "-codec:a")
    BY <1>1, <1>3, OptionNames DEF Reserved
  <2>2. HasAudio(p) => OptionsNamed(o, "-an") = OptionsNamed(a, "-an")
    BY <1>1, <1>3, OptionNames DEF Reserved
  <2>3. ~HasAudio(p) => "" \in OptionsNamed(o, "-an")
    BY <1>3 DEF Reserved
  <2> QED
    BY <1>5, <2>1, <2>2, <2>3, OptionNames DEF o, io, a
<1> QED
  BY <1>4, <1>5 DEF Media

\* What a publication makes of a profile that fits its service.
LEMMA Made ==
    ASSUME NEW id \in Names, NEW p, NEW streams, NEW ff, ProfileFits(id, p, streams, ff),
           IsChannel(streams), p.video.stream # -1, NEW sources, NEW out, Free(out), NEW type \in Media
    PROVE  LET takes == TakenBy(id, ff)
               made == CodecMade(InputsOutputs(sources, p).outputs[1] \o out, type, streams)
           IN  /\ HasCoder(takes, type, ff) => \/ made \in takes[type] \ {"copy"}
                                               \/ made = "none" /\ type \notin Types(streams)
               /\ HasMedia(p[type]) => made = CodecOf(p[type], type, streams) /\ made # "none"
               /\ ~HasMedia(p[type]) /\ HasCoder(takes, type, ff) => made = "none"
<1> DEFINE takes == TakenBy(id, ff)
           o == InputsOutputs(sources, p).outputs[1] \o out
           made == CodecMade(o, type, streams)
           m == p[type]
           local == m.encoder.mapping.local
           coder == m.encoder.coder
           codec == CodecOf(m, type, streams)
<1>1. Fits(m, type, streams, takes, ff) /\ "null" \notin takes[type]
  BY Skills DEF ProfileFits
<1>2. \A t \in Media : IsEncoder(p[t].encoder, t)
  BY DEF ProfileFits, Fits, IsMedia
<1>3. IF type = "video" \/ HasAudio(p)
      THEN /\ OptionsNamed(o, CodecOption(type)) = OptionsNamed(local, CodecOption(type))
           /\ OptionsNamed(o, OffOption(type)) = OptionsNamed(local, OffOption(type))
      ELSE OptionsNamed(o, OffOption(type)) # {}
  BY <1>2, PublishedOptions
<1> HIDE DEF takes, o, made, m, local, coder, codec
<1>4. CASE m.stream = -1
  <2>1. type = "audio" /\ ~HasAudio(p) /\ ~HasMedia(m) /\ type \notin Types(streams)
    BY <1>1, <1>4 DEF Media, HasAudio, HasMedia, m, Fits, Suits
  <2>2. made = "none"
    BY <1>3, <2>1, MadeNone DEF made
  <2> QED
    BY <2>1, <2>2 DEF made, m, takes, o
<1>5. CASE m.stream # -1 /\ coder = "none"
  <2>1. HasCoder(takes, type, ff) => "none" \in takes[type] /\ OptionsNamed(local, OffOption(type)) # {}
    BY <1>1, <1>5, ChosenCoder DEF coder, local
  <2>2. HasCoder(takes, type, ff) => OptionsNamed(o, OffOption(type)) # {}
    BY <1>3, <2>1
  <2>3. HasCoder(takes, type, ff) => made = "none"
    BY <2>2, MadeNone DEF made
  <2>4. ~HasMedia(m)
    BY <1>5 DEF HasMedia, coder
  <2> QED
    BY <2>1, <2>3, <2>4 DEF made, m, takes, o
<1>6. CASE m.stream # -1 /\ coder # "none"
  <2>1. /\ OptionsNamed(local, CodecOption(type)) = {coder}
        /\ OptionsNamed(local, OffOption(type)) = {}
        /\ codec \in takes[type] \ {"copy", "none"}
        /\ IF coder = "copy" THEN codec = At(streams, First(streams, type)).codec
           ELSE codec \in DOMAIN EncoderCodecs /\ coder \in EncoderCodecs[codec]
    BY <1>1, <1>6, ChosenCoder DEF coder, local, codec
  <2>2. type = "video" \/ HasAudio(p)
    BY <1>1, <1>6 DEF Media, HasAudio, HasMedia, m, coder, Fits, IsMedia
  <2>3. OptionsNamed(o, CodecOption(type)) = {coder} /\ OptionsNamed(o, OffOption(type)) = {}
    BY <1>3, <2>1, <2>2
  <2>4. made = codec
    BY <2>1, <2>3, MadeBy DEF made
  <2>5. HasMedia(m)
    BY <1>1, <1>6 DEF HasMedia, coder, Fits, IsMedia
  <2> QED
    BY <2>1, <2>4, <2>5 DEF made, m, takes, o, codec
<1> QED
  BY <1>4, <1>5, <1>6

\* The outputs of settings that fit their service choose no coder.
LEMMA FitOutputs ==
    ASSUME NEW id \in Names, NEW settings, NEW outdated, NEW ff, OutputsFit(id, settings, outdated, ff)
    PROVE  IsOutputs(settings.outputs)
<1> DEFINE skills == ConflateServiceSkills(id, ff)
<1>1. CASE settings.outputs = <<>>
  BY <1>1 DEF IsOutputs, IsList, ToSet
<1>2. CASE settings.outputs = ServiceOf(id, settings.settings, skills, settings.streams).outputs
  <2> HIDE DEF skills
  <2>1. IsOutputs(ServiceOf(id, settings.settings, skills, settings.streams).outputs)
    BY ServiceSound DEF Outcome, IsSound
  <2> QED
    BY <1>2, <2>1
<1> QED
  BY <1>1, <1>2 DEF OutputsFit

HaveOptions(outputs) == \A i \in DOMAIN outputs : "options" \in DOMAIN outputs[i]

Sent(own, output) == own \o output.options

\* Every output is sent the encoding and what the service wants.
LEMMA OutputOf ==
    ASSUME NEW io, NEW outputs, NEW i, i \in DOMAIN outputs, NEW made, made = OutputsOf(io, outputs)
    PROVE  made[i].address = outputs[i].address /\ made[i].options = Sent(io.outputs[1], outputs[i])
<1> DEFINE o == io.outputs[1] \o outputs[i].options
           x == [address |-> outputs[i].address, options |-> o]
<1>1. made[i] = x
  BY Zenon DEF OutputsOf
<1>2. x.address = outputs[i].address /\ x.options = o
  OBVIOUS
<1>3. o = Sent(io.outputs[1], outputs[i])
  BY Zenon DEF Sent
<1> HIDE DEF x, o
<1> QED
  BY <1>1, <1>2, <1>3

\* What is sent for a profile that fits its service is what the service takes.
LEMMA SavedAllowed ==
    ASSUME NEW p, NEW ff, NEW io, NEW sources, p.service \in Names, IsChannel(p.streams),
           ProfileFits(p.service, p.settings.profile, p.streams, ff),
           p.settings.profile.video.stream # -1,
           IsOutputs(p.settings.outputs),
           HaveOptions(p.settings.outputs),
           io.outputs[1] = InputsOutputs(sources, p.settings.profile).outputs[1],
           NEW e, e.service = p.service, e.loaded = p.streams,
           e.outputs = OutputsOf(io, p.settings.outputs)
    PROVE  IsAllowed(e, ff)
<1> DEFINE takes == TakenBy(e.service, ff)
           own == InputsOutputs(sources, p.settings.profile).outputs[1]
<1>1. ASSUME NEW i \in DOMAIN e.outputs, NEW type \in Media
      PROVE  LET made == CodecMade(e.outputs[i].options, type, e.loaded)
             IN  HasCoder(takes, type, ff) =>
                    \/ made \in takes[type] \ {"copy"}
                    \/ made = "none" /\ type \notin Types(e.loaded)
  <2> DEFINE out == p.settings.outputs[i].options
             made == CodecMade(own \o out, type, p.streams)
  <2>0. i \in DOMAIN p.settings.outputs
    BY DEF OutputsOf
  <2>1. e.outputs[i].options = own \o out
    <3>1. e.outputs[i].options = Sent(own, p.settings.outputs[i])
      BY <2>0, OutputOf
    <3>2. Sent(own, p.settings.outputs[i]) = own \o out
      BY Zenon DEF Sent
    <3> QED
      BY <3>1, <3>2, Zenon
  <2>2. Free(out)
    BY <2>0 DEF IsOutputs, ToSet, HaveOptions
  <2> HIDE DEF own, out
  <2>3. HasCoder(takes, type, ff) => \/ made \in takes[type] \ {"copy"}
                                     \/ made = "none" /\ type \notin Types(p.streams)
    BY <2>2, Made DEF own
  <2> HIDE DEF takes
  <2> QED
    BY <2>1, <2>3
<1> QED
  BY <1>1 DEF IsAllowed

\* It is what the settings say.
LEMMA SavedCurrent ==
    ASSUME NEW p, NEW ff, NEW io, NEW sources, p.service \in Names, IsChannel(p.streams),
           ProfileFits(p.service, p.settings.profile, p.streams, ff),
           Listed(p.settings.streams, p.settings.profile, p.streams),
           p.settings.profile.video.stream # -1,
           IsOutputs(p.settings.outputs), p.settings.outputs # <<>>,
           OutputsFit(p.service, p.settings, p.outdated, ff),
           HaveOptions(p.settings.outputs),
           io.outputs[1] = InputsOutputs(sources, p.settings.profile).outputs[1],
           NEW e, e.service = p.service, e.loaded = p.streams,
           e.outputs = OutputsOf(io, p.settings.outputs),
           e.whole => e.meta = p.settings, ~e.outdated => ~p.outdated
    PROVE  IsCurrent(e, ff)
<1> DEFINE own == InputsOutputs(sources, p.settings.profile).outputs[1]
           made == ServiceOf(e.service, e.meta.settings, ConflateServiceSkills(e.service, ff),
                             e.meta.streams).outputs
<1> SUFFICES ASSUME e.whole, ~e.outdated
             PROVE  /\ Len(made) = Len(e.outputs)
                    /\ \A i \in DOMAIN made :
                          LET is == e.outputs[i].options
                              more == Len(is) - Len(made[i].options)
                          IN  /\ e.outputs[i].address = made[i].address
                              /\ more > 0 /\ SubSeq(is, more + 1, Len(is)) = made[i].options
                              /\ \A j \in DOMAIN e.meta.streams :
                                    CodecMade(is, e.meta.streams[j].type, e.loaded) = e.meta.streams[j].codec
  BY DEF IsCurrent
<1>1. made = p.settings.outputs
  BY DEF OutputsFit
<1> HIDE DEF made
<1>2. IsList(made) /\ Len(made) \in Nat /\ DOMAIN made = 1..Len(made)
  BY <1>1, ListType DEF IsOutputs
<1>3. DOMAIN e.outputs = 1..Len(made) /\ Len(e.outputs) = Len(made)
  <2>1. e.outputs = [i \in 1..Len(made) |-> [address |-> made[i].address,
                                             options |-> own \o made[i].options]]
    BY <1>1, <1>2 DEF OutputsOf
  <2> QED
    BY <1>2, <2>1
<1>4. IsList(own)
  <2>1. \A type \in Media : IsList(p.settings.profile[type].encoder.mapping.local)
    BY DEF ProfileFits, Fits, IsMedia, IsEncoder
  <2> QED
    BY <2>1, ProcessOptions DEF Media
<1>5. Len(own) > 0
  <2>1. \A type \in Media : IsList(p.settings.profile[type].encoder.mapping.local)
    BY DEF ProfileFits, Fits, IsMedia, IsEncoder
  <2> QED
    BY <2>1, ProcessOptions DEF Media
<1>6. ASSUME NEW i \in DOMAIN made
      PROVE  LET is == e.outputs[i].options
                 more == Len(is) - Len(made[i].options)
             IN  /\ e.outputs[i].address = made[i].address
                 /\ more > 0 /\ SubSeq(is, more + 1, Len(is)) = made[i].options
                 /\ \A j \in DOMAIN e.meta.streams :
                       CodecMade(is, e.meta.streams[j].type, e.loaded) = e.meta.streams[j].codec
  <2> DEFINE out == made[i].options
             is == own \o out
  <2>0. i \in DOMAIN p.settings.outputs
    BY <1>1
  <2>1. e.outputs[i].options = is
    <3>1. e.outputs[i].options = Sent(own, p.settings.outputs[i])
      BY <2>0, OutputOf
    <3>2. Sent(own, p.settings.outputs[i]) = is
      BY <1>1, Zenon DEF Sent
    <3> QED
      BY <3>1, <3>2, Zenon
  <2>7. e.outputs[i].address = made[i].address
    BY <1>1, <2>0, OutputOf
  <2>2. Free(out)
    BY <1>1 DEF IsOutputs, ToSet, HaveOptions
  <2>3. IsList(out) /\ Len(out) \in Nat /\ Len(own) \in Nat
    BY <1>4, <2>2, ListType DEF Free
  <2>4. ASSUME NEW j \in DOMAIN e.meta.streams
        PROVE  CodecMade(is, e.meta.streams[j].type, e.loaded) = e.meta.streams[j].codec
    <3>1. PICK type \in Media :
             /\ HasMedia(p.settings.profile[type]) /\ p.settings.streams[j].type = type
             /\ p.settings.streams[j].codec = CodecOf(p.settings.profile[type], type, p.streams)
      BY DEF Listed
    <3> HIDE DEF out
    <3>2. CodecMade(is, type, p.streams) = CodecOf(p.settings.profile[type], type, p.streams)
      BY <2>2, <3>1, Made
    <3> HIDE DEF is
    <3> QED
      BY <3>1, <3>2
  <2> HIDE DEF own, out
  <2>5. Len(is) = Len(own) + Len(out) /\ SubSeq(is, Len(own) + 1, Len(is)) = out
    BY <1>4, <2>3, Concatenation
  <2> HIDE DEF is
  <2>6. Len(is) - Len(out) = Len(own) /\ Len(own) > 0
    BY <1>5, <2>3, <2>5 DEF own
  <2> QED
    BY <2>1, <2>4, <2>5, <2>6, <2>7 DEF out
<1> QED
  BY <1>3, <1>6

\* The encoding gives an output no format.
LEMMA OwnSilent ==
    ASSUME NEW sources, NEW p, \A type \in Media : IsEncoder(p[type].encoder, type)
    PROVE  Silent(InputsOutputs(sources, p).outputs[1])
<1>1. \A type \in Media : IsList(p[type].encoder.mapping.local)
                          /\ OptionsNamed(p[type].encoder.mapping.local, "-f") = {}
  BY DEF IsEncoder
<1> DEFINE o == InputsOutputs(sources, p).outputs[1]
           v == p.video.encoder.mapping.local
           a == p.audio.encoder.mapping.local
<1>2. IsList(v) /\ IsList(a) /\ OptionsNamed(v, "-f") = {} /\ OptionsNamed(a, "-f") = {}
  BY <1>1 DEF Media
<1>3. /\ IsList(o)
      /\ OptionsNamed(o, "-f") = OptionsNamed(v, "-f") \cup
            (IF HasAudio(p) THEN OptionsNamed(a, "-f") ELSE IF "-f" = "-an" THEN {""} ELSE {})
  BY <1>2, ProcessOptions DEF Watched
<1> HIDE DEF o, v, a
<1> QED
  BY <1>2, <1>3 DEF Silent, o

\* With the encoding before its options, an output still carries what it did.
LEMMA CarriesMore ==
    ASSUME NEW own, Silent(own), NEW out, IsList(out.options), NEW codecs, Carries(out, codecs),
           NEW o, o.options = own \o out.options, o.address = out.address
    PROVE  Carries(o, codecs)
<1>1. /\ OptionsNamed(o.options, "-f") = OptionsNamed(out.options, "-f")
      /\ OptionsNamed(out.options, "-rtmp_enhanced_codecs") \subseteq
            OptionsNamed(o.options, "-rtmp_enhanced_codecs")
  <2>1. \A name : OptionsNamed(o.options, name) = OptionsNamed(own, name) \cup OptionsNamed(out.options, name)
    BY Named DEF Silent
  <2> QED
    BY <2>1 DEF Silent
<1>2. PICK f \in OptionsNamed(out.options, "-f") :
         /\ OptionsNamed(out.options, "-f") = {f} /\ GoesOver(f, out.address[1])
         /\ f \in DOMAIN Takes =>
               codecs \subseteq Takes[f] \cup UNION OptionsNamed(out.options, "-rtmp_enhanced_codecs")
  BY DEF Carries
<1>3. f \in DOMAIN Takes =>
         codecs \subseteq Takes[f] \cup UNION OptionsNamed(o.options, "-rtmp_enhanced_codecs")
  BY <1>1, <1>2
<1> QED
  BY <1>1, <1>2, <1>3 DEF Carries

\* The codecs a publication may be sent are those its service names, and "copy".
LEMMA SkillsNamed ==
    ASSUME NEW id \in Names, NEW s, NEW skills, NEW streams, NEW ff, NEW type \in Media
    PROVE  ToSet(ConflateServiceSkills(id, ff).codecs[type]) \subseteq
              {"copy"} \cup ToSet(ServiceOf(id, s, skills, streams).codecs[type])
<1> DEFINE list == Requires(id).codecs[type]
           k == [i \in {0} \cup { j \in DOMAIN list : list[j] \in ff.codecs[type] } |->
                    IF i = 0 THEN "copy" ELSE list[i]]
<1>1. ConflateServiceSkills(id, ff).codecs[type] = k
  <2>1. CASE type = "video"
    BY <2>1 DEF ConflateServiceSkills, KnownCodecs
  <2>2. CASE type = "audio"
    BY <2>2 DEF ConflateServiceSkills, KnownCodecs
  <2> QED
    BY <2>1, <2>2 DEF Media
<1>2. ServiceOf(id, s, skills, streams).codecs[type] = list
  BY SameCodecs
<1> HIDE DEF list
<1>3. ToSet(k) \subseteq {"copy"} \cup ToSet(list)
  BY DEF ToSet
<1> HIDE DEF k
<1> QED
  BY <1>1, <1>2, <1>3

(* What is sent has the codecs of the streams that are stored, which the service names
   (createOutputStreams, createInputsOutputs). *)
LEMMA SentCodecs ==
    ASSUME NEW id \in Names, NEW p, NEW list, NEW streams, NEW ff, ProfileFits(id, p, streams, ff),
           Listed(list, p, streams), IsChannel(streams), p.video.stream # -1,
           \A type \in Media : HasCoder(TakenBy(id, ff), type, ff),
           NEW sources, NEW out, Free(out), NEW s
    PROVE  LET skills == ConflateServiceSkills(id, ff)
               v == ServiceOf(id, s, skills, list)
               codecs == { CodecMade(InputsOutputs(sources, p).outputs[1] \o out, type, streams) :
                           type \in Media } \ {"none"}
           IN  codecs = CodecsListed(list) /\ codecs \subseteq SentBy(v, skills) /\ IsListing(v, list)
<1> DEFINE skills == ConflateServiceSkills(id, ff)
           v == ServiceOf(id, s, skills, list)
           made(type) == CodecMade(InputsOutputs(sources, p).outputs[1] \o out, type, streams)
           codecs == { made(type) : type \in Media } \ {"none"}
<1>1. \A type \in Media :
         /\ HasMedia(p[type]) => /\ made(type) = CodecOf(p[type], type, streams) /\ made(type) # "none"
                                 /\ made(type) \in ToSet(skills.codecs[type]) \ {"copy"}
         /\ ~HasMedia(p[type]) => made(type) = "none"
  <2> TAKE type \in Media
  <2>1. /\ made(type) \in TakenBy(id, ff)[type] \ {"copy"} \/ made(type) = "none"
        /\ HasMedia(p[type]) => made(type) = CodecOf(p[type], type, streams) /\ made(type) # "none"
        /\ ~HasMedia(p[type]) => made(type) = "none"
    BY Made
  <2>2. TakenBy(id, ff)[type] = ToSet(skills.codecs[type])
    BY Skills
  <2> HIDE DEF made, skills
  <2> QED
    BY <2>1, <2>2
<1>2. \A type \in Media : ToSet(skills.codecs[type]) \subseteq {"copy"} \cup ToSet(v.codecs[type])
  BY SkillsNamed
<1> HIDE DEF made, skills, v
<1>3. \A type \in Media : HasMedia(p[type]) =>
         made(type) \in (ToSet(v.codecs[type]) \cap ToSet(skills.codecs[type])) \ {"none"}
  BY <1>1, <1>2
<1>4. codecs = CodecsListed(list)
  <2>1. \A type \in Media : HasMedia(p[type]) =>
           \E j \in DOMAIN list : list[j].type = type /\ list[j].codec = made(type)
    <3> TAKE type \in Media
    <3> HAVE HasMedia(p[type])
    <3>1. PICK j \in DOMAIN list : list[j].type = type
      BY DEF Listed
    <3>2. list[j].codec = CodecOf(p[type], type, streams)
      BY <3>1 DEF Listed
    <3> QED
      BY <1>1, <3>1, <3>2
  <2>2. \A j \in DOMAIN list : \E type \in Media : HasMedia(p[type]) /\ list[j].codec = made(type)
    BY <1>1 DEF Listed
  <2> QED
    BY <1>1, <2>1, <2>2 DEF CodecsListed
<1>5. codecs \subseteq SentBy(v, skills)
  BY <1>1, <1>3 DEF SentBy, Media
<1>6. IsListing(v, list)
  <2>1. \A j \in DOMAIN list : \/ list[j].type = "video" /\ list[j].codec \in ToSet(v.codecs.video) \ {"none"}
                               \/ list[j].type = "audio" /\ list[j].codec \in ToSet(v.codecs.audio) \ {"none"}
    <3> TAKE j \in DOMAIN list
    <3>1. PICK type \in Media : /\ HasMedia(p[type]) /\ list[j].type = type
                                /\ list[j].codec = CodecOf(p[type], type, streams)
      BY DEF Listed
    <3>2. list[j].codec \in ToSet(v.codecs[type]) \ {"none"}
      BY <1>1, <1>3, <3>1
    <3> QED
      BY <3>1, <3>2 DEF Media
  <2> QED
    BY <2>1 DEF Listed, IsListing
<1> QED
  BY <1>4, <1>5, <1>6 DEF made, skills, v

\* Every output of it goes in a format that carries what is sent.
LEMMA SavedFitsMuxer ==
    ASSUME NEW p, NEW ff, NEW io, NEW sources, p.service \in Names, IsChannel(p.streams),
           ProfileFits(p.service, p.settings.profile, p.streams, ff),
           Listed(p.settings.streams, p.settings.profile, p.streams),
           p.settings.profile.video.stream # -1,
           IsOutputs(p.settings.outputs), p.settings.outputs # <<>>,
           OutputsFit(p.service, p.settings, p.outdated, ff),
           SettingsFit(p.service, p.settings.settings),
           HaveOptions(p.settings.outputs),
           io.outputs[1] = InputsOutputs(sources, p.settings.profile).outputs[1],
           NEW e, e.service = p.service, e.loaded = p.streams,
           e.outputs = OutputsOf(io, p.settings.outputs), ~e.outdated => ~p.outdated
    PROVE  FitsMuxer(e, ff)
<1> DEFINE own == InputsOutputs(sources, p.settings.profile).outputs[1]
           id == p.service
           skills == ConflateServiceSkills(id, ff)
           list == p.settings.streams
           v == ServiceOf(id, p.settings.settings, skills, list)
<1> SUFFICES ASSUME ~e.outdated, ff.ffmpeg >= 6,
                    \A type \in Media : HasCoder(TakenBy(id, ff), type, ff),
                    NEW i \in DOMAIN e.outputs
             PROVE  LET o == e.outputs[i]
                        codecs == { CodecMade(o.options, type, e.loaded) : type \in Media } \ {"none"}
                    IN  o.address[1] # "" /\ codecs # {} /\ ~Misfit(id, o.address[1], codecs) =>
                           Carries(o, codecs)
  BY DEF FitsMuxer
<1> DEFINE out == p.settings.outputs[i]
           o == e.outputs[i]
           codecs == { CodecMade(own \o out.options, type, p.streams) : type \in Media } \ {"none"}
<1>1. v.outputs = p.settings.outputs
  BY DEF OutputsFit
<1>2. skills.ffmpeg = ff.ffmpeg
  BY DEF ConflateServiceSkills
<1>3. i \in DOMAIN p.settings.outputs
  BY DEF OutputsOf
<1>4. o.address = out.address /\ o.options = own \o out.options
  <2>1. o.address = out.address /\ o.options = Sent(own, out)
    BY <1>3, OutputOf
  <2>2. Sent(own, out) = own \o out.options
    BY Zenon DEF Sent
  <2> QED
    BY <2>1, <2>2, Zenon
<1>5. out \in ToSet(p.settings.outputs) /\ "options" \in DOMAIN out /\ Free(out.options)
  BY <1>3 DEF IsOutputs, ToSet, HaveOptions
<1>6. Silent(own)
  BY OwnSilent DEF ProfileFits, Fits, IsMedia
<1>7. codecs = CodecsListed(list) /\ codecs \subseteq SentBy(v, skills) /\ IsListing(v, list)
  BY <1>5, SentCodecs
<1>8. Fitting(id, p.settings.settings, skills, list)
  BY ServiceFits
<1>9. id = "icecast" => v = Icecast(p.settings.settings, list)
  BY OtherRegistry
<1> HIDE DEF own, skills, v, codecs, out
<1>10. ASSUME out.address[1] # "", codecs # {}, ~Misfit(id, out.address[1], codecs)
       PROVE  Carries(out, codecs)
  <2>1. CASE id # "icecast"
    <3>1. CarriesSent(id, v, skills)
      BY <1>8, <2>1 DEF Fitting, v
    <3> QED
      BY <1>1, <1>2, <1>5, <1>7, <1>10, <3>1 DEF CarriesSent
  <2>2. CASE id = "icecast"
    <3> DEFINE w == Icecast(p.settings.settings, list)
    <3>4. \A x \in ToSet(w.outputs) : x.address[1] = "icecast"
      BY IcecastGoes
    <3>5. v = w
      BY <1>9, <2>2
    <3> HIDE DEF w
    <3>1. \A x \in ToSet(v.outputs) : x.address[1] = "icecast"
      BY <3>4, <3>5
    <3>2. out.address[1] = "icecast"
      BY <1>1, <1>5, <3>1
    <3>3. \A x \in ToSet(v.outputs) : Carries(x, codecs)
      BY <1>7, <1>10, <2>2, <3>2, <3>5, IcecastFits DEF w
    <3> QED
      BY <1>1, <1>5, <3>3
  <2> QED
    BY <2>1, <2>2
<1>11. IsList(out.options)
  BY <1>5 DEF Free
<1> QED
  BY <1>4, <1>6, <1>10, <1>11, CarriesMore DEF own, codecs

-----------------------------------------------------------------------------
(* Changes of a page *)

MediaFields == {"source", "stream", "encoder", "decoder", "filter"}
SameChoice(n, m) ==
    /\ HasFields(n, MediaFields)
    /\ n.source = m.source /\ n.stream = m.stream /\ n.encoder.coder = m.encoder.coder

\* Video or audio with the same choice, or the coder it has handed back, goes on to fit.
LEMMA FitsAgain ==
    ASSUME NEW m, NEW n, NEW type, NEW streams, NEW takes, NEW ff, Fits(m, type, streams, takes, ff),
           SameChoice(n, m), n.encoder = m.encoder \/ IsChosen(n.encoder, type)
    PROVE  Fits(n, type, streams, takes, ff)
<1>1. Suits(n, type, streams, takes, ff)
  BY DEF Fits, Suits, SameChoice
<1>2. IsMedia(n, type, takes, ff)
  <2>1. CASE n.encoder = m.encoder
    BY <2>1 DEF Fits, IsMedia, SameChoice, MediaFields
  <2>2. CASE IsChosen(n.encoder, type)
    BY <2>2 DEF Fits, IsMedia, SameChoice, MediaFields, IsChosen, Chooses
  <2> QED
    BY <2>1, <2>2
<1> QED
  BY <1>1, <1>2 DEF Fits

\* It fits with another coder that makes what the service takes.
LEMMA FitsChanged ==
    ASSUME NEW n, NEW type, NEW streams, NEW takes, NEW ff, HasFields(n, MediaFields),
           n.stream # -1 => n.source = 0, Within(streams, n.stream), At(streams, n.stream).type = type,
           n.stream # -1, IsChosen(n.encoder, type),
           n.encoder.coder = "copy" => At(streams, n.stream).codec \in takes[type],
           Get(Encoders[type], n.encoder.coder).codec \in takes[type]
    PROVE  Fits(n, type, streams, takes, ff)
BY DEF Fits, Suits, IsMedia, MediaFields, IsChosen, Chooses

\* A page that has only the same choices as another.
HasProfile(p) ==
    /\ HasFields(p, PageFields) /\ HasFields(p.settings, SettingsFields)
    /\ HasFields(p.settings.profile, Media)
    /\ \A type \in Media : HasFields(p.settings.profile[type], MediaFields)
SamePage(q, p) ==
    /\ q.view = p.view /\ q.id = p.id /\ q.service = p.service /\ q.skills = p.skills
    /\ q.streams = p.streams /\ q.outdated = p.outdated
SameSettings(q, p) ==
    /\ q.settings.outputs = p.settings.outputs /\ q.settings.settings = p.settings.settings
    /\ q.settings.streams = p.settings.streams
Alike(q, p) == HasProfile(q) /\ SamePage(q, p) /\ SameSettings(q, p)

Put(p, type, n) == [p EXCEPT !.settings.profile[type] = n]

\* A page with other video or audio is the same otherwise.
LEMMA PutMedia ==
    ASSUME NEW p, HasProfile(p), NEW type \in Media, NEW n, HasFields(n, MediaFields)
    PROVE  LET q == Put(p, type, n)
           IN  /\ Alike(q, p) /\ q.settings.profile[type] = n
               /\ \A t \in Media \ {type} : q.settings.profile[t] = p.settings.profile[t]
<1> DEFINE q == Put(p, type, n)
<1> DEFINE f == [p.settings.profile EXCEPT ![type] = n]
           s == [p.settings EXCEPT !.profile = f]
<1>1. /\ DOMAIN f = DOMAIN p.settings.profile /\ f[type] = n
      /\ \A t \in Media \ {type} : f[t] = p.settings.profile[t]
  BY DEF HasProfile, HasFields
<1> HIDE DEF f
<1>2. /\ DOMAIN s = DOMAIN p.settings /\ s.profile = f /\ s.outputs = p.settings.outputs
      /\ s.settings = p.settings.settings /\ s.streams = p.settings.streams
  BY DEF HasProfile, HasFields, SettingsFields
<1>3. q = [p EXCEPT !.settings = s]
  BY Zenon DEF f, Put
<1> HIDE DEF s, q
<1>4. DOMAIN q = DOMAIN p /\ q.settings = s
  BY <1>3 DEF HasProfile, HasFields, PageFields
<1>5. SamePage(q, p)
  BY <1>3 DEF SamePage
<1>6. HasProfile(q)
  BY <1>1, <1>2, <1>4 DEF HasProfile, HasFields
<1> QED
  BY <1>1, <1>2, <1>4, <1>5, <1>6 DEF Alike, SameSettings, q

\* A page is like itself.
LEMMA AlikeSelf == \A p : HasProfile(p) => Alike(p, p)
BY DEF Alike, SamePage, SameSettings

\* Pages that are like the same page are alike.
LEMMA AlikeAgain == \A p, q, r : Alike(q, p) /\ Alike(r, q) => Alike(r, p)
BY DEF Alike, SamePage, SameSettings

Told(new, type, what) == \E x \in new : x[1] = type /\ x[2] = what

\* What the components of a type report leaves the choice, and the coder chooses itself.
LEMMA Reports ==
    ASSUME NEW p, HasProfile(p), NEW type \in Media, NEW new,
           Told(new, type, "encoder") =>
              Get(Encoders[type], p.settings.profile[type].encoder.coder) # NoCoder
    PROVE  LET q == Reported(p, new, type)
               m == p.settings.profile[type]
               n == q.settings.profile[type]
           IN  /\ Alike(q, p) /\ SameChoice(n, m)
               /\ n.encoder = m.encoder \/ IsChosen(n.encoder, type)
               /\ \A t \in Media \ {type} : q.settings.profile[t] = p.settings.profile[t]
<1> DEFINE s == StreamUsed(p, type)
           d == IF Told(new, type, "decoder")
                THEN [p EXCEPT !.settings.profile[type].decoder = Handed(@, Decoders[type], s, env)]
                ELSE p
           e == IF Told(new, type, "encoder")
                THEN [d EXCEPT !.settings.profile[type].encoder = Handed(@, Encoders[type], s, env)]
                ELSE d
           f == IF Told(new, type, "filters")
                THEN [e EXCEPT !.settings.profile[type].filter = MountFilters(@, type, env.filters)]
                ELSE e
           m == p.settings.profile[type]
           md == d.settings.profile[type]
           me == e.settings.profile[type]
           mf == f.settings.profile[type]
<1>1. Reported(p, new, type) = f
  BY Zenon DEF Reported, Told
<1>2. HasFields(m, MediaFields)
  BY DEF HasProfile
<1>3. /\ Alike(d, p) /\ SameChoice(md, m) /\ md.encoder = m.encoder
      /\ \A t \in Media \ {type} : d.settings.profile[t] = p.settings.profile[t]
  <2>1. CASE Told(new, type, "decoder")
    <3> DEFINE n == [m EXCEPT !.decoder = Handed(@, Decoders[type], s, env)]
    <3>1. d = Put(p, type, n)
      BY Zenon, <2>1 DEF Put
    <3>2. HasFields(n, MediaFields) /\ n.encoder = m.encoder /\ n.source = m.source /\ n.stream = m.stream
      BY <1>2 DEF HasFields, MediaFields
    <3> HIDE DEF n, d
    <3>3. /\ Alike(d, p) /\ md = n
          /\ \A t \in Media \ {type} : d.settings.profile[t] = p.settings.profile[t]
      BY <3>1, <3>2, PutMedia
    <3> HIDE DEF md, m
    <3> QED
      BY <3>2, <3>3 DEF SameChoice
  <2>2. CASE ~Told(new, type, "decoder")
    <3>1. d = p /\ md = m
      BY Zenon, <2>2
    <3> HIDE DEF d, m, md
    <3> QED
      BY <1>2, <3>1, AlikeSelf DEF SameChoice
  <2> QED
    BY <2>1, <2>2
<1> HIDE DEF d
<1>4. HasProfile(d) /\ HasFields(md, MediaFields)
  BY <1>3 DEF Alike, HasProfile
<1>5. /\ Alike(e, d) /\ SameChoice(me, md)
      /\ me.encoder = md.encoder \/ IsChosen(me.encoder, type)
      /\ \A t \in Media \ {type} : e.settings.profile[t] = d.settings.profile[t]
  <2>1. CASE Told(new, type, "encoder")
    <3> DEFINE h == Handed(md.encoder, Encoders[type], s, env)
               n == [md EXCEPT !.encoder = h]
    <3>0. Get(Encoders[type], md.encoder.coder) # NoCoder
      BY <1>3, <2>1
    <3>1. e = Put(d, type, n)
      BY Zenon, <2>1 DEF Put
    <3>2. IsChosen(h, type) /\ h.coder = md.encoder.coder
      BY <3>0, HandedChooses
    <3> HIDE DEF h
    <3>3. HasFields(n, MediaFields) /\ n.encoder = h /\ n.source = md.source /\ n.stream = md.stream
      BY <1>4 DEF HasFields, MediaFields
    <3> HIDE DEF n, e
    <3>4. /\ Alike(e, d) /\ me = n
          /\ \A t \in Media \ {type} : e.settings.profile[t] = d.settings.profile[t]
      BY <1>4, <3>1, <3>3, PutMedia
    <3> HIDE DEF me, md
    <3> QED
      BY <3>2, <3>3, <3>4 DEF SameChoice
  <2>2. CASE ~Told(new, type, "encoder")
    <3>1. e = d /\ me = md
      BY Zenon, <2>2
    <3> HIDE DEF e, md, me
    <3> QED
      BY <1>4, <3>1, AlikeSelf DEF SameChoice
  <2> QED
    BY <2>1, <2>2
<1> HIDE DEF e
<1>6. HasProfile(e) /\ HasFields(me, MediaFields)
  <2> HIDE DEF md
  <2> QED
    BY <1>5 DEF Alike, HasProfile
<1>7. /\ Alike(f, e) /\ SameChoice(mf, me) /\ mf.encoder = me.encoder
      /\ \A t \in Media \ {type} : f.settings.profile[t] = e.settings.profile[t]
  <2>1. CASE Told(new, type, "filters")
    <3> DEFINE n == [me EXCEPT !.filter = MountFilters(@, type, env.filters)]
    <3>1. f = Put(e, type, n)
      BY Zenon, <2>1 DEF Put
    <3>2. HasFields(n, MediaFields) /\ n.encoder = me.encoder /\ n.source = me.source /\ n.stream = me.stream
      BY <1>6 DEF HasFields, MediaFields
    <3> HIDE DEF n, f
    <3>3. /\ Alike(f, e) /\ mf = n
          /\ \A t \in Media \ {type} : f.settings.profile[t] = e.settings.profile[t]
      BY <1>6, <3>1, <3>2, PutMedia
    <3> HIDE DEF mf, me
    <3> QED
      BY <3>2, <3>3 DEF SameChoice
  <2>2. CASE ~Told(new, type, "filters")
    <3>1. f = e /\ mf = me
      BY Zenon, <2>2
    <3> HIDE DEF f, me, mf
    <3> QED
      BY <1>6, <3>1, AlikeSelf DEF SameChoice
  <2> QED
    BY <2>1, <2>2
<1> HIDE DEF f
<1>8. Alike(f, p)
  <2>1. Alike(e, p)
    BY <1>3, <1>5, AlikeAgain
  <2> QED
    BY <1>7, <2>1, AlikeAgain
<1> HIDE DEF m, md, me, mf
<1>9. SameChoice(mf, m) /\ (mf.encoder = m.encoder \/ IsChosen(mf.encoder, type))
  <2>1. SameChoice(me, m) /\ (me.encoder = m.encoder \/ IsChosen(me.encoder, type))
    BY <1>3, <1>5 DEF SameChoice
  <2> QED
    BY <1>7, <2>1 DEF SameChoice
<1>10. \A t \in Media \ {type} : f.settings.profile[t] = p.settings.profile[t]
  BY <1>3, <1>5, <1>7
<1> QED
  BY <1>1, <1>8, <1>9, <1>10 DEF m, mf

\* The outputs of most services do not follow the streams.
LEMMA OtherStreams ==
    ASSUME NEW id \in Names, NEW ff, NEW old, NEW new, NEW outdated,
           OutputsFit(id, old, outdated, ff), new.outputs = old.outputs, new.settings = old.settings,
           id \notin WithCreateOutputs
    PROVE  \A other : OutputsFit(id, new, other, ff)
<1> DEFINE skills == ConflateServiceSkills(id, ff)
<1>1. \A streams, other : ServiceOf(id, old.settings, skills, other) = ServiceOf(id, old.settings, skills, streams)
  BY ServiceSound DEF Outcome
<1> HIDE DEF skills
<1>2. CASE old.outputs = <<>>
  BY <1>2 DEF OutputsFit
<1>3. CASE old.outputs = ServiceOf(id, old.settings, skills, old.streams).outputs
  <2>1. ServiceOf(id, old.settings, skills, old.streams) = ServiceOf(id, old.settings, skills, new.streams)
    BY <1>1
  <2> QED
    BY <1>3, <2>1 DEF OutputsFit, skills
<1> QED
  BY <1>2, <1>3 DEF OutputsFit, skills

\* A page with the same choices goes on to fit.
LEMMA PageAgain ==
    ASSUME NEW p, NEW q, PageFits(p), Alike(q, p),
           \A type \in Media :
              LET m == p.settings.profile[type]
                  n == q.settings.profile[type]
              IN  SameChoice(n, m) /\ (n.encoder = m.encoder \/ IsChosen(n.encoder, type))
    PROVE  PageFits(q)
<1>1. q.service \in Names /\ q.skills = ConflateServiceSkills(q.service, env)
  BY DEF PageFits, Alike, SamePage
<1>2. ProfileFits(q.service, q.settings.profile, q.streams, env)
  <2>1. HasFields(q.settings.profile, Media) /\ q.service = p.service /\ q.streams = p.streams
    BY DEF Alike, HasProfile, SamePage
  <2>2. ASSUME NEW type \in Media
        PROVE  Fits(q.settings.profile[type], type, p.streams, TakenBy(p.service, env), env)
    BY FitsAgain DEF PageFits, ProfileFits
  <2> QED
    BY <2>1, <2>2 DEF ProfileFits
<1>3. Listed(q.settings.streams, q.settings.profile, q.streams)
  <2>1. q.settings.streams = p.settings.streams /\ q.streams = p.streams
    BY DEF Alike, SameSettings, SamePage
  <2>2. ASSUME NEW type \in Media
        PROVE  /\ HasMedia(q.settings.profile[type]) <=> HasMedia(p.settings.profile[type])
               /\ CodecOf(q.settings.profile[type], type, p.streams) = CodecOf(p.settings.profile[type], type, p.streams)
    BY DEF SameChoice, HasMedia, CodecOf
  <2> QED
    BY <2>1, <2>2 DEF Listed, PageFits
<1>4. OutputsFit(q.service, q.settings, q.outdated, env)
  BY DEF PageFits, OutputsFit, Alike, SameSettings, SamePage
<1>5. SettingsFit(q.service, q.settings.settings)
  BY DEF PageFits, Alike, SameSettings, SamePage
<1> QED
  BY <1>1, <1>2, <1>3, <1>4, <1>5 DEF PageFits

\* createOutputStreams lists what is made.
LEMMA OneStream ==
    ASSUME NEW p, NEW m, NEW type \in Media, NEW n, m.source = 0,
           Within(p.streams, m.stream), At(p.streams, m.stream).type = type
    PROVE  LET s == OutputStream(SourcesOf(p), m, Encoders[type], n)
           IN  s.type = type /\ s.codec = CodecOf(m, type, p.streams)
<1> DEFINE s == OutputStream(SourcesOf(p), m, Encoders[type], n)
           stream == Selected(SourcesOf(p), m)
<1>1. stream = At(p.streams, m.stream)
  <2> DEFINE source == [type |-> "network", settings |-> Nothing, streams |-> p.streams,
                        inputs |-> <<[address |-> "", options |-> p.input]>>]
  <2>1. SourcesOf(p) = <<source>> /\ source.streams = p.streams
    BY DEF SourcesOf
  <2> HIDE DEF source
  <2>2. At(SourcesOf(p), m.source) = source
    BY <2>1 DEF At
  <2> QED
    BY <2>1, <2>2 DEF Selected
<1> HIDE DEF stream
<1>2. s.type = stream.type
  BY DEF OutputStream, stream
<1>3. s.codec = IF m.encoder.coder = "copy" THEN stream.codec ELSE Get(Encoders[type], m.encoder.coder).codec
  BY DEF OutputStream, stream
<1> HIDE DEF s
<1> QED
  BY <1>1, <1>2, <1>3 DEF CodecOf, s

\* The streams of a profile are those it makes (createOutputStreams).
LEMMA StreamsListed ==
    ASSUME NEW p, NEW id, NEW profile, NEW ff, ProfileFits(id, profile, p.streams, ff)
    PROVE  Listed(OutputStreams(SourcesOf(p), profile), profile, p.streams)
<1> DEFINE S == SourcesOf(p)
           list == OutputStreams(S, profile)
           video == IF HasMedia(profile.video) THEN <<OutputStream(S, profile.video, Encoders.video, 0)>>
                    ELSE <<>>
           v == OutputStream(S, profile.video, Encoders.video, 0)
           a == OutputStream(S, profile.audio, Encoders.audio, Len(video))
<1>1. list = video \o (IF HasMedia(profile.audio) THEN <<a>> ELSE <<>>)
  BY Zenon DEF OutputStreams, HasAudio
<1>2. ASSUME NEW type \in Media, HasMedia(profile[type])
      PROVE  /\ profile[type].source = 0 /\ Within(p.streams, profile[type].stream)
             /\ At(p.streams, profile[type].stream).type = type
  BY <1>2 DEF HasMedia, ProfileFits, Fits, IsMedia, Suits
<1>3. HasMedia(profile.video) => v.type = "video" /\ v.codec = CodecOf(profile.video, "video", p.streams)
  BY <1>2, OneStream DEF Media
<1>4. HasMedia(profile.audio) => a.type = "audio" /\ a.codec = CodecOf(profile.audio, "audio", p.streams)
  BY <1>2, OneStream DEF Media
<1> HIDE DEF v, a, list
<1> DEFINE both == HasMedia(profile.video) /\ HasMedia(profile.audio)
<1>5. /\ DOMAIN list \subseteq {1, 2} /\ (2 \in DOMAIN list => both /\ list[1] = v /\ list[2] = a)
      /\ \A j \in DOMAIN list : \/ HasMedia(profile.video) /\ list[j] = v
                                \/ HasMedia(profile.audio) /\ list[j] = a
      /\ HasMedia(profile.video) => \E j \in DOMAIN list : list[j] = v
      /\ HasMedia(profile.audio) => \E j \in DOMAIN list : list[j] = a
  <2>1. video = IF HasMedia(profile.video) THEN <<v>> ELSE <<>>
    BY Zenon DEF v
  <2> HIDE DEF video
  <2>2. CASE HasMedia(profile.video) /\ HasMedia(profile.audio)
    <3>1. list = <<v>> \o <<a>>
      BY <1>1, <2>1, <2>2
    <3>2. DOMAIN list = {1, 2} /\ list[1] = v /\ list[2] = a
      BY <3>1
    <3> QED
      BY <2>2, <3>2
  <2>3. CASE HasMedia(profile.video) /\ ~HasMedia(profile.audio)
    <3>1. list = <<v>> \o <<>>
      BY <1>1, <2>1, <2>3
    <3>2. DOMAIN list = {1} /\ list[1] = v
      BY <3>1
    <3> QED
      BY <2>3, <3>2
  <2>4. CASE ~HasMedia(profile.video) /\ HasMedia(profile.audio)
    <3>1. list = <<>> \o <<a>>
      BY <1>1, <2>1, <2>4
    <3>2. DOMAIN list = {1} /\ list[1] = a
      BY <3>1
    <3> QED
      BY <2>4, <3>2
  <2>5. CASE ~HasMedia(profile.video) /\ ~HasMedia(profile.audio)
    <3>1. list = <<>> \o <<>>
      BY <1>1, <2>1, <2>5
    <3>2. DOMAIN list = {}
      BY <3>1
    <3> QED
      BY <2>5, <3>2
  <2> QED
    BY <2>2, <2>3, <2>4, <2>5
<1>6. ASSUME NEW j \in DOMAIN list
      PROVE  \E type \in Media : /\ HasMedia(profile[type]) /\ list[j].type = type
                                 /\ list[j].codec = CodecOf(profile[type], type, p.streams)
  BY <1>3, <1>4, <1>5 DEF Media
<1>7. ASSUME NEW i \in DOMAIN list, NEW j \in DOMAIN list, list[i].type = list[j].type
      PROVE  i = j
  BY <1>3, <1>4, <1>5, <1>7
<1>8. ASSUME NEW type \in Media, HasMedia(profile[type])
      PROVE  \E j \in DOMAIN list : list[j].type = type
  BY <1>3, <1>4, <1>5, <1>8 DEF Media
<1> HIDE DEF both
<1>9. DOMAIN list \subseteq Nat
  BY <1>5
<1> QED
  BY <1>6, <1>7, <1>8, <1>9 DEF Listed, list

SameFrame(q, p) ==
    /\ q.view = p.view /\ q.id = p.id /\ q.service = p.service /\ q.skills = p.skills
    /\ q.streams = p.streams

\* What is made anew when the encoding changes.
LEMMA EncodedIs ==
    ASSUME NEW p, HasProfile(p)
    PROVE  LET q == Encoded(p)
               streams == OutputStreams(SourcesOf(p), p.settings.profile)
           IN  /\ HasProfile(q) /\ SameFrame(q, p)
               /\ q.settings.profile = p.settings.profile /\ q.settings.settings = p.settings.settings
               /\ q.settings.streams = streams
               /\ q.settings.outputs = IF p.service \in WithCreateOutputs
                                       THEN ServiceOf(p.service, p.settings.settings, p.skills, streams).outputs
                                       ELSE p.settings.outputs
<1> DEFINE streams == OutputStreams(SourcesOf(p), p.settings.profile)
           outputs == IF p.service \in WithCreateOutputs
                      THEN ServiceOf(p.service, p.settings.settings, p.skills, streams).outputs
                      ELSE p.settings.outputs
           q == Encoded(p)
           s == q.settings
<1>1. q = [p EXCEPT !.settings.streams = streams, !.settings.outputs = outputs, !.outdated = FALSE]
  BY DEF Encoded
<1> HIDE DEF streams, outputs, q
<1>2. DOMAIN q = DOMAIN p /\ SameFrame(q, p)
  BY <1>1 DEF SameFrame
<1>3. s = [[p.settings EXCEPT !.streams = streams] EXCEPT !.outputs = outputs]
  BY <1>1 DEF HasProfile, HasFields, PageFields
<1> HIDE DEF s
<1>4. /\ DOMAIN s = DOMAIN p.settings /\ s.profile = p.settings.profile
      /\ s.settings = p.settings.settings /\ s.streams = streams /\ s.outputs = outputs
  BY <1>3 DEF HasProfile, HasFields, SettingsFields
<1>5. HasProfile(q)
  BY <1>2, <1>4 DEF HasProfile, HasFields, s
<1> QED
  BY <1>2, <1>4, <1>5 DEF q, s, streams, outputs

\* A page whose encoding is made anew fits its service.
LEMMA EncodedFits ==
    ASSUME NEW p, HasProfile(p), p.service \in Names, p.skills = ConflateServiceSkills(p.service, env),
           ProfileFits(p.service, p.settings.profile, p.streams, env),
           OutputsFit(p.service, p.settings, p.outdated, env), SettingsFit(p.service, p.settings.settings)
    PROVE  PageFits(Encoded(p)) /\ HasProfile(Encoded(p)) /\ SameFrame(Encoded(p), p)
<1> DEFINE q == Encoded(p)
           streams == OutputStreams(SourcesOf(p), p.settings.profile)
<1>1. /\ HasProfile(q) /\ SameFrame(q, p)
      /\ q.settings.profile = p.settings.profile /\ q.settings.settings = p.settings.settings
      /\ q.settings.streams = streams
      /\ q.settings.outputs = IF p.service \in WithCreateOutputs
                              THEN ServiceOf(p.service, p.settings.settings, p.skills, streams).outputs
                              ELSE p.settings.outputs
  BY EncodedIs
<1>2. Listed(streams, p.settings.profile, p.streams)
  BY StreamsListed
<1> HIDE DEF q, streams
<1>3. OutputsFit(p.service, q.settings, q.outdated, env)
  <2>1. CASE p.service \in WithCreateOutputs
    BY <1>1, <2>1 DEF OutputsFit
  <2>2. CASE p.service \notin WithCreateOutputs
    BY <1>1, <2>2, OtherStreams
  <2> QED
    BY <2>1, <2>2
<1>4. PageFits(q)
  BY <1>1, <1>2, <1>3 DEF PageFits, SameFrame
<1> QED
  BY <1>1, <1>4 DEF q

\* An encoder that is mounted is one of the registry.
LEMMA MountedEncoder ==
    ASSUME NEW q, NEW before, NEW type \in Media, Told(Mounted(q) \ before, type, "encoder")
    PROVE  Get(Encoders[type], q.settings.profile[type].encoder.coder) # NoCoder
<1> DEFINE OfEncoder(u) == <<u, "encoder", q.settings.profile[u].encoder.coder>>
           OfDecoder(u) == <<u, "decoder", q.settings.profile[u].decoder.coder>>
           OfFilter(u) == <<u, "filters", "">>
           D == { t \in Media : DecoderOnPage(q, t) /\ q.settings.profile[t].decoder.coder \in env.decoders }
           E == { t \in Media : EncoderOnPage(q, t) }
           F == { t \in Media : FiltersOnPage(q, t) }
<1>1. PICK x \in Mounted(q) : x[1] = type /\ x[2] = "encoder"
  BY DEF Told
<1>2. x \in {<<"control", "source", "">>} \cup { OfEncoder(t) : t \in E } \cup { OfDecoder(t) : t \in D }
            \cup { OfFilter(t) : t \in F }
  BY <1>1, Zenon DEF Mounted
<1> HIDE DEF D, E, F
<1>3. /\ <<"control", "source", "">>[2] = "source"
      /\ \A t : OfEncoder(t)[1] = t
      /\ \A t : OfDecoder(t)[2] = "decoder"
      /\ \A t : OfFilter(t)[2] = "filters"
  OBVIOUS
<1> HIDE DEF OfEncoder, OfDecoder, OfFilter
<1>4. type \in E
  BY <1>1, <1>2, <1>3
<1> QED
  BY <1>4 DEF E, EncoderOnPage, EncodingShown

\* The components that are mounted keep what the page says.
LEMMA RenderedFits ==
    ASSUME NEW q, NEW before, HasProfile(q), PageFits(q)
    PROVE  LET r == Rendered(before, q)
           IN  PageFits(r) /\ HasProfile(r) /\ SameFrame(r, q)
<1> DEFINE new == Mounted(q) \ before
           v == Reported(q, new, "video")
           r == Reported(v, new, "audio")
<1>1. Rendered(before, q) = IF LastReport(new) = "coders" THEN Encoded(r) ELSE r
  BY Zenon DEF Rendered
<1>2. \A type \in Media : Told(new, type, "encoder") =>
         Get(Encoders[type], q.settings.profile[type].encoder.coder) # NoCoder
  BY MountedEncoder
<1>3. "video" \in Media /\ "audio" \in Media
  BY DEF Media
<1> HIDE DEF new
<1>4. /\ Alike(v, q) /\ SameChoice(v.settings.profile["video"], q.settings.profile["video"])
      /\ \/ v.settings.profile["video"].encoder = q.settings.profile["video"].encoder
         \/ IsChosen(v.settings.profile["video"].encoder, "video")
      /\ \A t \in Media \ {"video"} : v.settings.profile[t] = q.settings.profile[t]
  BY <1>2, <1>3, Reports
<1> HIDE DEF v
<1>5. HasProfile(v) /\ v.settings.profile["audio"] = q.settings.profile["audio"]
  BY <1>4 DEF Alike, Media
<1>6. /\ Alike(r, v) /\ SameChoice(r.settings.profile["audio"], v.settings.profile["audio"])
      /\ \/ r.settings.profile["audio"].encoder = v.settings.profile["audio"].encoder
         \/ IsChosen(r.settings.profile["audio"].encoder, "audio")
      /\ \A t \in Media \ {"audio"} : r.settings.profile[t] = v.settings.profile[t]
  BY <1>2, <1>3, <1>5, Reports
<1> HIDE DEF r
<1>7. r.settings.profile["video"] = v.settings.profile["video"]
  BY <1>6 DEF Media
<1>8. Alike(r, q)
  BY <1>4, <1>6, AlikeAgain
<1>9. ASSUME NEW type \in Media
      PROVE  LET m == q.settings.profile[type]
                 n == r.settings.profile[type]
             IN  SameChoice(n, m) /\ (n.encoder = m.encoder \/ IsChosen(n.encoder, type))
  BY <1>4, <1>5, <1>6, <1>7 DEF Media
<1>10. PageFits(r) /\ HasProfile(r) /\ SameFrame(r, q)
  BY <1>8, <1>9, PageAgain DEF Alike, SamePage, SameFrame
<1>11. PageFits(Encoded(r)) /\ HasProfile(Encoded(r)) /\ SameFrame(Encoded(r), r)
  BY <1>10, EncodedFits DEF PageFits
<1> QED
  BY <1>1, <1>10, <1>11 DEF SameFrame, r, v, new

\* A page of a service has its fields and fits.
LEMMA OnPage ==
    ASSUME PageSound(page), page.view = "page", page.service # ""
    PROVE  HasProfile(page) /\ PageFits(page) /\ IsChannel(page.streams)
<1>1. PageFits(page) /\ IsChannel(page.streams) /\ HasFields(page, PageFields) /\ HasFields(page.settings, SettingsFields)
  BY DEF PageSound
<1>2. HasFields(page.settings.profile, Media)
      /\ \A type \in Media : HasFields(page.settings.profile[type], MediaFields)
  BY <1>1 DEF PageFits, ProfileFits, Fits, IsMedia, MediaFields
<1> QED
  BY <1>1, <1>2 DEF HasProfile

\* A page that is shown after the one there is.
LEMMA NextPage ==
    ASSUME PageSound(page), page.view = "page", page.service # "", UNCHANGED <<env, core>>,
           HasProfile(page'), PageFits(page)', SameFrame(page', page)
    PROVE  PageSound(page)'
<1>1. IsChannel(page.streams) /\ SamePublication(page)
  BY DEF PageSound
<1>2. IsChannel(page'.streams) /\ SamePublication(page)'
  BY <1>1 DEF SamePublication, SameFrame
<1> QED
  BY <1>2 DEF PageSound, HasProfile, SameFrame

\* A page that fits goes on to fit when its components are mounted.
LEMMA Rendering ==
    ASSUME PageSound(page), page.view = "page", page.service # "", UNCHANGED <<env, core>>,
           NEW q, HasProfile(q), PageFits(q), SameFrame(q, page), NEW before,
           page' = Rendered(before, q)
    PROVE  PageSound(page)'
<1>1. PageFits(Rendered(before, q)) /\ HasProfile(Rendered(before, q)) /\ SameFrame(Rendered(before, q), q)
  BY RenderedFits
<1>2. PageFits(page)'
  BY <1>1 DEF PageFits
<1>3. HasProfile(page') /\ SameFrame(page', page)
  BY <1>1 DEF SameFrame
<1> QED
  BY <1>2, <1>3, NextPage

\* Unsaved changes and another tab leave what a page says.
LEMMA Marked ==
    ASSUME NEW q, HasProfile(q), PageFits(q), NEW r,
           r = [q EXCEPT !.unsaved = TRUE] \/ \E tab : r = [q EXCEPT !.tab = tab]
    PROVE  HasProfile(r) /\ PageFits(r) /\ SameFrame(r, q)
<1>1. /\ DOMAIN r = DOMAIN q /\ r.settings = q.settings /\ r.service = q.service /\ r.skills = q.skills
      /\ r.streams = q.streams /\ r.outdated = q.outdated /\ r.view = q.view /\ r.id = q.id
  <2>1. CASE r = [q EXCEPT !.unsaved = TRUE]
    BY <2>1
  <2>2. CASE \E tab : r = [q EXCEPT !.tab = tab]
    <3> PICK tab : r = [q EXCEPT !.tab = tab]
      BY <2>2
    <3> QED
      OBVIOUS
  <2> QED
    BY <2>1, <2>2
<1>2. HasProfile(r)
  BY <1>1 DEF HasProfile, HasFields
<1>3. PageFits(r)
  BY <1>1 DEF PageFits
<1> QED
  BY <1>1, <1>2, <1>3 DEF SameFrame

\* So it does when an event is shown.
LEMMA Showing ==
    ASSUME PageSound(page), page.view = "page", page.service # "",
           NEW q, HasProfile(q), PageFits(q), SameFrame(q, page), Show(q)
    PROVE  PageSound(page)'
<1> DEFINE r == [q EXCEPT !.unsaved = TRUE]
<1>1. HasProfile(r) /\ PageFits(r) /\ SameFrame(r, q)
  BY Marked
<1>2. page' = Rendered(Mounted(page), r) /\ UNCHANGED <<env, core>>
  BY DEF Show
<1> HIDE DEF r
<1>3. SameFrame(r, page)
  BY <1>1 DEF SameFrame
<1> QED
  BY <1>1, <1>2, <1>3, Rendering

\* Another tab keeps the invariant: its components report, and may make the outputs anew.
LEMMA ChangeTabKeeps ==
    ASSUME PageSound(page), NEW tab, ChangeTab(tab)
    PROVE  PageSound(page)'
<1> DEFINE r == [page EXCEPT !.tab = tab]
<1>1. page.view = "page" /\ page.service # "" /\ page' = Rendered({}, r) /\ UNCHANGED <<env, core>>
  BY DEF ChangeTab
<1>2. HasProfile(page) /\ PageFits(page)
  BY <1>1, OnPage
<1>3. HasProfile(r) /\ PageFits(r) /\ SameFrame(r, page)
  BY <1>2, Marked
<1> HIDE DEF r
<1> QED
  BY <1>1, <1>3, Rendering

\* Another name keeps it.
LEMMA ChangeNameKeeps ==
    ASSUME PageSound(page), ChangeName
    PROVE  PageSound(page)'
<1>1. page.view = "page" /\ page.service # "" /\ Show(page)
  BY DEF ChangeName, Changed
<1>2. SameFrame(page, page)
  BY DEF SameFrame
<1> QED
  BY <1>1, <1>2, OnPage, Showing

\* Other settings of the service keep it: its outputs are those of the settings it hands over.
LEMMA ChangeServiceKeeps ==
    ASSUME PageSound(page), NEW choice \in SettingChoices[page.service], ChangeService(choice)
    PROVE  PageSound(page)'
<1> DEFINE s == Merged(choice, page.settings.settings)
           service == ServiceOf(page.service, s, page.skills, page.settings.streams)
           q == ChangedService(page, s)
<1>1. page.view = "page" /\ page.service # "" /\ Show(q)
  BY DEF ChangeService, Changed
<1>2. HasProfile(page) /\ PageFits(page)
  BY <1>1, OnPage
<1>3. ServiceOf(page.service, service.settings, page.skills, page.settings.streams) = service
  BY <1>2, ServiceSound DEF Outcome, PageFits
<1>11. SettingsFit(page.service, service.settings)
  <2>1. page.service \in Names /\ SettingsFit(page.service, page.settings.settings)
    BY <1>2 DEF PageFits
  <2>2. SettingsFit(page.service, choice)
    BY <2>1, ChoicesAssumption
  <2>3. SettingsFit(page.service, s)
    BY <2>1, <2>2, MergedBoth
  <2> HIDE DEF s
  <2>4. Fitting(page.service, s, page.skills, page.settings.streams)
    BY <2>1, ServiceFits
  <2> QED
    BY <2>3, <2>4 DEF Fitting
<1>4. q = [page EXCEPT !.settings.settings = service.settings, !.settings.outputs = service.outputs,
                       !.outdated = FALSE]
  BY Zenon DEF ChangedService
<1> HIDE DEF service, q
<1>5. DOMAIN q = DOMAIN page /\ SameFrame(q, page)
  BY <1>4 DEF SameFrame
<1>6. q.settings = [[page.settings EXCEPT !.settings = service.settings] EXCEPT !.outputs = service.outputs]
  BY <1>2, <1>4 DEF HasProfile, HasFields, PageFields
<1>7. /\ DOMAIN q.settings = DOMAIN page.settings /\ q.settings.profile = page.settings.profile
      /\ q.settings.streams = page.settings.streams /\ q.settings.settings = service.settings
      /\ q.settings.outputs = service.outputs
  BY <1>2, <1>6 DEF HasProfile, HasFields, SettingsFields
<1>8. HasProfile(q)
  BY <1>2, <1>5, <1>7 DEF HasProfile, HasFields
<1>9. OutputsFit(q.service, q.settings, q.outdated, env)
  BY <1>2, <1>3, <1>5, <1>7 DEF OutputsFit, PageFits, SameFrame
<1>10. PageFits(q)
  BY <1>2, <1>5, <1>7, <1>9, <1>11 DEF PageFits, SameFrame
<1> QED
  BY <1>1, <1>5, <1>8, <1>10, Showing

\* Another source keeps it.
LEMMA ChangeSourceKeeps ==
    ASSUME PageSound(page), NEW source, ChangeSource(source)
    PROVE  PageSound(page)'
<1> DEFINE q == [page EXCEPT !.settings.source = source]
<1>1. page.view = "page" /\ page.service # "" /\ Show(q)
  BY DEF ChangeSource, Changed
<1>2. HasProfile(page) /\ PageFits(page)
  BY <1>1, OnPage
<1>3. /\ DOMAIN q = DOMAIN page /\ SamePage(q, page) /\ DOMAIN q.settings = DOMAIN page.settings
      /\ q.settings.profile = page.settings.profile /\ SameSettings(q, page)
  BY <1>2 DEF HasProfile, HasFields, PageFields, SettingsFields, SamePage, SameSettings
<1> HIDE DEF q
<1>4. HasProfile(q)
  BY <1>2, <1>3 DEF HasProfile, HasFields
<1>5. Alike(q, page) /\ SameFrame(q, page)
  BY <1>3, <1>4 DEF Alike, SamePage, SameFrame
<1>6. \A type \in Media : SameChoice(q.settings.profile[type], page.settings.profile[type])
  BY <1>2, <1>3 DEF SameChoice, HasProfile
<1>7. PageFits(q)
  BY <1>2, <1>3, <1>5, <1>6, PageAgain
<1> QED
  BY <1>1, <1>4, <1>5, <1>7, Showing

\* What is chosen among the streams and what the service takes.
LEMMA Taken ==
    ASSUME PageFits(page), NEW type \in Media
    PROVE  CodecsOf(page, type) = TakenBy(page.service, env)[type]
BY Skills DEF PageFits, CodecsOf

\* A page with another coder for a type, its streams and outputs made anew, fits.
LEMMA OtherMedia ==
    ASSUME HasProfile(page), PageFits(page), NEW type \in Media, NEW n,
           HasFields(n, MediaFields), Fits(n, type, page.streams, TakenBy(page.service, env), env)
    PROVE  LET q == Encoded(Put(page, type, n))
           IN  PageFits(q) /\ HasProfile(q) /\ SameFrame(q, page)
<1> DEFINE q == Put(page, type, n)
<1>1. Alike(q, page) /\ q.settings.profile[type] = n
  BY PutMedia
<1>2. \A t \in Media \ {type} : q.settings.profile[t] = page.settings.profile[t]
  BY PutMedia
<1> HIDE DEF q
<1>3. HasProfile(q) /\ SameFrame(q, page)
  BY <1>1 DEF Alike, SamePage, SameFrame
<1>4. q.service \in Names /\ q.skills = ConflateServiceSkills(q.service, env)
  BY <1>3 DEF PageFits, SameFrame
<1>5. ProfileFits(q.service, q.settings.profile, q.streams, env)
  <2>1. HasFields(q.settings.profile, Media)
    BY <1>3 DEF HasProfile
  <2>2. ASSUME NEW t \in Media
        PROVE  Fits(q.settings.profile[t], t, page.streams, TakenBy(page.service, env), env)
    BY <1>1, <1>2 DEF PageFits, ProfileFits
  <2> QED
    BY <1>3, <2>1, <2>2 DEF ProfileFits, SameFrame
<1>6. OutputsFit(q.service, q.settings, q.outdated, env)
  BY <1>1 DEF PageFits, OutputsFit, Alike, SameSettings, SamePage
<1>9. SettingsFit(q.service, q.settings.settings)
  BY <1>1 DEF PageFits, Alike, SameSettings, SamePage
<1>7. PageFits(Encoded(q)) /\ HasProfile(Encoded(q)) /\ SameFrame(Encoded(q), q)
  BY <1>3, <1>4, <1>5, <1>6, <1>9, EncodedFits
<1>8. SameFrame(Encoded(q), page)
  BY <1>3, <1>7 DEF SameFrame
<1> QED
  BY <1>7, <1>8 DEF q

\* What is used of a stream that is on the page.
LEMMA UsedStream ==
    ASSUME PageFits(page), IsChannel(page.streams), NEW type \in Media, EncoderOnPage(page, type)
    PROVE  LET m == page.settings.profile[type]
           IN  /\ m.stream # -1 /\ m.source = 0 /\ Within(page.streams, m.stream)
               /\ At(page.streams, m.stream).type = type
               /\ Get(Encoders[type], m.encoder.coder) # NoCoder
<1> DEFINE m == page.settings.profile[type]
<1>1. /\ Within(page.streams, m.stream) /\ At(page.streams, m.stream).type = type
      /\ Get(Encoders[type], m.encoder.coder) # NoCoder
  BY DEF EncoderOnPage, EncodingShown, HasStream
<1>2. m.stream # -1
  <2>1. DOMAIN page.streams = 1..Len(page.streams)
    BY ListType DEF IsChannel
  <2> QED
    BY <1>1, <2>1 DEF Within
<1>3. m.source = 0
  BY <1>2 DEF PageFits, ProfileFits, Fits, IsMedia
<1> QED
  BY <1>1, <1>2, <1>3

\* Another encoder keeps the invariant.
LEMMA ChangeEncoderKeeps ==
    ASSUME PageSound(page), NEW type \in Media, NEW coder, ChangeEncoder(type, coder)
    PROVE  PageSound(page)'
<1> DEFINE m == page.settings.profile[type]
           c == Get(Encoders[type], coder)
           e == WithDefaults(c, StreamUsed(page, type), env)
           n == [m EXCEPT !.encoder = e]
           takes == TakenBy(page.service, env)
<1>1. /\ page.view = "page" /\ page.service # "" /\ EncoderOnPage(page, type)
      /\ coder \in EncoderList(page.streams, m, type, CodecsOf(page, type), env)
  BY DEF ChangeEncoder, Changed
<1>2. Show(Encoded(Put(page, type, n)))
  BY Zenon DEF ChangeEncoder, Put
<1>3. HasProfile(page) /\ PageFits(page) /\ IsChannel(page.streams)
  BY <1>1, OnPage
<1>4. /\ m.stream # -1 /\ m.source = 0 /\ Within(page.streams, m.stream)
      /\ At(page.streams, m.stream).type = type
  BY <1>1, <1>3, UsedStream
<1>5. CodecsOf(page, type) = takes[type]
  BY <1>3, Taken
<1>6. PICK d \in ToSet(Encoders[type]) :
         /\ d.coder = coder /\ d.codec \in takes[type]
         /\ d.coder = "copy" => At(page.streams, m.stream).codec \in takes[type]
  BY <1>1, <1>5 DEF EncoderList
<1>7. c \in ToSet(Encoders[type]) /\ c.coder = coder /\ c.codec \in takes[type]
  BY <1>6, Known
<1> HIDE DEF c, takes
<1>8. IsChosen(e, type) /\ e.coder = coder
  BY <1>7, DefaultsChoose
<1> HIDE DEF e
<1>9. HasFields(n, MediaFields) /\ n.encoder = e /\ n.source = m.source /\ n.stream = m.stream
  BY <1>3 DEF HasProfile, HasFields, MediaFields
<1> HIDE DEF n, m
<1>10. Get(Encoders[type], n.encoder.coder).codec \in takes[type]
  BY <1>7, <1>8, <1>9 DEF c
<1>11. n.encoder.coder = "copy" => At(page.streams, n.stream).codec \in takes[type]
  BY <1>6, <1>8, <1>9
<1>12. Fits(n, type, page.streams, takes, env)
  BY <1>4, <1>8, <1>9, <1>10, <1>11, FitsChanged
<1> QED
  <2>1. LET q == Encoded(Put(page, type, n))
        IN  PageFits(q) /\ HasProfile(q) /\ SameFrame(q, page)
    BY <1>3, <1>9, <1>12, OtherMedia DEF takes
  <2> QED
    BY <1>1, <1>2, <2>1, Showing

\* The decoder, the interval of key frames and the filters leave the choice as it is.
LEMMA SameMedia ==
    ASSUME PageFits(page), NEW type \in Media, NEW n, SameChoice(n, page.settings.profile[type]),
           n.encoder = page.settings.profile[type].encoder \/ IsChosen(n.encoder, type)
    PROVE  Fits(n, type, page.streams, TakenBy(page.service, env), env)
BY FitsAgain DEF PageFits, ProfileFits

\* Another decoder keeps it.
LEMMA ChangeDecoderKeeps ==
    ASSUME PageSound(page), NEW coder, ChangeDecoder(coder)
    PROVE  PageSound(page)'
<1> DEFINE type == "video"
           m == page.settings.profile[type]
           n == [m EXCEPT !.decoder = WithDefaults(Get(Decoders.video, coder), StreamUsed(page, "video"), env)]
<1>1. page.view = "page" /\ page.service # ""
  BY DEF ChangeDecoder, Changed
<1>2. Show(Encoded(Put(page, type, n)))
  BY Zenon DEF ChangeDecoder, Put
<1>3. HasProfile(page) /\ PageFits(page) /\ type \in Media
  BY <1>1, OnPage DEF Media
<1>4. SameChoice(n, m) /\ n.encoder = m.encoder
  BY <1>3 DEF HasProfile, HasFields, MediaFields, SameChoice
<1> HIDE DEF n, type
<1>5. Fits(n, type, page.streams, TakenBy(page.service, env), env)
  BY <1>3, <1>4, SameMedia
<1> QED
  <2>1. LET q == Encoded(Put(page, type, n))
        IN  PageFits(q) /\ HasProfile(q) /\ SameFrame(q, page)
    BY <1>3, <1>4, <1>5, OtherMedia DEF SameChoice
  <2> QED
    BY <1>1, <1>2, <2>1, Showing

\* Other key frames keep it.
LEMMA ChangeKeyFramesKeeps ==
    ASSUME PageSound(page), NEW gop, ChangeKeyFrames(gop)
    PROVE  PageSound(page)'
<1> DEFINE type == "video"
           m == page.settings.profile[type]
           e == WithKeyFrames(m.encoder, gop, StreamUsed(page, "video"), env)
           n == [m EXCEPT !.encoder = e]
<1>1. page.view = "page" /\ page.service # "" /\ EncoderOnPage(page, type)
  BY DEF ChangeKeyFrames, Changed
<1>2. Show(Encoded(Put(page, type, n)))
  BY Zenon DEF ChangeKeyFrames, Put
<1>3. HasProfile(page) /\ PageFits(page) /\ IsChannel(page.streams) /\ type \in Media
  BY <1>1, OnPage DEF Media
<1>4. Get(Encoders[type], m.encoder.coder) # NoCoder
  BY <1>1, <1>3, UsedStream
<1>5. IsEncoder(m.encoder, type)
  BY <1>3 DEF PageFits, ProfileFits, Fits, IsMedia
<1>6. IsChosen(e, type) /\ e.coder = m.encoder.coder
  BY <1>4, <1>5, KeyFramesChoose
<1> HIDE DEF e
<1>7. SameChoice(n, m) /\ n.encoder = e
  BY <1>3, <1>6 DEF HasProfile, HasFields, MediaFields, SameChoice
<1> HIDE DEF n, type
<1>8. Fits(n, type, page.streams, TakenBy(page.service, env), env)
  BY <1>3, <1>6, <1>7, SameMedia
<1> QED
  <2>1. LET q == Encoded(Put(page, type, n))
        IN  PageFits(q) /\ HasProfile(q) /\ SameFrame(q, page)
    BY <1>3, <1>7, <1>8, OtherMedia DEF SameChoice
  <2> QED
    BY <1>1, <1>2, <2>1, Showing

\* Other settings of a filter keep it.
LEMMA ChangeFilterSettingsKeeps ==
    ASSUME PageSound(page), NEW f, NEW s, ChangeFilterSettings(f, s)
    PROVE  PageSound(page)'
<1> DEFINE type == "video"
           m == page.settings.profile[type]
           n == [m EXCEPT !.filter = ChangeFilter(@, "video", f, s)]
           q == Put(page, type, n)
<1>1. page.view = "page" /\ page.service # ""
  BY DEF ChangeFilterSettings, Changed
<1>2. Show(q)
  BY Zenon DEF ChangeFilterSettings, Put
<1>3. HasProfile(page) /\ PageFits(page) /\ type \in Media
  BY <1>1, OnPage DEF Media
<1>4. SameChoice(n, m) /\ n.encoder = m.encoder
  BY <1>3 DEF HasProfile, HasFields, MediaFields, SameChoice
<1> HIDE DEF n, type
<1>5. /\ Alike(q, page) /\ q.settings.profile[type] = n
      /\ \A t \in Media \ {type} : q.settings.profile[t] = page.settings.profile[t]
  BY <1>3, <1>4, PutMedia DEF SameChoice
<1> HIDE DEF q
<1>6. ASSUME NEW t \in Media
      PROVE  SameChoice(q.settings.profile[t], page.settings.profile[t])
             /\ q.settings.profile[t].encoder = page.settings.profile[t].encoder
  BY <1>3, <1>4, <1>5 DEF SameChoice, HasProfile
<1>7. PageFits(q)
  BY <1>3, <1>5, <1>6, PageAgain
<1>8. HasProfile(q) /\ SameFrame(q, page)
  BY <1>5 DEF Alike, SamePage, SameFrame
<1> QED
  BY <1>1, <1>2, <1>7, <1>8, Showing

-----------------------------------------------------------------------------
(* Profiles that are loaded *)

\* A mapping that is loaded keeps its options.
LEMMA InitMappingKeeps ==
    ASSUME NEW m, HasFields(m, {"global", "local", "filter"}), "array" \notin DOMAIN m
    PROVE  LET n == InitMapping(m)
           IN  HasFields(n, {"global", "local", "filter"}) /\ "array" \notin DOMAIN n /\ n.local = m.local
<1>1. InitMapping(m) = Merged(m, NoMapping)
  BY DEF InitMapping
<1>2. DOMAIN NoMapping = {"global", "local", "filter"}
  BY DEF NoMapping
<1>3. DOMAIN Merged(m, NoMapping) = DOMAIN m
  <2>1. DOMAIN Merged(m, NoMapping) = DOMAIN m \cup DOMAIN NoMapping
    BY MergedFields
  <2> QED
    BY <1>2, <2>1 DEF HasFields
<1>4. Merged(m, NoMapping).local = m.local
  BY MergedStored DEF HasFields
<1> QED
  BY <1>1, <1>3, <1>4 DEF HasFields

\* So does a coder.
LEMMA InitCoderKeeps ==
    ASSUME NEW e, NEW type, IsEncoder(e, type), NEW coder
    PROVE  IsEncoder(InitCoder(e, coder), type) /\ InitCoder(e, coder).coder = e.coder
           /\ InitCoder(e, coder).mapping.local = e.mapping.local
<1> DEFINE d == [coder |-> coder, settings |-> Nothing, mapping |-> Nothing]
           c == Merged(e, d)
           n == InitCoder(e, coder)
           m == InitMapping(c.mapping)
<1>0. HasFields(e, {"coder", "settings", "mapping"}) /\ HasFields(e.mapping, {"global", "local", "filter"})
      /\ "array" \notin DOMAIN e.mapping
  BY DEF IsEncoder
<1>2. n = [c EXCEPT !.mapping = m]
  BY Zenon DEF InitCoder
<1> HIDE DEF d
<1>1. HasFields(c, {"coder", "settings", "mapping"}) /\ c.coder = e.coder /\ c.mapping = e.mapping
  <2>1. HasFields(c, {"coder", "settings", "mapping"})
    BY <1>0, MergedFields DEF HasFields
  <2>2. c.coder = e.coder /\ c.mapping = e.mapping
    BY <1>0, MergedStored DEF HasFields
  <2> QED
    BY <2>1, <2>2
<1>3. HasFields(m, {"global", "local", "filter"}) /\ "array" \notin DOMAIN m /\ m.local = e.mapping.local
  BY <1>0, <1>1, InitMappingKeeps
<1> HIDE DEF c, m, n, d
<1>4. HasFields(n, {"coder", "settings", "mapping"}) /\ n.coder = e.coder /\ n.mapping = m
  BY <1>1, <1>2 DEF HasFields
<1>5. IsEncoder(n, type)
  BY <1>3, <1>4 DEF IsEncoder
<1> QED
  BY <1>3, <1>4, <1>5 DEF n

\* A new coder chooses none.
LEMMA NewCoder == \A type \in Media : IsEncoder(InitCoder(Nothing, "none"), type)
<1> DEFINE d == [coder |-> "none", settings |-> Nothing, mapping |-> Nothing]
           c == Merged(Nothing, d)
           n == InitCoder(Nothing, "none")
           m == InitMapping(c.mapping)
<1>1. DOMAIN Nothing = {}
  BY DEF Nothing
<1>2. DOMAIN d = {"coder", "settings", "mapping"} /\ d.coder = "none" /\ d.mapping = Nothing
  OBVIOUS
<1>3. n = [c EXCEPT !.mapping = m]
  BY Zenon DEF InitCoder
<1> HIDE DEF d, n
<1>4. DOMAIN c = {"coder", "settings", "mapping"} /\ c.coder = "none" /\ c.mapping = Nothing
  <2>1. DOMAIN c = {"coder", "settings", "mapping"}
    <3>1. DOMAIN c = DOMAIN Nothing \cup DOMAIN d
      BY MergedFields
    <3> QED
      BY <1>1, <1>2, <3>1
  <2>2. c.coder = "none" /\ c.mapping = Nothing
    BY <1>1, <1>2, MergedDefault
  <2> QED
    BY <2>1, <2>2
<1>5. InitMapping(Nothing) = Merged(Nothing, NoMapping)
  BY <1>1 DEF InitMapping
<1>6. DOMAIN NoMapping = {"global", "local", "filter"} /\ NoMapping.local = <<>>
  BY DEF NoMapping
<1>7. DOMAIN m = {"global", "local", "filter"} /\ m.local = <<>>
  <2>1. m = Merged(Nothing, NoMapping)
    BY <1>4, <1>5
  <2>2. DOMAIN Merged(Nothing, NoMapping) = {"global", "local", "filter"}
    <3>1. DOMAIN Merged(Nothing, NoMapping) = DOMAIN Nothing \cup DOMAIN NoMapping
      BY MergedFields
    <3> QED
      BY <1>1, <1>6, <3>1
  <2>3. Merged(Nothing, NoMapping).local = <<>>
    BY <1>1, <1>6, MergedDefault
  <2> QED
    BY <2>1, <2>2, <2>3
<1> HIDE DEF c, m
<1>8. DOMAIN n = {"coder", "settings", "mapping"} /\ n.coder = "none" /\ n.mapping = m
  BY <1>3, <1>4
<1>9. IsList(<<>>) /\ \A name : OptionsNamed(<<>>, name) = {}
  BY NoOptions DEF Free, OptionsNamed
<1>10. ASSUME NEW type \in Media PROVE IsEncoder(n, type)
  BY <1>7, <1>8, <1>9 DEF IsEncoder, HasFields
<1> QED
  BY <1>10 DEF n

\* Stored video or audio stays what it is (initProfile).
LEMMA InitMediaKeeps ==
    ASSUME NEW m, NEW type, NEW takes, NEW ff, IsMedia(m, type, takes, ff)
    PROVE  IsMedia(InitMedia(m), type, takes, ff)
<1> DEFINE d == [source |-> -1, stream |-> -1, encoder |-> Nothing, decoder |-> Nothing, filter |-> Nothing]
           c == Merged(m, d)
           e == InitCoder(c.encoder, "none")
           n == InitMedia(m)
<1>1. HasFields(m, MediaFields)
  BY DEF IsMedia, MediaFields
<1>3. \E x, y : n = [[[c EXCEPT !.encoder = e] EXCEPT !.decoder = x] EXCEPT !.filter = y]
  BY DEF InitMedia
<1> HIDE DEF d
<1>2. HasFields(c, MediaFields) /\ c.source = m.source /\ c.stream = m.stream /\ c.encoder = m.encoder
  <2>1. HasFields(c, MediaFields)
    BY <1>1, MergedFields DEF HasFields
  <2>2. c.source = m.source /\ c.stream = m.stream /\ c.encoder = m.encoder
    BY <1>1, MergedStored DEF HasFields, MediaFields
  <2> QED
    BY <2>1, <2>2
<1>4. IsEncoder(e, type) /\ e.coder = m.encoder.coder /\ e.mapping.local = m.encoder.mapping.local
  BY <1>2, InitCoderKeeps DEF IsMedia
<1> HIDE DEF d, c, e, n
<1>5. HasFields(n, MediaFields) /\ n.source = m.source /\ n.stream = m.stream /\ n.encoder = e
  BY <1>2, <1>3 DEF HasFields, MediaFields
<1>6. IsMedia(n, type, takes, ff)
  BY <1>4, <1>5 DEF IsMedia, MediaFields
<1> QED
  BY <1>6 DEF n

\* New video or audio has no stream.
LEMMA NewMedia ==
    ASSUME NEW type \in Media, NEW takes, NEW ff
    PROVE  IsMedia(InitMedia(Nothing), type, takes, ff)
<1> DEFINE d == [source |-> -1, stream |-> -1, encoder |-> Nothing, decoder |-> Nothing, filter |-> Nothing]
           c == Merged(Nothing, d)
           e == InitCoder(c.encoder, "none")
           n == InitMedia(Nothing)
<1>1. DOMAIN Nothing = {} /\ DOMAIN d = MediaFields /\ d.stream = -1 /\ d.encoder = Nothing
  BY DEF Nothing, MediaFields
<1>3. \E x, y : n = [[[c EXCEPT !.encoder = e] EXCEPT !.decoder = x] EXCEPT !.filter = y]
  BY DEF InitMedia
<1> HIDE DEF d
<1>2. HasFields(c, MediaFields) /\ c.stream = -1 /\ c.encoder = Nothing
  <2>1. HasFields(c, MediaFields)
    BY <1>1, MergedFields DEF HasFields
  <2>2. c.stream = -1 /\ c.encoder = Nothing
    BY <1>1, MergedDefault DEF MediaFields
  <2> QED
    BY <2>1, <2>2
<1>4. IsEncoder(e, type)
  BY <1>2, NewCoder
<1> HIDE DEF c, e, n
<1>5. HasFields(n, MediaFields) /\ n.stream = -1 /\ n.encoder = e
  BY <1>2, <1>3 DEF HasFields, MediaFields
<1>6. IsMedia(n, type, takes, ff)
  BY <1>4, <1>5 DEF IsMedia, MediaFields
<1> QED
  BY <1>6 DEF n

\* What initProfile does to the video and audio of a profile.
LEMMA InitProfileIs ==
    ASSUME NEW p
    PROVE  LET s == Merged(p, [video |-> Nothing, audio |-> Nothing, custom |-> Nothing])
               q == InitProfile(p)
           IN  /\ DOMAIN q = {"video", "audio", "custom"}
               /\ q["audio"] = InitMedia(s["audio"])
               /\ \E x : q["video"] = [InitMedia(s["video"]) EXCEPT !.filter = x]
<1> DEFINE s == Merged(p, [video |-> Nothing, audio |-> Nothing, custom |-> Nothing])
           q == InitProfile(p)
           a == InitMedia(s.audio)
           v == InitMedia(s.video)
<1>1. \E y : q = [video |-> [v EXCEPT !.filter = RepairTimestamps(@)], audio |-> a, custom |-> y]
  BY Zenon DEF InitProfile
<1> HIDE DEF s, q, a, v
<1>2. /\ DOMAIN q = {"video", "audio", "custom"} /\ q["audio"] = a
      /\ q["video"] = [v EXCEPT !.filter = RepairTimestamps(@)]
  BY <1>1
<1> QED
  BY <1>2 DEF s, q, a, v

\* Other filters leave the choice.
LEMMA FilterOnly ==
    ASSUME NEW m, NEW type, NEW takes, NEW ff, IsMedia(m, type, takes, ff), NEW x
    PROVE  IsMedia([m EXCEPT !.filter = x], type, takes, ff)
<1> DEFINE n == [m EXCEPT !.filter = x]
<1>1. DOMAIN n = DOMAIN m /\ n.source = m.source /\ n.stream = m.stream /\ n.encoder = m.encoder
  BY DEF IsMedia, HasFields
<1> HIDE DEF n
<1>2. IsMedia(n, type, takes, ff)
  BY <1>1 DEF IsMedia, HasFields
<1> QED
  BY <1>2 DEF n

\* A profile that is loaded, or a new one, has video and audio with encoders that choose themselves.
LEMMA InitProfileKeeps ==
    ASSUME NEW p, NEW takes, NEW ff,
           \/ HasFields(p, Media) /\ \A type \in Media : IsMedia(p[type], type, takes, ff)
           \/ p = Nothing
    PROVE  HasFields(InitProfile(p), Media)
           /\ \A type \in Media : IsMedia(InitProfile(p)[type], type, takes, ff)
<1> DEFINE d == [video |-> Nothing, audio |-> Nothing, custom |-> Nothing]
           s == Merged(p, d)
           q == InitProfile(p)
<1>1. /\ DOMAIN q = {"video", "audio", "custom"} /\ q["audio"] = InitMedia(s["audio"])
      /\ \E x : q["video"] = [InitMedia(s["video"]) EXCEPT !.filter = x]
  BY InitProfileIs
<1>2. DOMAIN d = {"video", "audio", "custom"} /\ d["video"] = Nothing /\ d["audio"] = Nothing
  OBVIOUS
<1> HIDE DEF d
<1>3. ASSUME NEW type \in Media PROVE IsMedia(InitMedia(s[type]), type, takes, ff)
  <2>1. CASE HasFields(p, Media) /\ \A t \in Media : IsMedia(p[t], t, takes, ff)
    <3>1. s[type] = p[type]
      BY <2>1, MergedFields, MergedStored, MergedDefault DEF HasFields
    <3> QED
      BY <2>1, <3>1, InitMediaKeeps
  <2>2. CASE p = Nothing
    <3>1. DOMAIN p = {}
      BY <2>2 DEF Nothing
    <3>2. s[type] = Nothing
      BY <1>2, <3>1, MergedDefault DEF Media
    <3> QED
      BY <3>2, NewMedia
  <2> QED
    BY <2>1, <2>2
<1> HIDE DEF s, q
<1>4. IsMedia(q["audio"], "audio", takes, ff)
  BY <1>1, <1>3 DEF Media
<1>5. IsMedia(q["video"], "video", takes, ff)
  BY <1>1, <1>3, FilterOnly DEF Media
<1> QED
  BY <1>1, <1>4, <1>5 DEF Media, HasFields, q

-----------------------------------------------------------------------------
(* preselectProfile *)

\* The first stream of a type is of this type.
LEMMA FirstFound ==
    ASSUME NEW streams, IsChannel(streams), NEW type
    PROVE  LET i == First(streams, type)
           IN  IF type \in Types(streams)
               THEN i # -1 /\ Within(streams, i) /\ At(streams, i).type = type
               ELSE i = -1
<1> DEFINE i == First(streams, type)
<1>1. CASE type \notin Types(streams)
  BY <1>1 DEF First
<1>2. CASE type \in Types(streams)
  <2> DEFINE l == CHOOSE k \in DOMAIN streams :
                     streams[k].type = type /\ \A j \in 1..(k - 1) : streams[j].type # type
  <2>1. DOMAIN streams = 1..Len(streams) /\ Len(streams) \in Nat
    BY ListType DEF IsChannel
  <2>2. PICK k \in DOMAIN streams : streams[k].type = type
    BY <1>2 DEF Types
  <2>3. \A j \in 1..(k - 1) : j \in DOMAIN streams /\ j # k
    BY <2>1
  <2>4. \A j \in 1..(k - 1) : streams[j].type # type
    BY <2>2, <2>3 DEF IsChannel
  <2>5. l \in DOMAIN streams /\ streams[l].type = type
    BY <2>2, <2>4
  <2>6. i = l - 1
    BY <1>2 DEF First
  <2> HIDE DEF l, i
  <2>7. l \in 1..Len(streams) /\ i + 1 = l /\ i # -1
    BY <2>1, <2>5, <2>6
  <2> QED
    BY <1>2, <2>5, <2>7 DEF i, Within, At
<1> QED
  BY <1>1, <1>2

\* The coder that copies a stream is in both registries.
LEMMA CopyCoders ==
    ASSUME NEW type \in Media
    PROVE  LET c == Get(Encoders[type], "copy")
           IN  c \in ToSet(Encoders[type]) /\ c.coder = "copy" /\ c.codec = "copy"
<1>1. /\ VideoCopy \in ToSet(Encoders["video"]) /\ VideoCopy.coder = "copy" /\ VideoCopy.codec = "copy"
      /\ AudioCopy \in ToSet(Encoders["audio"]) /\ AudioCopy.coder = "copy" /\ AudioCopy.codec = "copy"
  <2>1. VideoCopy.coder = "copy" /\ VideoCopy.codec = "copy"
    BY DEF VideoCopy, Video
  <2>2. AudioCopy.coder = "copy" /\ AudioCopy.codec = "copy"
    BY DEF AudioCopy, Audio
  <2>3. Encoders.video = Encoders["video"] /\ Encoders.audio = Encoders["audio"]
    OBVIOUS
  <2> QED
    BY <2>1, <2>2, <2>3, VideoRegistry, AudioRegistry
<1>2. \E c \in ToSet(Encoders[type]) : c.coder = "copy" /\ c.codec = "copy"
  BY <1>1 DEF Media
<1> QED
  BY <1>2, Known

\* A coder of a stream with its defaults, for a codec the service takes.
LEMMA FitsDefaults ==
    ASSUME NEW type \in Media, NEW n, NEW streams, NEW takes, HasFields(n, MediaFields),
           n.source = 0, n.stream # -1, Within(streams, n.stream), At(streams, n.stream).type = type,
           NEW c \in ToSet(Encoders[type]), NEW stream, n.encoder = WithDefaults(c, stream, env),
           c.codec \in takes[type], c.coder = "copy" => At(streams, n.stream).codec \in takes[type]
    PROVE  Fits(n, type, streams, takes, env)
<1> DEFINE e == WithDefaults(c, stream, env)
<1>1. IsChosen(e, type) /\ e.coder = c.coder
  BY DefaultsChoose
<1>2. Get(Encoders[type], c.coder).codec = c.codec
  BY Known
<1> HIDE DEF e
<1>3. IsChosen(n.encoder, type) /\ n.encoder.coder = c.coder
  BY <1>1 DEF e
<1> QED
  BY <1>2, <1>3, FitsChanged

\* Without a stream nothing is made.
LEMMA NoneKeeps ==
    ASSUME NEW e, NEW type, IsEncoder(e, type)
    PROVE  LET n == [e EXCEPT !.coder = "none"] IN IsEncoder(n, type) /\ n.coder = "none"
<1> DEFINE n == [e EXCEPT !.coder = "none"]
<1>1. DOMAIN n = DOMAIN e /\ n.coder = "none" /\ n.mapping = e.mapping
  BY DEF IsEncoder, HasFields
<1> HIDE DEF n
<1> QED
  BY <1>1 DEF IsEncoder, HasFields, n

\* The coder that is preselected for a stream fits the service, or ffmpeg has none (preselectProfile).
LEMMA FirstCoderFits ==
    ASSUME NEW type \in Media, NEW m, NEW n, NEW streams, NEW takes, NEW codecs,
           IsEncoder(m.encoder, type), HasFields(n, MediaFields), n.source = 0, n.stream # -1,
           Within(streams, n.stream), At(streams, n.stream).type = type,
           n.encoder = FirstCoder(m, type, At(streams, n.stream), codecs),
           DOMAIN codecs \subseteq Nat, takes[type] = ToSet(codecs), codecs[0] = "copy",
           0 \in DOMAIN codecs
    PROVE  Fits(n, type, streams, takes, env)
<1> DEFINE stream == At(streams, n.stream)
           CoderOf(i) == GetCoderForCodec(Encoders[type], codecs[i], env.encoders[type])
           can == { i \in DOMAIN codecs : codecs[i] # "copy" /\ CoderOf(i) # NoCoder }
           l == CHOOSE i \in can : \A j \in can : i <= j
<1>1. n.encoder = IF stream.codec \in ToSet(codecs)
                  THEN WithDefaults(Get(Encoders[type], "copy"), stream, env)
                  ELSE IF can = {} THEN [m.encoder EXCEPT !.coder = "none"]
                  ELSE WithDefaults(CoderOf(l), stream, env)
  BY Zenon DEF FirstCoder
<1>2. can \subseteq Nat
  OBVIOUS
<1>3. can # {} => l \in can
  BY <1>2, Least
<1>4. \A i \in DOMAIN codecs : codecs[i] \in takes[type]
  BY DEF ToSet
<1>5. \A i \in can : i \in DOMAIN codecs /\ codecs[i] # "copy" /\ CoderOf(i) # NoCoder
  OBVIOUS
<1>6. can = {} => ~HasCoder(takes, type, env)
  <2> SUFFICES ASSUME HasCoder(takes, type, env) PROVE can # {}
    OBVIOUS
  <2>1. PICK c \in takes[type] \ {"copy"} :
           GetCoderForCodec(Encoders[type], c, env.encoders[type]) # NoCoder
    BY DEF HasCoder
  <2>2. PICK i \in DOMAIN codecs : codecs[i] = c
    BY <2>1 DEF ToSet
  <2>3. i \in can
    BY <2>1, <2>2
  <2> QED
    BY <2>3
<1> HIDE DEF can, l, stream
<1>7. CASE stream.codec \in ToSet(codecs)
  <2> DEFINE c == Get(Encoders[type], "copy")
  <2>1. c \in ToSet(Encoders[type]) /\ c.coder = "copy" /\ c.codec = "copy"
    BY CopyCoders
  <2>2. n.encoder = WithDefaults(c, stream, env)
    BY <1>1, <1>7
  <2> HIDE DEF c
  <2>3. c.codec \in takes[type]
    BY <1>4, <2>1
  <2>4. At(streams, n.stream).codec \in takes[type]
    BY <1>7 DEF stream
  <2> QED
    BY <2>1, <2>2, <2>3, <2>4, FitsDefaults
<1>8. CASE stream.codec \notin ToSet(codecs) /\ can = {}
  <2>1. n.encoder = [m.encoder EXCEPT !.coder = "none"]
    BY <1>1, <1>8
  <2>2. IsEncoder(n.encoder, type) /\ n.encoder.coder = "none"
    BY <2>1, NoneKeeps
  <2> QED
    BY <1>6, <1>8, <2>2 DEF Fits, IsMedia, MediaFields, Suits
<1>9. CASE stream.codec \notin ToSet(codecs) /\ can # {}
  <2> DEFINE c == CoderOf(l)
  <2>1. l \in DOMAIN codecs /\ codecs[l] # "copy" /\ c # NoCoder
    BY <1>3, <1>5, <1>9
  <2>2. c \in ToSet(Encoders[type]) /\ c.codec = codecs[l]
    BY <2>1, FoundForCodec
  <2>3. n.encoder = WithDefaults(c, stream, env)
    BY <1>1, <1>9
  <2> HIDE DEF c
  <2>4. c.codec \in takes[type] /\ c.coder # "copy"
    BY <1>4, <2>1, <2>2, Coder DEF Makes
  <2> QED
    BY <2>2, <2>3, <2>4, FitsDefaults
<1> QED
  BY <1>7, <1>8, <1>9

\* What is preselected fits: what was chosen if the service still takes it, or the first coder.
LEMMA PreselectFits ==
    ASSUME NEW id \in Names, NEW type \in Media, NEW m, NEW streams, IsChannel(streams),
           IsMedia(m, type, TakenBy(id, env), env)
    PROVE  Fits(PreselectFor(ConflateServiceSkills(id, env), m, type, streams), type, streams,
                TakenBy(id, env), env)
<1> DEFINE skills == ConflateServiceSkills(id, env)
           takes == TakenBy(id, env)
           codecs == skills.codecs[type]
           i == First(streams, type)
           e == IF i = -1 THEN [m.encoder EXCEPT !.coder = "none"]
                ELSE FirstCoder(m, type, At(streams, i), codecs)
           n == [m EXCEPT !.source = 0, !.stream = i, !.encoder = e]
           p == Plausible(streams, m, type, ToSet(codecs), Encoders[type])
<1>1. PreselectFor(skills, m, type, streams) = IF p THEN m ELSE n
  BY Zenon DEF PreselectFor
<1>2. /\ DOMAIN codecs \subseteq Nat /\ ToSet(codecs) = takes[type]
      /\ "null" \notin ToSet(codecs) /\ codecs[0] = "copy" /\ 0 \in DOMAIN codecs
  BY Skills
<1>3. IF type \in Types(streams) THEN i # -1 /\ Within(streams, i) /\ At(streams, i).type = type
      ELSE i = -1
  BY FirstFound
<1> HIDE DEF takes, codecs, i, skills
<1>4. CASE p
  <2>1. /\ Within(streams, m.stream) /\ At(streams, m.stream).type = type
        /\ IF m.encoder.coder = "copy" THEN At(streams, m.stream).codec \in takes[type]
           ELSE Get(Encoders[type], m.encoder.coder).codec \in takes[type]
    BY <1>2, <1>4 DEF Plausible
  <2>2. m.stream # -1
    <3>1. DOMAIN streams = 1..Len(streams)
      BY ListType DEF IsChannel
    <3> QED
      BY <2>1, <3>1 DEF Within
  <2>3. Fits(m, type, streams, takes, env)
    BY <2>1, <2>2 DEF Fits, Suits, takes
  <2> QED
    BY <1>1, <1>4, <2>3 DEF takes, skills
<1>5. CASE ~p
  <2>1. HasFields(m, MediaFields) /\ IsEncoder(m.encoder, type)
    BY DEF IsMedia, MediaFields
  <2> HIDE DEF e
  <2>2. HasFields(n, MediaFields) /\ n.source = 0 /\ n.stream = i /\ n.encoder = e
    BY <2>1 DEF HasFields, MediaFields
  <2> HIDE DEF n
  <2>3. Fits(n, type, streams, takes, env)
    <3>1. CASE i = -1
      <4>1. n.encoder = [m.encoder EXCEPT !.coder = "none"]
        BY <2>2, <3>1 DEF e
      <4>2. IsEncoder(n.encoder, type) /\ n.encoder.coder = "none"
        BY <2>1, <4>1, NoneKeeps
      <4> QED
        BY <1>3, <2>2, <3>1, <4>2 DEF Fits, IsMedia, MediaFields, Suits
    <3>2. CASE i # -1
      <4>1. n.encoder = FirstCoder(m, type, At(streams, n.stream), codecs)
        BY <2>2, <3>2 DEF e
      <4>2. n.stream # -1 /\ Within(streams, n.stream) /\ At(streams, n.stream).type = type
        BY <1>3, <2>2, <3>2
      <4> QED
        BY <1>2, <2>1, <2>2, <4>1, <4>2, FirstCoderFits
    <3> QED
      BY <3>1, <3>2
  <2> QED
    BY <1>1, <1>5, <2>3 DEF takes, skills
<1> QED
  BY <1>4, <1>5

\* A profile is preselected that fits its service, whatever profile it was.
LEMMA Preselects ==
    ASSUME NEW id \in Names, NEW p, NEW streams, IsChannel(streams), HasFields(p, Media),
           \A type \in Media : IsMedia(p[type], type, TakenBy(id, env), env)
    PROVE  ProfileFits(id, PreselectedFor(ConflateServiceSkills(id, env), p, streams), streams, env)
<1> DEFINE skills == ConflateServiceSkills(id, env)
           v == PreselectFor(skills, p["video"], "video", streams)
           a == PreselectFor(skills, p["audio"], "audio", streams)
           q == PreselectedFor(skills, p, streams)
<1>1. q = [[p EXCEPT !.video = v] EXCEPT !.audio = a]
  BY DEF PreselectedFor
<1>2. Fits(v, "video", streams, TakenBy(id, env), env)
  BY PreselectFits DEF Media
<1>3. Fits(a, "audio", streams, TakenBy(id, env), env)
  BY PreselectFits DEF Media
<1> HIDE DEF v, a, q
<1>4. HasFields(q, Media) /\ q["video"] = v /\ q["audio"] = a
  BY <1>1 DEF HasFields, Media
<1>5. ProfileFits(id, q, streams, env)
  BY <1>2, <1>3, <1>4 DEF ProfileFits, Media
<1> QED
  BY <1>5 DEF q

-----------------------------------------------------------------------------
(* Pages that are opened *)

\* A new profile has encoders that choose themselves.
LEMMA NewProfile ==
    ASSUME NEW takes, NEW ff
    PROVE  HasFields(InitProfile(Nothing), Media)
           /\ \A type \in Media : IsMedia(InitProfile(Nothing)[type], type, takes, ff)
BY InitProfileKeeps

\* The settings a page begins with.
LEMMA SettingsAtFirst ==
    /\ HasFields(NewSettings, SettingsFields) /\ NewSettings.outputs = <<>> /\ NewSettings.settings = NoSettings
    /\ NewSettings.profile = InitProfile(Nothing)
BY DEF NewSettings, HasFields, SettingsFields

\* The page of Add.js, as it is loaded.
LEMMA PageAtFirst ==
    /\ HasFields(NewPage, PageFields) /\ NewPage.view = "page" /\ NewPage.id = "" /\ NewPage.service = ""
    /\ NewPage.streams = core.streams /\ NewPage.settings = NewSettings
BY DEF NewPage, HasFields, PageFields

\* The page of a new publication keeps the invariant.
LEMMA OpenAddKeeps ==
    ASSUME EnvSound, CoreSound, OpenAdd
    PROVE  PageSound(page)'
<1>1. page' = NewPage /\ core.egress = NoEgress /\ UNCHANGED core
  BY DEF OpenAdd
<1>2. page'.streams = core.streams /\ page'.settings = NewSettings /\ page'.id = "" /\ page'.service = ""
      /\ HasFields(page', PageFields)
  BY <1>1, PageAtFirst
<1>3. IsChannel(page'.streams) /\ HasFields(page'.settings, SettingsFields)
  BY <1>2, SettingsAtFirst DEF CoreSound
<1>4. SamePublication(page)'
  BY <1>1 DEF SamePublication
<1> QED
  BY <1>2, <1>3, <1>4 DEF PageSound

\* The outputs that are stored for the streams that are there now.
LEMMA OutputsStay ==
    ASSUME NEW id \in Names, NEW ff, NEW old, NEW o, OutputsFit(id, old, o, ff),
           NEW new, new.outputs = old.outputs, new.settings = old.settings, NEW n,
           o \/ new.streams # old.streams => n
    PROVE  OutputsFit(id, new, n, ff)
<1>1. CASE id \notin WithCreateOutputs
  BY <1>1, OtherStreams
<1>2. CASE id \in WithCreateOutputs
  <2>1. IsOutputs(new.outputs)
    BY FitOutputs
  <2> QED
    BY <1>2, <2>1 DEF OutputsFit
<1> QED
  BY <1>1, <1>2

\* The page of a publication keeps it: with other streams than before, the outputs of Icecast are outdated.
LEMMA OpenEditKeeps ==
    ASSUME EnvSound, CoreSound, OpenEdit
    PROVE  PageSound(page)'
<1> DEFINE e == core.egress
           stored == [e.meta EXCEPT !.profile = InitProfile(@)]
           skills == ConflateServiceSkills(e.service, env)
           profile == PreselectedFor(skills, stored.profile, core.streams)
           s == [stored EXCEPT !.profile = profile]
           p == [NewPage EXCEPT !.id = "egress", !.service = e.service, !.skills = skills, !.settings = s]
           streams == OutputStreams(SourcesOf(p), profile)
           outdated == e.outdated \/ streams # stored.streams
           q == [p EXCEPT !.settings.streams = streams, !.outdated = outdated]
<1>1. page' = q /\ e # NoEgress /\ UNCHANGED <<env, core>>
  BY Zenon DEF OpenEdit
<1>2. IsPublication(e, env) /\ IsChannel(core.streams)
  BY <1>1 DEF CoreSound
<1>3. /\ e.service \in Names /\ HasFields(e.meta, SettingsFields)
      /\ OutputsFit(e.service, e.meta, e.outdated, env) /\ SettingsFit(e.service, e.meta.settings)
      /\ \A type \in Media : IsMedia(InitProfile(e.meta.profile)[type], type, TakenBy(e.service, env), env)
  BY <1>2 DEF IsPublication, SettingsFields
<1>4. HasFields(InitProfile(e.meta.profile), Media)
  BY InitProfileIs DEF HasFields, Media
<1> HIDE DEF e
<1>5. /\ DOMAIN stored = DOMAIN e.meta /\ stored.profile = InitProfile(e.meta.profile)
      /\ stored.streams = e.meta.streams /\ stored.outputs = e.meta.outputs /\ stored.settings = e.meta.settings
  BY <1>3 DEF HasFields, SettingsFields
<1> HIDE DEF stored
<1>6. ProfileFits(e.service, profile, core.streams, env)
  BY <1>2, <1>3, <1>4, <1>5, Preselects
<1> HIDE DEF profile
<1>7. /\ DOMAIN s = DOMAIN stored /\ s.profile = profile /\ s.streams = stored.streams
      /\ s.outputs = stored.outputs /\ s.settings = stored.settings
  BY <1>3, <1>5 DEF HasFields, SettingsFields
<1> HIDE DEF s, skills
<1>8. /\ HasFields(p, PageFields) /\ p.view = "page" /\ p.id = "egress" /\ p.service = e.service
      /\ p.skills = skills /\ p.streams = core.streams /\ p.settings = s
  BY PageAtFirst DEF HasFields, PageFields
<1> HIDE DEF p
<1>9. Listed(streams, profile, core.streams)
  BY <1>6, <1>8, StreamsListed
<1> HIDE DEF streams, outdated
<1>10. /\ HasFields(q, PageFields) /\ q.id = "egress" /\ q.service = e.service /\ q.skills = skills
       /\ q.streams = core.streams /\ q.outdated = outdated /\ q.view = "page"
       /\ q.settings = [s EXCEPT !.streams = streams]
  BY <1>8 DEF HasFields, PageFields
<1> HIDE DEF q
<1>11. /\ HasFields(q.settings, SettingsFields) /\ q.settings.profile = profile
       /\ q.settings.streams = streams /\ q.settings.outputs = e.meta.outputs
       /\ q.settings.settings = e.meta.settings
  BY <1>3, <1>5, <1>7, <1>10 DEF HasFields, SettingsFields
<1>12. OutputsFit(e.service, q.settings, outdated, env)
  <2>1. e.outdated \/ q.settings.streams # e.meta.streams => outdated
    BY <1>5, <1>11 DEF outdated
  <2> QED
    BY <1>3, <1>11, <2>1, OutputsStay
<1>13. PageFits(q)
  BY <1>3, <1>6, <1>9, <1>10, <1>11, <1>12 DEF PageFits, skills
<1>14. PageFits(page)'
  BY <1>1, <1>13 DEF PageFits
<1>15. SamePublication(page)'
  BY <1>1, <1>10 DEF SamePublication, e
<1>16. e.service # ""
  BY <1>3 DEF Names
<1> QED
  BY <1>1, <1>2, <1>10, <1>11, <1>14, <1>15, <1>16 DEF PageSound

\* A service that is selected gets a profile that fits it.
LEMMA SelectServiceKeeps ==
    ASSUME EnvSound, CoreSound, PageSound(page), NEW id, SelectService(id)
    PROVE  PageSound(page)'
<1> DEFINE skills == ConflateServiceSkills(id, env)
           profile == PreselectedFor(skills, page.settings.profile, page.streams)
           p == [page EXCEPT !.service = id, !.skills = skills, !.tab = "general",
                     !.settings.profile = PreselectedFor(skills, @, page.streams)]
           streams == OutputStreams(SourcesOf(p), p.settings.profile)
           q == [p EXCEPT !.settings.streams = streams]
           s == [page.settings EXCEPT !.profile = profile]
<1>1. /\ page.view = "page" /\ page.id = "" /\ page.service = "" /\ id \in env.services
      /\ page' = q /\ UNCHANGED <<env, core>>
  BY Zenon DEF SelectService
<1>2. id \in Names /\ id # ""
  BY <1>1 DEF EnvSound, Names
<1>3. /\ HasFields(page, PageFields) /\ HasFields(page.settings, SettingsFields)
      /\ IsChannel(page.streams) /\ SamePublication(page) /\ page.settings = NewSettings
  BY <1>1 DEF PageSound
<1>4. ProfileFits(id, profile, page.streams, env)
  BY <1>2, <1>3, NewProfile, SettingsAtFirst, Preselects
<1>5. p = [page EXCEPT !.service = id, !.skills = skills, !.tab = "general", !.settings = s]
  BY Zenon
<1> HIDE DEF profile
<1>6. DOMAIN s = DOMAIN page.settings /\ s.profile = profile /\ s.outputs = <<>> /\ s.settings = NoSettings
  BY <1>3, SettingsAtFirst DEF HasFields, SettingsFields
<1> HIDE DEF s, skills, p
<1>7. /\ HasFields(p, PageFields) /\ p.view = "page" /\ p.id = "" /\ p.service = id /\ p.skills = skills
      /\ p.streams = page.streams /\ p.settings = s
  BY <1>1, <1>3, <1>5 DEF HasFields, PageFields
<1>8. Listed(streams, profile, page.streams)
  BY <1>4, <1>6, <1>7, StreamsListed
<1> HIDE DEF streams
<1>9. /\ HasFields(q, PageFields) /\ q.id = "" /\ q.service = id /\ q.skills = skills
      /\ q.streams = page.streams /\ q.view = "page" /\ q.settings = [s EXCEPT !.streams = streams]
  BY <1>7 DEF HasFields, PageFields
<1> HIDE DEF q
<1>10. /\ HasFields(q.settings, SettingsFields) /\ q.settings.profile = profile
       /\ q.settings.streams = streams /\ q.settings.outputs = <<>> /\ q.settings.settings = NoSettings
  BY <1>3, <1>6, <1>9 DEF HasFields, SettingsFields
<1>11. OutputsFit(id, q.settings, q.outdated, env)
  BY <1>10 DEF OutputsFit
<1>12. PageFits(q)
  BY <1>2, <1>4, <1>8, <1>9, <1>10, <1>11, NothingFits DEF PageFits, skills
<1>13. PageFits(page)'
  BY <1>1, <1>12 DEF PageFits
<1>14. SamePublication(page)'
  BY <1>1, <1>3, <1>9 DEF SamePublication
<1> QED
  BY <1>1, <1>2, <1>3, <1>9, <1>10, <1>13, <1>14 DEF PageSound

\* Back to the list keeps the invariant.
LEMMA BackKeeps ==
    ASSUME PageSound(page), Back
    PROVE  PageSound(page)'
<1>1. /\ page.view = "page" /\ page.id = "" /\ UNCHANGED <<env, core>>
      /\ page' = [page EXCEPT !.service = "", !.skills = NoSkills, !.settings = NewSettings]
  BY DEF Back
<1>2. HasFields(page, PageFields) /\ IsChannel(page.streams) /\ SamePublication(page)
  BY <1>1 DEF PageSound
<1>3. /\ HasFields(page', PageFields) /\ page'.id = "" /\ page'.service = "" /\ page'.streams = page.streams
      /\ page'.settings = NewSettings
  BY <1>1, <1>2 DEF HasFields, PageFields
<1>4. HasFields(page'.settings, SettingsFields)
  BY <1>3, SettingsAtFirst
<1>5. SamePublication(page)'
  BY <1>1, <1>2 DEF SamePublication
<1> QED
  BY <1>2, <1>3, <1>4, <1>5 DEF PageSound

-----------------------------------------------------------------------------
(* Saving *)

\* Outputs that fit still fit when more of them is outdated.
LEMMA OutputsKept ==
    ASSUME NEW id, NEW ff, NEW settings, NEW o, OutputsFit(id, settings, o, ff), NEW n, o => n
    PROVE  OutputsFit(id, settings, n, ff)
BY DEF OutputsFit

\* What is stored of the settings fits the service.
LEMMA StoredFits ==
    ASSUME EnvSound, CoreSound, PageSound(page), page.view = "page", page.service # "",
           NEW stored \in BOOLEAN, NEW meta, NEW outdated,
           meta = IF stored THEN page.settings
                  ELSE IF core.egress = NoEgress THEN NewSettings ELSE core.egress.meta,
           page.outdated => outdated,
           ~stored /\ core.egress # NoEgress /\ core.egress.outdated => outdated
    PROVE  /\ HasFields(meta, SettingsFields)
           /\ \A type \in Media :
                 IsMedia(InitProfile(meta.profile)[type], type, TakenBy(page.service, env), env)
           /\ OutputsFit(page.service, meta, outdated, env)
           /\ SettingsFit(page.service, meta.settings)
<1> DEFINE takes == TakenBy(page.service, env)
<1>1. /\ HasFields(page.settings, SettingsFields) /\ PageFits(page) /\ SamePublication(page)
      /\ page.service \in Names
  BY DEF PageSound, PageFits
<1> HIDE DEF takes
<1>2. CASE stored
  <2>1. meta = page.settings
    BY <1>2
  <2>2. HasFields(meta.profile, Media) /\ \A type \in Media : IsMedia(meta.profile[type], type, takes, env)
    BY <1>1, <2>1 DEF PageFits, ProfileFits, Fits, takes
  <2>3. \A type \in Media : IsMedia(InitProfile(meta.profile)[type], type, takes, env)
    BY <2>2, InitProfileKeeps
  <2>4. OutputsFit(page.service, meta, page.outdated, env) /\ (page.outdated => outdated)
    BY <1>1, <2>1 DEF PageFits
  <2>5. OutputsFit(page.service, meta, outdated, env)
    BY <2>1, <2>4, OutputsKept
  <2>6. SettingsFit(page.service, meta.settings)
    BY <1>1, <2>1 DEF PageFits
  <2> QED
    BY <1>1, <2>1, <2>3, <2>5, <2>6 DEF takes
<1>3. CASE ~stored /\ core.egress = NoEgress
  <2>1. meta = NewSettings
    BY <1>3
  <2>2. /\ HasFields(meta, SettingsFields) /\ meta.outputs = <<>> /\ meta.profile = InitProfile(Nothing)
        /\ meta.settings = NoSettings
    BY <2>1, SettingsAtFirst
  <2>3. HasFields(meta.profile, Media) /\ \A type \in Media : IsMedia(meta.profile[type], type, takes, env)
    BY <2>2, NewProfile
  <2>4. \A type \in Media : IsMedia(InitProfile(meta.profile)[type], type, takes, env)
    BY <2>3, InitProfileKeeps
  <2> QED
    BY <2>2, <2>4, NothingFits DEF takes, OutputsFit
<1>4. CASE ~stored /\ core.egress # NoEgress
  <2>1. meta = core.egress.meta /\ core.egress.service = page.service
    BY <1>1, <1>4 DEF SamePublication
  <2>2. IsPublication(core.egress, env)
    BY <1>4 DEF CoreSound
  <2>3. /\ HasFields(meta, SettingsFields)
        /\ \A type \in Media : IsMedia(InitProfile(meta.profile)[type], type, takes, env)
        /\ OutputsFit(page.service, meta, core.egress.outdated, env)
        /\ SettingsFit(page.service, meta.settings)
    BY <2>1, <2>2 DEF IsPublication, SettingsFields, takes
  <2>4. core.egress.outdated => outdated
    BY <1>4
  <2>5. OutputsFit(page.service, meta, outdated, env)
    BY <2>3, <2>4 DEF OutputsFit
  <2> QED
    BY <2>3, <2>5 DEF takes
<1> QED
  BY <1>2, <1>3, <1>4

\* What is known of a publication that is sent.
LEMMA EgressFields ==
    ASSUME NEW p, NEW io, NEW meta, NEW stored
    PROVE  LET e == EgressProcess(p, io, meta, stored)
           IN  /\ e.service = p.service /\ e.loaded = p.streams /\ e.meta = meta /\ e.whole = stored
               /\ e.outputs = OutputsOf(io, p.settings.outputs)
               /\ e.outdated = (\/ p.outdated
                                \/ ~stored /\ core.egress # NoEgress /\ core.egress.outdated)
<1> DEFINE x == OutputsOf(io, p.settings.outputs)
           y == (\/ p.outdated
                 \/ ~stored /\ core.egress # NoEgress /\ core.egress.outdated)
           e == EgressProcess(p, io, meta, stored)
<1>1. \E a, b, c : e = [service |-> p.service, source |-> a, global |-> b, input |-> c, outputs |-> x,
                        loaded |-> p.streams, meta |-> meta, whole |-> stored, outdated |-> y]
  BY Zenon DEF EgressProcess
<1> HIDE DEF x, y, e
<1>2. /\ e.service = p.service /\ e.loaded = p.streams /\ e.meta = meta /\ e.whole = stored
      /\ e.outputs = x /\ e.outdated = y
  BY <1>1
<1>3. e.outputs = OutputsOf(io, p.settings.outputs)
  BY <1>2 DEF x
<1>4. e.outdated = (\/ p.outdated
                    \/ ~stored /\ core.egress # NoEgress /\ core.egress.outdated)
  BY <1>2, Zenon DEF y
<1> HIDE DEF y
<1> QED
  BY <1>2, <1>3, <1>4, Zenon DEF e

\* The publication that is sent when a page is saved.
LEMMA SavedPublication ==
    ASSUME EnvSound, CoreSound, PageSound(page), NEW stored \in BOOLEAN, Save(stored)
    PROVE  IsPublication(core.egress, env)' /\ core'.egress.service = page.service
<1> DEFINE sources == SourcesOf(page)
           io == InputsOutputs(sources, page.settings.profile)
           meta == IF stored THEN page.settings
                   ELSE IF core.egress = NoEgress THEN NewSettings ELSE core.egress.meta
           e == EgressProcess(page, io, meta, stored)
<1>1. /\ page.view = "page" /\ page.service # "" /\ page.settings.outputs # <<>> /\ ~SavingThrows(page)
      /\ core' = [core EXCEPT !.egress = e] /\ UNCHANGED env
  BY Zenon DEF Save, SavePossible
<1>2. io.outputs[1] = InputsOutputs(sources, page.settings.profile).outputs[1]
  OBVIOUS
<1> HIDE DEF sources, io
<1>6. stored => meta = page.settings
  OBVIOUS
<1>16. meta = IF stored THEN page.settings
              ELSE IF core.egress = NoEgress THEN NewSettings ELSE core.egress.meta
  OBVIOUS
<1> HIDE DEF meta
<1>3. /\ e.service = page.service /\ e.loaded = page.streams /\ e.meta = meta /\ e.whole = stored
      /\ e.outputs = OutputsOf(io, page.settings.outputs)
      /\ e.outdated = (\/ page.outdated
                       \/ ~stored /\ core.egress # NoEgress /\ core.egress.outdated)
  <2>1. LET x == EgressProcess(page, io, meta, stored)
        IN  /\ x.service = page.service /\ x.loaded = page.streams /\ x.meta = meta /\ x.whole = stored
            /\ x.outputs = OutputsOf(io, page.settings.outputs)
            /\ x.outdated = (\/ page.outdated
                             \/ ~stored /\ core.egress # NoEgress /\ core.egress.outdated)
    <3> HIDE DEF e
    <3> QED BY EgressFields, Zenon
  <2> QED BY <2>1, Zenon DEF e
<1> HIDE DEF e
<1>4. (page.outdated => e.outdated)
      /\ (~stored /\ core.egress # NoEgress /\ core.egress.outdated => e.outdated)
  BY <1>3
<1>5. /\ HasFields(meta, SettingsFields)
      /\ \A type \in Media :
            IsMedia(InitProfile(meta.profile)[type], type, TakenBy(page.service, env), env)
      /\ OutputsFit(page.service, meta, e.outdated, env)
      /\ SettingsFit(page.service, meta.settings)
  BY <1>1, <1>4, <1>16, StoredFits
<1>7. PageFits(page) /\ IsChannel(page.streams)
  BY <1>1, OnPage
<1>8. /\ page.service \in Names /\ ProfileFits(page.service, page.settings.profile, page.streams, env)
      /\ Listed(page.settings.streams, page.settings.profile, page.streams)
      /\ OutputsFit(page.service, page.settings, page.outdated, env)
      /\ SettingsFit(page.service, page.settings.settings)
  BY <1>7 DEF PageFits
<1>9. page.settings.profile.video.stream # -1 /\ HaveOptions(page.settings.outputs)
  BY <1>1 DEF SavingThrows, HaveOptions
<1>10. IsOutputs(page.settings.outputs)
  BY <1>8, FitOutputs
<1>11. IsAllowed(e, env)
  BY <1>2, <1>3, <1>7, <1>8, <1>9, <1>10, SavedAllowed
<1>12. (e.whole => e.meta = page.settings) /\ (~e.outdated => ~page.outdated)
  BY <1>3, <1>4, <1>6
<1>13. IsCurrent(e, env)
  BY <1>1, <1>2, <1>3, <1>7, <1>8, <1>9, <1>10, <1>12, SavedCurrent
<1>17. FitsMuxer(e, env)
  BY <1>1, <1>2, <1>3, <1>7, <1>8, <1>9, <1>10, <1>12, SavedFitsMuxer
<1>14. IsPublication(e, env)
  BY <1>3, <1>5, <1>8, <1>11, <1>13, <1>17 DEF IsPublication, SettingsFields
<1>15. core'.egress = e
  BY <1>1 DEF CoreSound, HasFields
<1> QED
  BY <1>1, <1>3, <1>14, <1>15

\* A page that goes on with other options of its input.
LEMMA PageStays ==
    ASSUME PageSound(page), page.view = "page", page.service # "", UNCHANGED env, SamePublication(page)',
           NEW x, NEW y, page' = [[page EXCEPT !.unsaved = y] EXCEPT !.input = x]
    PROVE  PageSound(page)'
<1>1. PageFits(page) /\ IsChannel(page.streams) /\ HasFields(page, PageFields)
      /\ HasFields(page.settings, SettingsFields)
  BY DEF PageSound
<1>2. /\ DOMAIN page' = DOMAIN page /\ page'.settings = page.settings /\ page'.service = page.service
      /\ page'.skills = page.skills /\ page'.streams = page.streams /\ page'.outdated = page.outdated
  BY <1>1 DEF HasFields, PageFields
<1>3. PageFits(page)'
  BY <1>1, <1>2 DEF PageFits
<1> QED
  BY <1>1, <1>2, <1>3 DEF PageSound, HasFields

\* Saving keeps the invariant, whether the settings are stored or not.
LEMMA SaveKeeps ==
    ASSUME EnvSound, CoreSound, PageSound(page), NEW stored \in BOOLEAN, Save(stored)
    PROVE  CoreSound' /\ PageSound(page)'
<1> DEFINE input == InputAfter(InputsOutputs(SourcesOf(page), page.settings.profile))
<1>1. /\ page.view = "page" /\ page.service # "" /\ UNCHANGED env
      /\ \E e : core' = [core EXCEPT !.egress = e]
      /\ page' = IF page.id = "" THEN Closed ELSE [page EXCEPT !.unsaved = FALSE, !.input = input]
  BY Zenon DEF Save, SavePossible
<1> HIDE DEF input
<1>2. IsPublication(core.egress, env)' /\ core'.egress.service = page.service
  BY SavedPublication
<1>3. HasFields(core', {"streams", "sources", "egress"}) /\ core'.streams = core.streams
  BY <1>1 DEF CoreSound, HasFields
<1>4. CoreSound'
  BY <1>2, <1>3 DEF CoreSound
<1>5. CASE page.id = ""
  BY <1>1, <1>4, <1>5 DEF PageSound, Closed
<1>6. CASE page.id # ""
  <2>1. page' = [[page EXCEPT !.unsaved = FALSE] EXCEPT !.input = input] /\ HasFields(page, PageFields)
    BY <1>1, <1>6 DEF PageSound
  <2>2. page'.id = page.id /\ page'.service = page.service
    BY <2>1 DEF HasFields, PageFields
  <2>3. SamePublication(page)'
    BY <1>2, <1>6, <2>2 DEF SamePublication
  <2> QED
    BY <1>1, <1>4, <2>1, <2>3, PageStays
<1> QED
  BY <1>4, <1>5, <1>6

\* A save that fails keeps it: only the options of the input have grown.
LEMMA SaveFailsKeeps ==
    ASSUME PageSound(page), SaveFails
    PROVE  PageSound(page)'
<1> DEFINE input == InputAfter(InputsOutputs(SourcesOf(page), page.settings.profile))
<1>1. /\ page.view = "page" /\ page.service # "" /\ UNCHANGED <<env, core>>
      /\ page' = [page EXCEPT !.input = input]
  BY Zenon DEF SaveFails, SavePossible
<1> HIDE DEF input
<1>2. HasFields(page, PageFields) /\ SamePublication(page)
  BY <1>1 DEF PageSound
<1>3. page' = [[page EXCEPT !.unsaved = page.unsaved] EXCEPT !.input = input]
  BY <1>1
<1>4. page'.id = page.id /\ page'.service = page.service
  BY <1>1, <1>2 DEF HasFields, PageFields
<1>5. SamePublication(page)'
  BY <1>1, <1>2, <1>4 DEF SamePublication
<1> QED
  BY <1>1, <1>3, <1>5, PageStays

\* Without a publication nothing is promised.
LEMMA DeleteKeeps ==
    ASSUME CoreSound, Delete
    PROVE  CoreSound' /\ PageSound(page)'
<1>1. core' = [core EXCEPT !.egress = NoEgress] /\ page' = Closed /\ UNCHANGED env
  BY DEF Delete
<1>2. HasFields(core', {"streams", "sources", "egress"}) /\ core'.streams = core.streams
      /\ core'.egress = NoEgress
  BY <1>1 DEF CoreSound, HasFields
<1>3. CoreSound'
  BY <1>2 DEF CoreSound
<1>4. page'.view = "closed"
  BY <1>1 DEF Closed
<1> QED
  BY <1>3, <1>4 DEF PageSound

\* A page that is closed, or covered for ever, promises nothing.
LEMMA LeavingKeeps ==
    ASSUME Close \/ Gone \/ Reload \/ SaveThrows
    PROVE  PageSound(page)'
<1>1. page' \in {Closed, Stuck}
  BY DEF Close, Gone, Reload, SaveThrows
<1>2. page'.view # "page"
  BY <1>1 DEF Closed, Stuck
<1> QED
  BY <1>2 DEF PageSound

-----------------------------------------------------------------------------
(* What happens meanwhile *)

\* Other streams of the channel change neither the publication nor the page.
LEMMA IngestChangesKeeps ==
    ASSUME EnvSound, CoreSound, PageSound(page), NEW streams \in env.found, IngestChanges(streams)
    PROVE  CoreSound' /\ PageSound(page)'
<1>1. core' = [core EXCEPT !.streams = streams] /\ UNCHANGED <<env, page>> /\ IsChannel(streams)
  BY DEF IngestChanges, EnvSound
<1>2. HasFields(core', {"streams", "sources", "egress"}) /\ core'.streams = streams
      /\ core'.egress = core.egress
  BY <1>1 DEF CoreSound, HasFields
<1>3. CoreSound'
  BY <1>1, <1>2 DEF CoreSound
<1>4. PageSound(page)'
  BY <1>1, <1>2 DEF PageSound, PageFits, SamePublication
<1> QED
  BY <1>3, <1>4

\* A publication that is deleted elsewhere leaves the page as it is.
LEMMA DeletedElsewhereKeeps ==
    ASSUME CoreSound, PageSound(page), DeletedElsewhere
    PROVE  CoreSound' /\ PageSound(page)'
<1>1. core' = [core EXCEPT !.egress = NoEgress] /\ UNCHANGED <<env, page>>
  BY DEF DeletedElsewhere
<1>2. HasFields(core', {"streams", "sources", "egress"}) /\ core'.streams = core.streams
      /\ core'.egress = NoEgress
  BY <1>1 DEF CoreSound, HasFields
<1>3. CoreSound'
  BY <1>2 DEF CoreSound
<1>4. PageSound(page)'
  BY <1>1, <1>2 DEF PageSound, PageFits, SamePublication
<1> QED
  BY <1>3, <1>4

-----------------------------------------------------------------------------
(* Every step keeps the invariant *)

\* What ffmpeg has stays.
LEMMA EnvKeeps ==
    ASSUME EnvSound, UNCHANGED env
    PROVE  EnvSound'
BY DEF EnvSound

\* A publication that is not touched is what it was.
LEMMA CoreKeeps ==
    ASSUME CoreSound, UNCHANGED <<env, core>>
    PROVE  CoreSound'
BY DEF CoreSound

\* We begin with the invariant.
LEMMA InitHolds ==
    ASSUME Init
    PROVE  Inv
<1>1. PICK start \in Starts : env = start.env /\ core = start.core
  BY DEF Init
<1>2. EnvSound /\ CoreSound
  BY <1>1, StartsAssumption DEF EnvSound, CoreSound
<1>3. PageSound(page)
  BY DEF Init, PageSound, Closed
<1> QED
  BY <1>2, <1>3 DEF Inv

\* Every step keeps it.
LEMMA StepKeeps ==
    ASSUME Inv, [Next]_vars
    PROVE  Inv'
<1>1. EnvSound /\ CoreSound /\ PageSound(page)
  BY DEF Inv
<1>2. CASE OpenAdd \/ OpenEdit \/ Back
  <2>1. UNCHANGED <<env, core>>
    BY <1>2 DEF OpenAdd, OpenEdit, Back
  <2> QED
    BY <1>1, <1>2, <2>1, EnvKeeps, CoreKeeps, OpenAddKeeps, OpenEditKeeps, BackKeeps DEF Inv
<1>3. CASE Close \/ Gone \/ Reload \/ SaveThrows
  <2>1. UNCHANGED <<env, core>>
    BY <1>3 DEF Close, Gone, Reload, SaveThrows
  <2> QED
    BY <1>1, <1>3, <2>1, EnvKeeps, CoreKeeps, LeavingKeeps DEF Inv
<1>4. ASSUME NEW id \in env.services, SelectService(id) PROVE Inv'
  <2>1. UNCHANGED <<env, core>>
    BY <1>4 DEF SelectService
  <2> QED
    BY <1>1, <1>4, <2>1, EnvKeeps, CoreKeeps, SelectServiceKeeps DEF Inv
<1>5. ASSUME NEW tab, ChangeTab(tab) PROVE Inv'
  <2>1. UNCHANGED <<env, core>>
    BY <1>5 DEF ChangeTab
  <2> QED
    BY <1>1, <1>5, <2>1, EnvKeeps, CoreKeeps, ChangeTabKeeps DEF Inv
<1>6. CASE ChangeName
  <2>1. UNCHANGED <<env, core>>
    BY <1>6 DEF ChangeName, Show
  <2> QED
    BY <1>1, <1>6, <2>1, EnvKeeps, CoreKeeps, ChangeNameKeeps DEF Inv
<1>7. ASSUME NEW choice \in SettingChoices[page.service], ChangeService(choice) PROVE Inv'
  <2>1. UNCHANGED <<env, core>>
    BY <1>7 DEF ChangeService, Show
  <2> QED
    BY <1>1, <1>7, <2>1, EnvKeeps, CoreKeeps, ChangeServiceKeeps DEF Inv
<1>8. ASSUME NEW source, ChangeSource(source) PROVE Inv'
  <2>1. UNCHANGED <<env, core>>
    BY <1>8 DEF ChangeSource, Show
  <2> QED
    BY <1>1, <1>8, <2>1, EnvKeeps, CoreKeeps, ChangeSourceKeeps DEF Inv
<1>9. ASSUME NEW type \in Media, NEW coder \in env.encoders[type], ChangeEncoder(type, coder) PROVE Inv'
  <2>1. UNCHANGED <<env, core>>
    BY <1>9 DEF ChangeEncoder, Show
  <2> QED
    BY <1>1, <1>9, <2>1, EnvKeeps, CoreKeeps, ChangeEncoderKeeps DEF Inv
<1>10. ASSUME NEW coder \in env.decoders, ChangeDecoder(coder) PROVE Inv'
  <2>1. UNCHANGED <<env, core>>
    BY <1>10 DEF ChangeDecoder, Show
  <2> QED
    BY <1>1, <1>10, <2>1, EnvKeeps, CoreKeeps, ChangeDecoderKeeps DEF Inv
<1>11. ASSUME NEW gop, ChangeKeyFrames(gop) PROVE Inv'
  <2>1. UNCHANGED <<env, core>>
    BY <1>11 DEF ChangeKeyFrames, Show
  <2> QED
    BY <1>1, <1>11, <2>1, EnvKeeps, CoreKeeps, ChangeKeyFramesKeeps DEF Inv
<1>12. ASSUME NEW f, NEW s, ChangeFilterSettings(f, s) PROVE Inv'
  <2>1. UNCHANGED <<env, core>>
    BY <1>12 DEF ChangeFilterSettings, Show
  <2> QED
    BY <1>1, <1>12, <2>1, EnvKeeps, CoreKeeps, ChangeFilterSettingsKeeps DEF Inv
<1>13. ASSUME NEW stored \in BOOLEAN, Save(stored) PROVE Inv'
  <2>1. UNCHANGED env
    BY <1>13 DEF Save
  <2> QED
    BY <1>1, <1>13, <2>1, EnvKeeps, SaveKeeps DEF Inv
<1>14. CASE SaveFails
  <2>1. UNCHANGED <<env, core>>
    BY <1>14 DEF SaveFails
  <2> QED
    BY <1>1, <1>14, <2>1, EnvKeeps, CoreKeeps, SaveFailsKeeps DEF Inv
<1>15. CASE Delete
  <2>1. UNCHANGED env
    BY <1>15 DEF Delete
  <2> QED
    BY <1>1, <1>15, <2>1, EnvKeeps, DeleteKeeps DEF Inv
<1>16. ASSUME NEW streams \in env.found, IngestChanges(streams) PROVE Inv'
  <2>1. UNCHANGED env
    BY <1>16 DEF IngestChanges
  <2> QED
    BY <1>1, <1>16, <2>1, EnvKeeps, IngestChangesKeeps DEF Inv
<1>17. CASE DeletedElsewhere
  <2>1. UNCHANGED env
    BY <1>17 DEF DeletedElsewhere
  <2> QED
    BY <1>1, <1>17, <2>1, EnvKeeps, DeletedElsewhereKeeps DEF Inv
<1>18. CASE UNCHANGED vars
  <2>1. UNCHANGED <<env, core, page>>
    BY <1>18 DEF vars
  <2>2. PageSound(page)'
    BY <1>1, <2>1 DEF PageSound, PageFits, SamePublication
  <2> QED
    BY <1>1, <2>1, <2>2, EnvKeeps, CoreKeeps DEF Inv
<1> QED
  BY <1>2, <1>3, <1>4, <1>5, <1>6, <1>7, <1>8, <1>9, <1>10, <1>11, <1>12, <1>13, <1>14, <1>15,
     <1>16, <1>17, <1>18 DEF Next

\* The invariant that the promises to the services rest on.
THEOREM PublicationInvariant == Spec => []Inv
<1>1. Init => Inv
  BY InitHolds
<1>2. Inv /\ [Next]_vars => Inv'
  BY StepKeeps
<1> QED
  BY <1>1, <1>2, PTL DEF Spec

(* CodecsAllowed: whatever the services are given, the channel sends and ffmpeg has, and however often the
   codecs of the channel change, what a service is sent is what it takes (preselectProfile, EncodingSelect.js). *)
THEOREM PublishesAllowedCodecs == Spec => []CodecsAllowed
<1>1. Inv => CodecsAllowed
  BY DEF Inv, CoreSound, IsPublication, CodecsAllowed, Published, Egress
<1> QED
  BY <1>1, PublicationInvariant, PTL

(* OutputsCurrent: in whatever order the components of a page report and the settings, coders and filters are
   changed, saved and stored or not, the process sends to what the stored settings say, and makes the streams
   that are stored (handleServiceChange, handleProcessing, createInputsOutputs). *)
THEOREM PublishesCurrentOutputs == Spec => []OutputsCurrent
<1>1. Inv => OutputsCurrent
  BY DEF Inv, CoreSound, IsPublication, OutputsCurrent, Published, Egress
<1> QED
  BY <1>1, PublicationInvariant, PTL
(* MuxerFits: whatever the services are given that has a protocol they are for, and however the encoding is
   changed, ffmpeg 6 and later can write what is sent: the format of an output goes over its protocol and takes
   its codecs, apart from what the services are known to get wrong (createOutput of Services/*.js). *)
THEOREM PublishesFittingMuxers == Spec => []MuxerFits
<1>1. Inv => MuxerFits
  BY DEF Inv, CoreSound, IsPublication, MuxerFits, Published, Egress
<1> QED
  BY <1>1, PublicationInvariant, PTL
================================================================================
