------------------------------- MODULE Services -------------------------------
(* The services a channel can be published to, one definition for each file
   under ui/src/views/Publication/Services: what a service requires of ffmpeg,
   the settings it starts with (init) and the outputs its createOutput makes of
   the settings. Settings that only are part of an address (application,
   user...) stand together for one; of long lists of options those are kept that
   are shown, hidden or replaced differently.
   An address is the protocol with what the settings add to it; "" is a setting
   that is not filled in. *)
EXTENDS Coders

NoSettings == <<>>

\* requires, the stored settings over the defaults, and the outputs
Service(protocols, formats, audio, video, settings, outputs) ==
    [protocols |-> protocols, formats |-> formats, devices |-> {},
     codecs |-> [audio |-> audio, video |-> video],
     settings |-> settings, outputs |-> outputs]
Output(protocol, to, options) ==
    [address |-> <<protocol, to>>, options |-> options]
Muxer(format) == << <<"-f", format>> >>

\* for (key in settings.options): what is not filled in is left out; key stands for
\* the option that bears its name.
Filled(options, key) ==
    IF options[key] = "" THEN <<>> ELSE << <<key, options[key]>> >>

\* ffmpeg 6 and later sends newer codecs in flv when it is told which ones.
Announced(names, skills) ==
    LET known == names \cap ToSet(skills.codecs.video)
    IN  IF skills.ffmpeg >= 6 /\ known # {} THEN << <<"-rtmp_enhanced_codecs", known>> >>
        ELSE <<>>

-----------------------------------------------------------------------------
(* Platforms that take flv over RTMP *)

AACorMP3 == <<"aac", "mp3">>
OnlyAAC == <<"aac">>

\* A platform with an address of its own and a key.
Keyed(protocols, protocol, to, audio, stored) ==
    LET s == Merged(stored, [key |-> ""])
    IN  Service(protocols, {"flv"}, audio, <<"h264">>, s,
                <<Output(protocol, <<to, s.key>>, Muxer("flv"))>>)

\* A platform whose address is filled in, after a protocol that is chosen.
Addressed(protocols, protocol, audio, stored) ==
    LET s == Merged(stored, [protocol |-> protocol, address |-> "", key |-> ""])
    IN  Service(protocols, {"flv"}, audio, <<"h264">>, s,
                <<Output(s.protocol, <<s.address, s.key>>, Muxer("flv"))>>)

\* A platform that gives a whole URL; the key is an option.
PlayPath(protocols, audio, stored) ==
    LET s == Merged(stored, [server_url |-> <<"", "">>, stream_key |-> ""])
    IN  Service(protocols, {"flv"}, audio, <<"h264">>, s,
                <<Output(s.server_url[1], <<s.server_url[2]>>,
                         << <<"-rtmp_playpath", s.stream_key>> >> \o Muxer("flv"))>>)

DLive(s) == Keyed({"rtmp"}, "rtmp", "dlive", AACorMP3, s)
Trovo(s) == Keyed({"rtmp"}, "rtmp", "trovo", AACorMP3, s)
Vimeo(s) == Keyed({"rtmp"}, "rtmp", "vimeo", AACorMP3, s)
MediaNetwork(s) == Keyed({"rtmp"}, "rtmp", "medianetwork", AACorMP3, s)
\* The protocol of the address is http.
Instagram(s) == Keyed({"rtmps"}, "http", "instagram", AACorMP3, s)
Livepush(s) == Keyed({"rtmp"}, "rtmp", "livepush", AACorMP3, s)
PicartoTv(s) == Keyed({"rtmp"}, "rtmp", "picarto", AACorMP3, s)
Restream(s) == Keyed({"rtmps"}, "rtmp", "restream", AACorMP3, s)
Azure(s) == Addressed({"rtmp", "rtmps"}, "rtmp", AACorMP3, s)
Linkedin(s) == Addressed({"rtmp", "rtmps"}, "rtmp", AACorMP3, s)
Brightcove(s) == Addressed({"rtmp"}, "rtmp", AACorMP3, s)
CDN77(s) == Addressed({"rtmp"}, "rtmp", AACorMP3, s)
Owncast(s) == Addressed({"rtmps"}, "rtmp", AACorMP3, s)
Telegram(s) == Addressed({"rtmps"}, "rtmps", AACorMP3, s)
Livespotting(s) == Addressed({"rtmp", "rtmps"}, "rtmp", OnlyAAC, s)
Wettercom(s) == Addressed({"rtmp"}, "rtmp", OnlyAAC, s)
Dailymotion(s) == PlayPath({"rtmp", "rtmps"}, OnlyAAC, s)
Kick(s) == PlayPath({"rtmps"}, AACorMP3, s)
TikTok(s) == PlayPath({"rtmps"}, AACorMP3, s)

Rumble(stored) ==
    LET s == Merged(stored, [server_url |-> <<"", "">>, stream_key |-> ""])
    IN  Service({"rtmp", "rtmps"}, {"flv"}, AACorMP3, <<"h264">>, s,
                <<Output(s.server_url[1], <<s.server_url[2], s.stream_key>>, Muxer("flv"))>>)

PeerTube(stored) ==
    LET s == Merged(stored, [rtmps |-> FALSE, domain |-> "", key |-> ""])
    IN  Service({"rtmp", "rtmps"}, {"flv"}, AACorMP3, <<"h264">>, s,
                <<Output(IF s.rtmps THEN "rtmps" ELSE "rtmp",
                         <<s.domain, IF s.rtmps THEN 1936 ELSE 1935, s.key>>, Muxer("flv"))>>)

Twitch(stored) ==
    LET s == Merged(stored, [region |-> "live", key |-> ""])
    IN  Service({"rtmp"}, {"flv"}, AACorMP3, <<"h264">>, s,
                <<Output("rtmp", <<s.region, IF s.region = "live-video.net" THEN "" ELSE "twitch",
                                   s.key>>, Muxer("flv"))>>)

\* The output has no options at all, which nothing after it expects.
EarthCam(stored) ==
    LET s == Merged(stored, [stream_key |-> ""])
    IN  Service({"rtmp"}, {"flv"}, OnlyAAC, <<"h264">>, s,
                <<[address |-> <<"rtmp", <<"earthcam", s.stream_key>> >>]>>)

\* Without a key the output is null.
NullOutput == [null |-> TRUE]
NimoTv(stored) ==
    LET s == Merged(stored, [lines |-> "1", stream_key |-> ""])
    IN  Service({"rtmp"}, {"flv"}, AACorMP3, <<"h264">>, s,
                <<IF s.stream_key = "" THEN NullOutput
                  ELSE Output("rtmp", <<"nimo", s.lines, s.stream_key>>, Muxer("flv"))>>)

Facebook(stored) ==
    LET s == Merged(stored, [stream_key_primary |-> "", stream_key_backup |-> "",
                             rtmp_primary |-> TRUE, rtmp_backup |-> FALSE])
        To(key, on) == IF on /\ key # ""
                       THEN <<Output("rtmps", <<"facebook", key>>, Muxer("flv"))>> ELSE <<>>
    IN  Service({"rtmps"}, {"flv"}, OnlyAAC, <<"h264">>, s,
                To(s.stream_key_primary, s.rtmp_primary) \o To(s.stream_key_backup, s.rtmp_backup))

\* The backup goes to the first server again.
DaCast(stored) ==
    LET s == Merged(stored, [protocol |-> "rtmp", server |-> "", backup_server |-> "",
                             enable_backup_server |-> FALSE, stream_key |-> ""])
        output == Output(s.protocol, <<s.server, s.stream_key>>, Muxer("flv"))
    IN  Service({"rtmp"}, {"flv"}, AACorMP3, <<"h264">>, s,
                IF s.enable_backup_server THEN <<output, output>> ELSE <<output>>)

\* The backup is not used; what is filled in is added to the address.
Akamai(stored) ==
    LET s == Merged(stored, [protocol |-> "rtmp", stream_url |-> "", backup_url |-> "",
                             enable_backup_stream |-> FALSE,
                             address_extensions |-> [live |-> "true", pubUser |-> ""]])
    IN  Service({"rtmp"}, {"flv"}, AACorMP3, <<"h264">>, s,
                <<Output(s.protocol,
                         <<s.stream_url, Filled(s.address_extensions, "live")
                                        \o Filled(s.address_extensions, "pubUser")>>,
                         Muxer("flv"))>>)

\* HLS to a platform: the playlist and the segments get a new name every time
\* (unnamed here).
PushedPlaylist == Muxer("hls") \o << <<"-hls_time", "2">>, <<"-hls_list_size", "5">>,
                                     <<"-hls_delete_threshold", "3">>, <<"-method", "PUT">> >>
Twitter(stored) ==
    LET s == Merged(stored, [mode |-> "rtmps", stream_key |-> "", region |-> "de"])
    IN  Service({"rtmps", "https"}, {"flv", "hls"}, AACorMP3, <<"h264">>, s,
                IF s.stream_key = "" THEN <<>>
                ELSE <<Output(IF s.mode = "rtmps" THEN "rtmps" ELSE "https",
                              <<s.region, s.stream_key>>,
                              IF s.mode = "rtmps" THEN Muxer("flv") ELSE PushedPlaylist)>>)
Youtube(stored, skills) ==
    LET s == Merged(stored, [mode |-> "rtmps", stream_key |-> "", primary |-> TRUE, backup |-> FALSE])
        To(server, on) ==
            IF ~on THEN <<>>
            ELSE IF s.mode = "rtmps"
                 THEN <<Output("rtmps", <<server, s.stream_key>>,
                               Muxer("flv") \o Announced({"hevc", "av1"}, skills))>>
                 ELSE <<Output("https", <<server, s.stream_key>>, PushedPlaylist)>>
    IN  Service({"rtmps", "https"}, {"flv", "hls"}, AACorMP3, <<"h264", "hevc", "av1">>, s,
                IF s.stream_key = "" THEN <<>> ELSE To("a", s.primary) \o To("b", s.backup))

-----------------------------------------------------------------------------
(* Software *)

\* The protocol is compared without its "://", so RTSP gets flv as well.
Red5(stored) ==
    LET s == Merged(stored, [protocol |-> "rtmp", address |-> "", username |-> "", password |-> ""])
        user == IF s.username # "" /\ s.password # "" THEN <<s.username, s.password>> ELSE <<>>
    IN  Service({"rtmp", "rtp"}, {"flv", "rtsp"}, AACorMP3, <<"h264">>, s,
                <<Output(s.protocol, <<user, s.address>>, Muxer("flv"))>>)
WOWZA(stored) ==
    LET s == Merged(stored, [protocol |-> "rtmp", rtsp_over_udp |-> FALSE, address |-> "",
                             username |-> "", password |-> ""])
    IN  Service({"rtmp", "rtp"}, {"flv", "rtsp"}, AACorMP3, <<"h264">>, s,
                <<Output(s.protocol, << <<s.username, s.password>>, s.address>>, Muxer("flv"))>>)

\* init takes over the settings of version 1, once.
Core(stored, skills) ==
    LET old == "base_url" \in DOMAIN stored /\ "v2_address" \notin DOMAIN stored
        filled == old /\ stored.base_url # ""
        s == IF filled
             THEN Merged([v2_address |-> <<stored.protocol, stored.base_url>>],
                         [stored EXCEPT !.base_url = ""])
             ELSE Merged(stored, [v2_address |-> <<"", "">>])
    IN  Service({"rtmp", "rtmps", "srt"}, {"flv", "mpegts"}, OnlyAAC,
                <<"h264", "hevc", "vp9", "av1">>, s,
                <<Output(s.v2_address[1], <<s.v2_address[2]>>,
                         IF s.v2_address[1] = "srt"
                         THEN << <<"-bsf:v", "dump_extra">> >> \o Muxer("mpegts")
                         ELSE Muxer("flv") \o Announced({"hevc", "av1", "vp9"}, skills))>>)

\* createOutputs: the format follows from the streams of the publication.
AudioFormat == [aac |-> "adts", vorbis |-> "ogg", opus |-> "opus", mp3 |-> "mp3"]
Icecast(stored, streams) ==
    LET s == Merged(stored, [protocol |-> "icecast", address |-> "",
                             options |-> [ice_genre |-> "", ice_public |-> "true"]])
        Of(type) == { i \in DOMAIN streams : streams[i].type = type }
        last == CHOOSE i \in Of("audio") : \A j \in Of("audio") : j <= i
        format == IF Of("video") # {} THEN Muxer("webm")
                  ELSE IF Of("audio") # {} /\ streams[last].codec \in DOMAIN AudioFormat
                       THEN Muxer(AudioFormat[streams[last].codec]) ELSE <<>>
    IN  Service({"icecast"}, {"adts", "opus", "mp3", "ogg", "webm"},
                <<"aac", "opus", "vorbis", "mp3">>, <<"none", "vp9">>, s,
                <<Output("icecast", <<s.address>>,
                         Filled(s.options, "ice_genre") \o Filled(s.options, "ice_public")
                         \o format)>>)

-----------------------------------------------------------------------------
(* Protocols and devices *)

RTMP(stored, skills) ==
    LET s == Merged(stored, [protocol |-> "rtmp", address |-> "",
                             options |-> [rtmp_app |-> "", rtmp_flush_interval |-> "10"]])
        tunnel == s.protocol \in {"rtmpt", "rtmpte", "rtmpts"}
    IN  Service({"rtmp", "rtmps", "rtmpt", "rtmpts"}, {"flv"}, AACorMP3,
                <<"h264", "hevc", "vp9", "av1">>, s,
                <<Output(s.protocol, <<s.address>>,
                         Muxer("flv") \o Announced({"hevc", "av1", "vp9"}, skills)
                         \o Filled(s.options, "rtmp_app")
                         \o (IF tunnel THEN Filled(s.options, "rtmp_flush_interval") ELSE <<>>))>>)

RTSP(stored) ==
    LET s == Merged(stored, [protocol |-> "rtsp", address |-> "", username |-> "", password |-> "",
                             options |-> [rtsp_transport |-> "", muxdelay |-> "0.1"]])
    IN  Service({"rtp"}, {"rtsp"}, AACorMP3, <<"h264", "hevc", "vp9">>, s,
                <<Output(s.protocol, << <<s.username, s.password>>, s.address>>,
                         Muxer("rtsp") \o Filled(s.options, "rtsp_transport")
                         \o Filled(s.options, "muxdelay"))>>)

UDP(stored) ==
    LET s == Merged(stored, [protocol |-> "udp", address |-> "",
                             params |-> [buffer_size |-> "32", ttl |-> "", broadcast |-> "false"]])
    IN  Service({"udp"}, {"mpegts"}, AACorMP3, <<"h264", "hevc", "vp9", "av1">>, s,
                <<Output(s.protocol,
                         <<s.address, Filled(s.params, "buffer_size") \o Filled(s.params, "ttl")
                                      \o Filled(s.params, "broadcast")>>,
                         Muxer("mpegts"))>>)

\* The type of the service may be a number of its own.
MPEGTS(stored) ==
    LET s == Merged(stored, [protocol |-> "udp", address |-> "",
                             options |-> [mpegts_service_type |-> "digital_tv", muxrate |-> "",
                                          hex_value |-> ""]])
        hex == s.options.mpegts_service_type = "hex_value"
        o == IF hex THEN [s.options EXCEPT !.mpegts_service_type = s.options.hex_value]
             ELSE s.options
    IN  Service({"udp", "tcp"}, {"mpegts"}, AACorMP3, <<"h264", "hevc", "vp9", "av1">>, s,
                <<Output(s.protocol, <<s.address>>,
                         Muxer("mpegts") \o Filled(o, "mpegts_service_type") \o Filled(o, "muxrate"))>>)

\* Parameters with their default value are left out.
SRTDefaults == [latency |-> "120000", passphrase |-> "", nakreport |-> "true"]
SRT(stored) ==
    LET s == Merged(stored, [protocol |-> "srt", address |-> "", params |-> SRTDefaults])
        Changed(key) == IF s.params[key] = SRTDefaults[key] THEN <<>>
                        ELSE Filled(s.params, key)
    IN  Service({"srt"}, {"mpegts"}, AACorMP3, <<"h264", "hevc", "vp9", "av1">>, s,
                <<Output(s.protocol, <<s.address, Changed("latency") \o Changed("passphrase")
                                      \o Changed("nakreport")>>,
                         << <<"-bsf:v", "dump_extra">> >> \o Muxer("mpegts"))>>)

Uploaded(format, protocols, first, audio, options, order, stored) ==
    LET s == Merged(stored, [protocol |-> "https", address |-> "", username |-> "",
                             password |-> "", options |-> options])
    IN  Service(protocols, {format}, audio, <<"h264">>, s,
                <<Output(s.protocol, << <<s.username, s.password>>, s.address>>,
                         first \o Muxer(format) \o Filled(s.options, order[1])
                         \o Filled(s.options, order[2]) \o Filled(s.options, order[3]))>>)

HLS(s) == Uploaded("hls", {"http", "https"}, <<>>, AACorMP3,
                   [hls_time |-> "2", hls_key_info_file |-> "", http_persistent |-> "0"],
                   <<"hls_time", "hls_key_info_file", "http_persistent">>, s)
DASH(s) == Uploaded("dash", {"http", "https"}, << <<"-strict", "experimental">> >>, <<"none">>,
                    [seg_duration |-> "2", frag_duration |-> "", streaming |-> "1"],
                    <<"seg_duration", "frag_duration", "streaming">>, s)
Image2(s) == Uploaded("image2", {"http", "https"}, <<>>, <<"none">>,
                      [start_number |-> "1", update |-> "true", method |-> "PUT"],
                      <<"start_number", "update", "method">>, s)

Framebuffer(stored) ==
    LET s == Merged(stored, [device |-> "none", pix_fmt |-> "bgra"])
    IN  [Service({}, {"fbdev"}, <<"none">>, <<"rawvideo">>, s,
                 <<Output("device", <<s.device>>,
                          << <<"-pix_fmt", s.pix_fmt>> >> \o Muxer("fbdev"))>>)
         EXCEPT !.devices = {"fbdev"}]

-----------------------------------------------------------------------------
(* The registry: Services/index.js, without the example Dummy, which is not
   registered. *)

Names == {"facebook", "youtube", "twitter", "twitch", "kick", "tiktok", "instagram", "vimeo",
          "restream", "telegram", "linkedin", "dlive", "trovo", "picartotv", "nimotv",
          "peertube", "medianetwork", "livespotting", "wettercom", "earthcam", "azure",
          "brightcove", "akamai", "dacast", "dailymotion", "livepush", "rumble", "cdn77",
          "datarheicore", "owncast", "wowza", "red5", "icecast", "image2", "rtsp", "rtmp",
          "hls", "dash", "srt", "udp", "mpegts", "framebuffer"}

\* The service with its settings initialised and the outputs it makes of them.
ServiceOf(id, s, skills, streams) ==
    CASE id = "facebook" -> Facebook(s) [] id = "youtube" -> Youtube(s, skills)
      [] id = "twitter" -> Twitter(s) [] id = "twitch" -> Twitch(s)
      [] id = "kick" -> Kick(s) [] id = "tiktok" -> TikTok(s)
      [] id = "instagram" -> Instagram(s) [] id = "vimeo" -> Vimeo(s)
      [] id = "restream" -> Restream(s) [] id = "telegram" -> Telegram(s)
      [] id = "linkedin" -> Linkedin(s) [] id = "dlive" -> DLive(s)
      [] id = "trovo" -> Trovo(s) [] id = "picartotv" -> PicartoTv(s)
      [] id = "nimotv" -> NimoTv(s) [] id = "peertube" -> PeerTube(s)
      [] id = "medianetwork" -> MediaNetwork(s) [] id = "livespotting" -> Livespotting(s)
      [] id = "wettercom" -> Wettercom(s) [] id = "earthcam" -> EarthCam(s)
      [] id = "azure" -> Azure(s) [] id = "brightcove" -> Brightcove(s)
      [] id = "akamai" -> Akamai(s) [] id = "dacast" -> DaCast(s)
      [] id = "dailymotion" -> Dailymotion(s) [] id = "livepush" -> Livepush(s)
      [] id = "rumble" -> Rumble(s) [] id = "cdn77" -> CDN77(s)
      [] id = "datarheicore" -> Core(s, skills) [] id = "owncast" -> Owncast(s)
      [] id = "wowza" -> WOWZA(s) [] id = "red5" -> Red5(s)
      [] id = "icecast" -> Icecast(s, streams) [] id = "image2" -> Image2(s)
      [] id = "rtsp" -> RTSP(s) [] id = "rtmp" -> RTMP(s, skills)
      [] id = "hls" -> HLS(s) [] id = "dash" -> DASH(s)
      [] id = "srt" -> SRT(s) [] id = "udp" -> UDP(s)
      [] id = "mpegts" -> MPEGTS(s) [] id = "framebuffer" -> Framebuffer(s)

\* The services whose outputs the page makes anew when the encoding changes.
WithCreateOutputs == {"icecast"}
=============================================================================
