---------------------------- MODULE MCPublication ----------------------------
(* Small instances of the publication pages: every service on its own, and one
   service each with decoders and filters, with failures and another window, with
   an older ffmpeg, and with a publication of an earlier version. *)
EXTENDS Publication

Stream(type, codec, i) == [type |-> type, codec |-> codec, index |-> 0, stream |-> i]
V(codec) == Stream("video", codec, 0)
A(codec) == Stream("audio", codec, 1)
Usual == <<V("h264"), A("aac")>>
Other == <<V("hevc"), A("opus")>>
Silent == <<V("vp9")>>

Base ==
    [ffmpeg |-> 6, decoders |-> {"default"}, filters |-> {},
     encoders |-> [video |-> {"copy", "none", "libx264", "libvpx-vp9", "rawvideo"},
                   audio |-> {"copy", "none", "aac", "libmp3lame", "libopus", "libvorbis"}],
     codecs |-> [video |-> {"none", "h264", "hevc", "vp9", "rawvideo"},
                 audio |-> {"none", "aac", "mp3", "opus", "vorbis"}],
     protocols |-> {"rtmp", "rtmps", "rtp", "srt", "udp", "http", "https", "icecast"},
     formats |-> {"flv", "rtsp", "mpegts", "hls", "dash", "image2", "fbdev", "adts", "webm"},
     sinks |-> {"fbdev"}, found |-> {Other}, services |-> {}, changes |-> 3,
     touched |-> {"settings", "coders", "name"}]
For(id) == [Base EXCEPT !.services = {id}, !.found = @ \cup {Silent}]

Channel(streams) == [streams |-> streams, sources |-> {"hls+memfs", "rtmp"}, egress |-> NoEgress]
Start(e, streams) == [env |-> e, core |-> Channel(streams)]

\* A publication to the Core with the settings of its first version.
OldCore ==
    LET settings == [protocol |-> "rtmp", base_url |-> "core"]
        p == [NewSettings EXCEPT !.settings = settings,
                !.outputs = <<Output("rtmp", <<"core">>, Muxer("flv"))>>,
                !.profile.video = [@ EXCEPT !.source = 0, !.stream = 0,
                                     !.encoder = WithDefaults(VideoCopy, V("h264"), Base)],
                !.profile.audio = [@ EXCEPT !.source = 0, !.stream = 1,
                                     !.encoder = WithDefaults(AudioCopy, A("aac"), Base)],
                !.streams = Usual]
        io == InputsOutputs(<<[streams |-> Usual, inputs |-> <<[options |-> <<>>]>>]>>, p.profile)
    IN  [service |-> "datarheicore", source |-> "hls+memfs", global |-> io.global,
         input |-> ReadOptions("hls+memfs"), outputs |-> OutputsOf(io, p.outputs),
         loaded |-> Usual, outdated |-> FALSE, meta |-> p, whole |-> TRUE]

MCStarts ==
    { Start(For(id), streams) : id \in Names, streams \in {Usual} }
    \cup { Start(For(id), streams) : id \in {"icecast", "youtube", "framebuffer"},
                                     streams \in {Other, Silent, <<>>} }
    \cup { Start([Base EXCEPT !.services = {"rtmp"}, !.decoders = {"default", "h264_cuvid"},
                    !.filters = {"hflip", "volume"}, !.touched = {"settings", "coders", "filters"},
                    !.changes = 4], Usual),
           Start([Base EXCEPT !.services = {"icecast", "twitch"}, !.filters = {"volume"},
                    !.touched = @ \cup {"source", "failures", "elsewhere"}], Usual),
           Start([Base EXCEPT !.services = {"youtube"}, !.ffmpeg = 5,
                    !.encoders.video = {"copy", "none"}], Other),
           [env |-> [Base EXCEPT !.services = {}, !.ffmpeg = 5],
            core |-> [Channel(Usual) EXCEPT !.egress = OldCore]] }

Fill(fields, values) == { [f \in {x} |-> v] : x \in fields, v \in values }
Credentials == Fill({"address"}, {"host"}) \cup Fill({"username"}, {"user"})
Key == Fill({"key"}, {"key"})
MCSettingChoices ==
    [id \in Names |->
       CASE id \in {"azure", "linkedin", "peertube"} -> Key \cup {[protocol |-> "rtmps", rtmps |-> TRUE]}
         [] id \in {"dailymotion", "kick", "tiktok", "rumble"} ->
               {[server_url |-> <<"rtmps", "url">>], [stream_key |-> "key", server_url |-> <<"rtmp", "url">>]}
         [] id = "nimotv" -> {[stream_key |-> "key"], [lines |-> "2"]}
         [] id = "earthcam" -> Fill({"stream_key"}, {"key"})
         [] id = "facebook" -> Fill({"stream_key_primary", "stream_key_backup"}, {"key"})
                               \cup {[rtmp_backup |-> TRUE]}
         [] id = "dacast" -> {[server |-> "one"], [enable_backup_server |-> TRUE, backup_server |-> "two"]}
         [] id = "akamai" -> {[stream_url |-> "url"], [address_extensions |-> [live |-> "", pubUser |-> "u"]]}
         [] id \in {"twitter", "youtube"} ->
               {[stream_key |-> "key"], [mode |-> "hls"], [primary |-> FALSE, backup |-> TRUE]}
         [] id \in {"red5", "wowza"} -> Credentials \cup {[protocol |-> "rtsp"]}
         [] id = "datarheicore" -> {[v2_address |-> <<p, "host">>] : p \in {"rtmp", "srt"}}
         [] id = "icecast" -> Fill({"address"}, {"host"})
         [] id = "rtmp" -> {[protocol |-> "rtmpt", address |-> "host"]}
         [] id \in {"rtsp", "hls", "dash", "image2"} -> Credentials
         [] id = "udp" -> {[address |-> "host"], [params |-> [buffer_size |-> "", ttl |-> "1", broadcast |-> "true"]]}
         [] id = "srt" -> {[address |-> "host"], [params |-> [SRTDefaults EXCEPT !.passphrase = "secret"]]}
         [] id = "mpegts" -> {[address |-> "host", protocol |-> "tcp"],
                              [options |-> [mpegts_service_type |-> "hex_value", muxrate |-> "1",
                                            hex_value |-> ""]]}
         [] id = "framebuffer" -> Fill({"device"}, {"fb0"})
         [] OTHER -> Key]
=============================================================================
