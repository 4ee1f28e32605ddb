------------------------------ MODULE Metadata ------------------------------
(* What the web interface stores with a channel, and how it makes ffmpeg's
   inputs and options of it: ui/src/utils/metadata.js.
     source:  [type, settings, inputs, streams]
     stream:  [type, codec, index, stream], input and stream number of ffmpeg
     media:   [source, stream, encoder, decoder, filter], the video or audio of a
              profile; source and stream are positions, counted from 0, or -1
     coder:   [coder, settings, mapping]
     profile: [video, audio, custom]
   A channel has one profile. *)
EXTENDS Coders, Filters, FiniteSets

Nothing == <<>>     \* an object without fields
At(seq, i) == seq[i + 1]
Within(seq, i) == i + 1 \in DOMAIN seq

-----------------------------------------------------------------------------
(* Loading *)

InitSource(stored) ==
    Merged(stored, [type |-> "", settings |-> Nothing, inputs |-> <<>>, streams |-> <<>>])

\* initProfile: the mapping used to be an array ([array |-> ...]).
InitMapping(m) ==
    IF "array" \in DOMAIN m THEN [NoMapping EXCEPT !.local = m.array] ELSE Merged(m, NoMapping)
InitCoder(stored, coder) ==
    LET c == Merged(stored, [coder |-> coder, settings |-> Nothing, mapping |-> Nothing])
    IN  [c EXCEPT !.mapping = InitMapping(@)]
InitFilter(stored) == Merged(stored, [graph |-> <<>>, settings |-> Nothing])
InitMedia(stored) ==
    LET m == Merged(stored, [source |-> -1, stream |-> -1, encoder |-> Nothing,
                             decoder |-> Nothing, filter |-> Nothing])
    IN  [m EXCEPT !.encoder = InitCoder(@, "none"), !.decoder = InitCoder(@, "default"),
                  !.filter = InitFilter(@)]

\* The clock that counts frames is replaced in the part and in the whole graph.
RepairTimestamps(filter) ==
    IF "setpts" \notin DOMAIN filter.settings THEN filter
    ELSE LET s == filter.settings["setpts"].settings @@ FilterDefaults["setpts"]
         IN  [graph    |-> MigrateGraph(filter.graph, s),
              settings |-> [filter.settings EXCEPT !["setpts"].graph = Timestamps(s)]]
InitProfile(stored) ==
    LET p == Merged(stored, [video |-> Nothing, audio |-> Nothing, custom |-> Nothing])
        audio == InitMedia(p.audio)
        video == InitMedia(p.video)
    IN  [video  |-> [video EXCEPT !.filter = RepairTimestamps(@)],
         audio  |-> audio,
         custom |-> Merged(p.custom,
                           [selected |-> audio.source = 1,
                            stream   |-> IF audio.source = 1 THEN -2 ELSE audio.stream])]

\* A profile as it is stored, by any version: what it has of a source and of the choice
\* of the sound is what a cleaned up profile may have (cleanupProfile).
IsStoredMedia(m, sources) == "source" \in DOMAIN m => m.source \in sources
IsStored(p) ==
    /\ "video" \in DOMAIN p => IsStoredMedia(p.video, {-1, 0})
    /\ "audio" \in DOMAIN p => IsStoredMedia(p.audio, {-1, 0, 1})
    /\ "custom" \in DOMAIN p /\ "selected" \in DOMAIN p.custom => p.custom.selected \in BOOLEAN

\* ingestTransformers: before 1.2.0 the audio encoder had the settings of aresample.
Resampled(p) ==
    IF p.audio.encoder.coder \in {"copy", "none"} THEN p
    ELSE LET s == p.audio.encoder.settings
             old == {"layout", "sampling"}
             graph == Resample([f \in old |-> s[f]])
         IN  [p EXCEPT
                !.audio.filter =
                    [settings |-> [aresample |-> [settings |-> [f \in old |-> s[f]],
                                                  graph |-> graph]],
                     graph |-> graph],
                !.audio.encoder.settings = [f \in DOMAIN s \ old |-> s[f]]]

\* initIngestMetadata; "1.1.0" is any version before 1.2.0
InitIngestMetadata(stored) ==
    LET p == InitProfile(stored.profile)
    IN  [version |-> "1.2.0",
         sources |-> [i \in DOMAIN stored.sources |-> InitSource(stored.sources[i])],
         profile |-> IF stored.version = "1.2.0" THEN p ELSE Resampled(p),
         streams |-> stored.streams,
         control |-> stored.control]

-----------------------------------------------------------------------------
(* From a profile to ffmpeg *)

ValidStream(sources, m, type) ==
    /\ Within(sources, m.source)
    /\ LET source == At(sources, m.source)
       IN  /\ Within(source.streams, m.stream)
           /\ Within(source.inputs, At(source.streams, m.stream).index)
           /\ At(source.streams, m.stream).type = type

ValidateProfile(sources, p) ==
    p.video.encoder.coder # "none" /\ ValidStream(sources, p.video, "video")

\* What is used of the video or audio, whether or not the stream is there and of the type
HasMedia(m) == m.encoder.coder # "none" /\ m.source # -1 /\ m.stream # -1
HasAudio(p) == HasMedia(p.audio)
\* The code reads fields of a stream or an input that does not exist.
Throws(sources, p) ==
    /\ HasAudio(p)
    /\ ~( /\ Within(sources, p.audio.source)
          /\ Within(At(sources, p.audio.source).streams, p.audio.stream) )

\* The input of the audio is missing (only createInputsOutputs reads it).
ThrowsOnInput(sources, p) ==
    /\ HasAudio(p)
    /\ LET source == At(sources, p.audio.source)
       IN  ~Within(source.inputs, At(source.streams, p.audio.stream).index)

Selected(sources, m) == At(At(sources, m.source).streams, m.stream)
InputId(sources, m) == <<m.source, Selected(sources, m).index>>
InputOf(sources, id) == At(At(sources, id[1]).inputs, id[2])

\* The options of the decoder are put before those of the input, in place.
DecodeInput(sources, m) ==
    LET id == InputId(sources, m)
    IN  [sources EXCEPT ![id[1] + 1].inputs[id[2] + 1].options =
            m.decoder.mapping.local \o @]

EncodeOptions(m, filter) ==
    LET graph == m.filter.graph \o m.encoder.mapping.filter
    IN  (IF m.encoder.coder # "copy" /\ graph # <<>> THEN << <<filter, graph>> >>
         ELSE <<>>)
        \o m.encoder.mapping.local

Distinct(seq) == FoldLeft(LAMBDA d, x : IF Contains(d, x) THEN d ELSE Append(d, x), <<>>, seq)

AudioIndex(sources, p) ==
    IF InputId(sources, p.audio) = InputId(sources, p.video) THEN 0 ELSE 1

\* createInputsOutputs; sources: the sources, changed in place. InputsOutputs is
\* for a profile that need not have a video stream.
InputsOutputs(sources, p) ==
    LET v == DecodeInput(sources, p.video)
        a == IF HasAudio(p) THEN DecodeInput(v, p.audio) ELSE v
        index == IF HasAudio(p) THEN AudioIndex(sources, p) ELSE 0
        Map(i, m) == <<"-map", <<i, Selected(sources, m).stream>> >>
    IN  [global  |-> Distinct(p.video.decoder.mapping.global
                              \o p.video.encoder.mapping.global
                              \o (IF HasAudio(p) THEN p.audio.decoder.mapping.global
                                                      \o p.audio.encoder.mapping.global
                                  ELSE <<>>)),
         inputs  |-> <<InputOf(a, InputId(sources, p.video))>>
                     \o (IF index = 1 THEN <<InputOf(a, InputId(sources, p.audio))>>
                         ELSE <<>>),
         outputs |-> << <<Map(0, p.video)>> \o EncodeOptions(p.video, "-filter:v")
                        \o (IF HasAudio(p)
                            THEN <<Map(index, p.audio)>> \o EncodeOptions(p.audio, "-filter:a")
                            ELSE << <<"-an", "">> >>) >>,
         sources |-> a]
CreateInputsOutputs(sources, p) ==
    IF ValidateProfile(sources, p) THEN InputsOutputs(sources, p)
    ELSE [global |-> <<>>, inputs |-> <<>>, outputs |-> <<>>, sources |-> sources]

\* createOutputStreams: what the other pages are told about the streams
OutputStream(sources, m, registry, n) ==
    LET stream == Selected(sources, m)
    IN  [index |-> 0, stream |-> n, type |-> stream.type,
         codec |-> IF m.encoder.coder = "copy" THEN stream.codec
                   ELSE Get(registry, m.encoder.coder).codec]
OutputStreams(sources, p) ==
    LET video == IF HasMedia(p.video) THEN <<OutputStream(sources, p.video, Encoders.video, 0)>>
                 ELSE <<>>
    IN  video \o IF HasAudio(p)
                 THEN <<OutputStream(sources, p.audio, Encoders.audio, Len(video))>> ELSE <<>>
CreateOutputStreams(sources, p) ==
    IF ValidateProfile(sources, p) THEN OutputStreams(sources, p) ELSE <<>>

-----------------------------------------------------------------------------
(* After a probe *)

Types(streams) == { streams[i].type : i \in DOMAIN streams }

\* mutant: the status of a source without such a stream is one no view knows
AnalyzeStreams_Misnamed(type, streams) ==
    IF Types(streams) \cap {"video", "audio"} = {} THEN "error"
    ELSE IF type \notin Types(streams) THEN "nostreams" ELSE "success"
AnalyzeStreams(type, streams) ==
    IF Types(streams) \cap {"video", "audio"} = {} THEN "error"
    ELSE IF type \notin Types(streams) THEN "nostream" ELSE "success"

First(streams, type) ==
    IF type \in Types(streams)
    THEN (CHOOSE i \in DOMAIN streams :
            /\ streams[i].type = type
            /\ \A j \in 1..(i - 1) : streams[j].type # type) - 1
    ELSE -1

\* isVideoPlausible, isAudioPlausible: the selection may stay as it is.
Plausible(streams, m, type, codecs, registry) ==
    /\ Within(streams, m.stream)
    /\ At(streams, m.stream).type = type
    /\ IF m.encoder.coder = "copy" THEN At(streams, m.stream).codec \in codecs
       ELSE Get(registry, m.encoder.coder).codec \in codecs
VideoPlausible(streams, m) == Plausible(streams, m, "video", {"h264"}, Encoders.video)
AudioPlausible(streams, m) == Plausible(streams, m, "audio", {"aac", "mp3"}, Encoders.audio)

PreselectCoder(registry, stream, codecs, available) ==
    IF \E i \in DOMAIN codecs : stream.codec = codecs[i] THEN "copy"
    ELSE LET c == SelectSeq(codecs,
                            LAMBDA d : GetCoderForCodec(registry, d, available) # NoCoder)
         IN  IF c = <<>> THEN "none"
             ELSE GetCoderForCodec(registry, Head(c), available).coder

\* Only the name of the coder is set; settings and mapping are those of before.
Preselect(m, streams, type, codecs, registry, available) ==
    LET i == First(streams, type)
    IN  [m EXCEPT !.stream = i,
                  !.encoder.coder =
                     IF i = -1 THEN "none"
                     ELSE PreselectCoder(registry, At(streams, i), codecs, available)]
PreselectVideo(m, streams, encoders) ==
    LET v == Preselect(m, streams, "video", <<"h264">>, Encoders.video, encoders.video)
    IN  [v EXCEPT !.source = IF v.stream = -1 THEN @ ELSE 0]
PreselectAudio(m, streams, encoders) ==
    Preselect(m, streams, "audio", <<"aac", "mp3">>, Encoders.audio, encoders.audio)

\* preselectProfile for type "video"
PreselectProfile(streams, p, encoders, preselectAudio) ==
    LET v == IF VideoPlausible(streams, p.video) THEN p.video
             ELSE PreselectVideo(p.video, streams, encoders)
        a == PreselectAudio(p.audio, streams, encoders)
    IN  IF ~preselectAudio \/ AudioPlausible(streams, p.audio) THEN [p EXCEPT !.video = v]
        ELSE [video  |-> v,
              audio  |-> [a EXCEPT !.source = IF a.stream >= 0 THEN 0 ELSE @],
              custom |-> [selected |-> FALSE, stream |-> a.stream]]
\* and for type "audio"
PreselectAudioProfile(streams, p, encoders) ==
    LET a == IF AudioPlausible(streams, p.audio) THEN p.audio
             ELSE PreselectAudio(p.audio, streams, encoders)
    IN  [p EXCEPT !.audio = [a EXCEPT !.source = 1]]

\* cleanupProfile: the video source is the first one, the audio source the second
\* one only for an audio source of its own.
CleanupProfile(p) ==
    [p EXCEPT !.video.source = IF p.video.stream = -1 THEN -1 ELSE 0,
              !.audio.source = IF p.audio.stream = -1 THEN -1
                               ELSE IF p.custom.selected THEN 1 ELSE 0]
=============================================================================
