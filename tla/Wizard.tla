------------------------------- MODULE Wizard -------------------------------
(* The wizard that sets up a channel in a few questions, on the same Core as the
   page of Editor: ui/src/views/Edit/Wizard/index.js and the sources and steps
   under Wizard. A probe covers the page, so asking and answer are one step; the
   step "AUDIO RESULT" asks nothing and is the end of "AUDIO SETTINGS". *)
EXTENDS Editor

-----------------------------------------------------------------------------
(* Wizard/Sources: what the wizard sets in the settings of a source, and whether
   it lets the user go on. *)

WizardNetwork(s) == [settings |-> [s EXCEPT !.mode = "pull"], ready |-> s.protocol # ""]
InternalRTMP(s) ==
    [settings |-> [s EXCEPT !.mode = "push", !.push = "rtmp"], ready |-> "rtmp" \in env.servers]
InternalSRT(s) ==
    [settings |-> [s EXCEPT !.mode = "push", !.push = "srt"], ready |-> "srt" \in env.servers]
WizardAVFoundation(s) ==
    [settings |-> [s EXCEPT !.framerate = 30, !.size = "1920x1080"], ready |-> TRUE]
\* "none": the Core has no such camera
WizardV4L(s) == [settings |-> [s EXCEPT !.size = "1280x720"], ready |-> s.device # "none"]
WizardRaspicam(s) == [settings |-> s, ready |-> TRUE]

\* The registry of the wizard: InternalHLS is not in it, so that no button offers "hls".
WizardTypes == {"network", "rtmp", "srt", "avfoundation", "video4linux2", "raspicam"}
SourceType(sourceid) == IF sourceid \in {"rtmp", "srt"} THEN "network" ELSE sourceid
KnownSources ==
    { t \in WizardTypes :
        /\ SourceType(t) \in env.sources
        /\ t \in {"rtmp", "srt"} => t \in InputProtocols(env) }
WizardSource(sourceid, stored) ==
    LET s == stored @@ SourceSettings[SourceType(sourceid)]
    IN  CASE sourceid = "network"      -> WizardNetwork(s)
          [] sourceid = "rtmp"         -> InternalRTMP(s)
          [] sourceid = "srt"          -> InternalSRT(s)
          [] sourceid = "avfoundation" -> WizardAVFoundation(s)
          [] sourceid = "video4linux2" -> WizardV4L(s)
          [] sourceid = "raspicam"     -> WizardRaspicam(s)

-----------------------------------------------------------------------------
(* The steps *)

At1(step) == page.view = "wizard" /\ page.step = step
Turn(q) == page' = q /\ UNCHANGED <<env, core, count>>
Set(q) == Changed /\ page' = q /\ UNCHANGED <<env, core>>

WizardOpen ==
    /\ page = Closed
    /\ Turn([view |-> "wizard", step |-> "TYPE", back |-> "TYPE", sourceid |-> "",
             status |-> "none", asked |-> "none", touched |-> FALSE,
             sources |-> [video |-> InitSource(Nothing), audio |-> InitSource(Nothing)],
             profile |-> InitProfile(Nothing)])

ChooseType(sourceid) ==
    /\ At1("TYPE") /\ sourceid \in KnownSources
    /\ Turn([page EXCEPT !.sourceid = sourceid, !.step = "VIDEO SETTINGS"])

Source(type, settings, streams) ==
    [type |-> type, settings |-> settings, inputs |-> CreateInputs(type, settings, env),
     streams |-> streams]

\* probe: without an encoder for the codec the wizard stays where it is.
ProbeStatus(type, streams, profile) ==
    LET status == AnalyzeStreams(type, streams)
    IN  IF status = "success" /\ profile[type].encoder.coder = "none" THEN "nocoder" ELSE status
VideoAnswered(p, source, streams) ==
    LET profile == IF AnalyzeStreams("video", streams) = "success"
                   THEN PreselectProfile(streams, p.profile, env.encoders, TRUE) ELSE p.profile
        status == ProbeStatus("video", streams, profile)
    IN  [p EXCEPT !.sources.video = source, !.profile = profile, !.status = status,
                  !.step = IF status = "success" THEN "VIDEO RESULT" ELSE "VIDEO SETTINGS"]

WizardProbe(stored, streams) ==
    LET type == SourceType(page.sourceid)
        w == WizardSource(page.sourceid, stored)
    IN  /\ At1("VIDEO SETTINGS") /\ w.ready
        /\ Set(VideoAnswered(page, Source(type, w.settings, streams), streams))

BackToType ==
    /\ At1("VIDEO SETTINGS")
    /\ Turn([page EXCEPT !.status = "none", !.step = "TYPE",
                         !.sources.video = InitSource(Nothing)])

\* VIDEO RESULT: streams and, for other codecs than h264, encoder and decoder
VideoStream(p) == At(p.sources.video.streams, p.profile.video.stream)
WizardSelect(type, i) ==
    /\ IF type = "video" THEN At1("VIDEO RESULT")
       ELSE At1("AUDIO SETTINGS")
    /\ \E s \in ToSet(page.sources.video.streams) : s.type = type /\ s.stream = i
    /\ i # page.profile[type].stream
    /\ Set([page EXCEPT !.profile[type].stream = i, !.touched = @ \/ type = "audio"])
WizardEncoder(coder) ==
    /\ At1("VIDEO RESULT") /\ VideoStream(page).codec # "h264"
    /\ Get(Encoders.video, coder).codec = "h264" /\ coder \in env.encoders.video
    /\ coder # page.profile.video.encoder.coder
    /\ Set([page EXCEPT !.profile.video.encoder.coder = coder])
WizardDecoder(coder) ==
    /\ At1("VIDEO RESULT") /\ VideoStream(page).codec # "h264"
    /\ Cardinality(DecoderList(VideoStream(page), env)) >= 2
    /\ coder \in DecoderList(VideoStream(page), env) \ {page.profile.video.decoder.coder}
    /\ Set([page EXCEPT !.profile.video.decoder.coder = coder])

Silence == Source("virtualaudio", [source |-> "silence"], <<>>)
NoStream == [codec |-> ""]
WithCoder(m, what, registry, stream) ==
    LET d == Defaults(Get(registry, m[what].coder), stream, env.ffmpeg)
    IN  [m EXCEPT ![what].settings = d.settings, ![what].mapping = d.mapping]

\* handleNext of VIDEO RESULT: the first audio stream, or else silence
VideoChosen ==
    LET streams == page.sources.video.streams
        m == WithCoder(WithCoder(page.profile.video, "encoder", Encoders.video, NoStream),
                       "decoder", Decoders.video, NoStream)
        sound == First(streams, "audio") # -1
    IN  /\ At1("VIDEO RESULT")
        /\ VideoStream(page).codec # "h264" =>
              \E c \in env.encoders.video : Get(Encoders.video, c).codec = "h264"
        /\ Turn([page EXCEPT
                   !.step = "AUDIO SETTINGS", !.touched = FALSE,
                   !.profile.video = m,
                   !.profile.audio.source = IF sound THEN 0 ELSE 1,
                   !.profile.audio.stream = IF sound
                                            THEN At(streams, First(streams, "audio")).stream ELSE @,
                   !.sources.audio = IF sound THEN @ ELSE Silence])
BackToSettings == At1("VIDEO RESULT") /\ Turn([page EXCEPT !.step = "VIDEO SETTINGS"])

\* handleStream of AUDIO SETTINGS; the stream stays what it was.
WizardAudio(kind) ==
    LET source == CASE kind = "silence" -> Silence
                    [] kind = "alsa" -> Source("alsa", [device |-> "1,0"], <<>>)
                    [] OTHER -> InitSource(Nothing)
    IN  /\ At1("AUDIO SETTINGS")
        /\ kind = "video" => First(page.sources.video.streams, "audio") # -1
        /\ kind = "alsa" => /\ "alsa" \in env.sources
                            /\ page.sources.video.type \in {"video4linux2", "raspicam"}
        /\ Set([page EXCEPT
                   !.touched = TRUE, !.sources.audio = source,
                   !.profile.audio.source = CASE kind = "video" -> 0
                                              [] kind \in {"silence", "alsa"} -> 1
                                              [] OTHER -> -1])
BackToResult == At1("AUDIO SETTINGS") /\ Turn([page EXCEPT !.step = "VIDEO RESULT"])

\* handleNext of AUDIO RESULT: the options are those of "copy" or "aac", the name of
\* the encoder stays that of the preselection.
AudioResult(p) ==
    LET m == p.profile.audio
        stream == IF m.source = 0 THEN At(p.sources.video.streams, m.stream)
                  ELSE At(p.sources.audio.streams, m.stream)
        coder == Get(Encoders.audio, IF stream.codec \in {"aac", "mp3"} THEN "copy" ELSE "aac")
        d == Defaults(coder, stream, env.ffmpeg)
    IN  IF m.source = -1
        THEN [p EXCEPT !.profile.audio.stream = -1, !.asked = "none", !.step = "META"]
        ELSE [p EXCEPT !.profile.audio.encoder =
                          [coder |-> @.coder, settings |-> d.settings, mapping |-> d.mapping],
                       !.asked = IF m.source = 1 THEN "own"
                                 ELSE IF p.touched THEN "other" ELSE "video",
                       !.step = "META"]
\* "Audio from device" after "No audio": the stream is -1, the page breaks.
NoAudioStream(p) == p.profile.audio.source = 0 /\ p.profile.audio.stream = -1

AudioChosen ==
    /\ At1("AUDIO SETTINGS") /\ page.profile.audio.source # 1
    /\ Turn(IF NoAudioStream(page) THEN Stuck ELSE AudioResult(page))
AudioProbed(streams) ==
    LET found == AnalyzeStreams("audio", streams) = "success"
        profile == IF found THEN PreselectAudioProfile(streams, page.profile, env.encoders)
                   ELSE page.profile
        status == ProbeStatus("audio", streams, profile)
        q == [page EXCEPT !.sources.audio.streams = streams, !.profile = profile,
                          !.status = status]
    IN  /\ At1("AUDIO SETTINGS") /\ page.profile.audio.source = 1
        /\ Set(IF status = "success" THEN AudioResult(q) ELSE q)

BackToAudio == At1("META") /\ Turn([page EXCEPT !.step = "AUDIO SETTINGS"])
ToLicense == At1("META") /\ Turn([page EXCEPT !.step = "LICENSE"])
BackToMeta == At1("LICENSE") /\ Turn([page EXCEPT !.step = "META"])

-----------------------------------------------------------------------------
(* Saving and aborting *)

\* handleDone: errors after the first call are not even looked at. The preview is
\* left as it is.
WizardSave(done) ==
    LET sources == <<page.sources.video, page.sources.audio>>
        profile == CleanupProfile(page.profile)
        io == CreateInputsOutputs(sources, profile)
        control == UsedControl(DefaultControl, io.inputs)
        data == [version |-> "1.2.0", sources |-> io.sources, profile |-> profile,
                 streams |-> CreateOutputStreams(sources, profile), control |-> control]
        past == [asked |-> IF page.asked = "own" THEN "other" ELSE page.asked,
                 abandoned |-> FALSE]
    IN  /\ At1("LICENSE") /\ count.saves < env.saves
        /\ done # {"metadata", "snapshot"} => "failures" \in env.touched
        /\ io.inputs # <<>> /\ io.outputs # <<>>
        /\ core' = [core EXCEPT
                      !.ingest = IngestProcess(io.global, io.inputs, io.outputs[1],
                                               DefaultControl, env.servers),
                      !.meta = IF "metadata" \in done THEN data ELSE @,
                      !.snapshot = IF "snapshot" \in done THEN SnapshotProcess(control)
                                   ELSE @,
                      !.past = IF "metadata" \in done THEN past ELSE @,
                      !.asked = page.asked, !.by = "wizard",
                      !.whole = done = {"metadata", "snapshot"}]
        /\ page' = Closed
        /\ count' = [count EXCEPT !.saves = @ + 1]
        /\ UNCHANGED env

\* Refused by the Core: the step "DONE" is an empty page.
WizardSaveFails ==
    /\ At1("LICENSE") /\ count.saves < env.saves /\ "failures" \in env.touched
    /\ page' = Stuck
    /\ count' = [count EXCEPT !.saves = @ + 1]
    /\ UNCHANGED <<env, core>>

\* handleAbort, and the way back
WizardAbort ==
    /\ page.view = "wizard" /\ page.step # "ABORT"
    /\ Turn([page EXCEPT !.back = page.step, !.step = "ABORT"])
AbortBack == At1("ABORT") /\ Turn([page EXCEPT !.step = page.back])

WizardNext ==
    \/ WizardOpen
    \/ \E t \in WizardTypes : ChooseType(t)
    \/ \E streams \in env.found.video :
          page.view = "wizard" /\ page.sourceid \in WizardTypes
          /\ \E settings \in SourceChoices[SourceType(page.sourceid)] : WizardProbe(settings, streams)
    \/ \E type \in {"video", "audio"}, i \in 0..2 : WizardSelect(type, i)
    \/ \E coder \in env.encoders.video : WizardEncoder(coder)
    \/ \E coder \in env.decoders : WizardDecoder(coder)
    \/ VideoChosen \/ AudioChosen
    \/ \E kind \in {"video", "alsa", "silence", "none"} : WizardAudio(kind)
    \/ \E streams \in env.found.audio : AudioProbed(streams)
    \/ BackToType \/ BackToSettings \/ BackToResult \/ BackToAudio \/ BackToMeta \/ ToLicense
    \/ \E done \in SUBSET {"metadata", "snapshot"} : WizardSave(done)
    \/ WizardSaveFails \/ WizardAbort \/ AbortBack

Next ==
    \/ "editor" \in env.touched /\ (EditNext \/ ProfileNext)
    \/ "wizard" \in env.touched /\ WizardNext
    \/ Reload

Spec == Init /\ [][Next]_vars

-----------------------------------------------------------------------------
(* The audio setup recommends silence for a source without sound, since       *)
(* services require an audio channel (Wizard/Audio.js): a channel saved with  *)
(* the sound of a source of its own has that source as an input.              *)
SilenceKept ==
    Saved /\ core.whole /\ core.by = "wizard" /\ core.asked = "own"
    /\ core.meta.profile.audio.encoder.coder # "none" =>
        core.meta.sources[2].inputs[1] \in ToSet(core.ingest.input)
=============================================================================
