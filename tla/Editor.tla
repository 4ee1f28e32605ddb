------------------------------- MODULE Editor -------------------------------
(* The page on which a channel is set up: ui/src/views/Edit/index.js (loading,
   the controls, saving), Edit/Profile.js (the sources and the encoding),
   misc/EncodingSelect.js, misc/FilterSelect.js, Edit/SourceSelect.js and
   Edit/StreamSelect.js, with what they store in the Core.
   A probe covers the page until its answer is there, so it is one action. The
   components of coders and filters hand their settings back when they are shown:
   that is the rendering at the end of every action (Rendered).
   past and core.whole are history: past.asked is the kind of audio that was
   chosen ("other" if the video source was probed again, or another stream was
   taken, since), past.abandoned that a profile with other filter settings was
   abandoned; core.whole that the last save reached the Core completely. *)
EXTENDS EncodingSelect, Sources, Ingest

CONSTANTS
    Starts,        \* [env, core]: what ffmpeg and the Core have when we begin
    SourceChoices, \* settings a user may give to a source, for every type
    FilterChoices  \* settings a user may give to a filter

VARIABLES
    env,  \* coders, filters, sources, servers; found: what a probe may find;
          \* touched: what the user changes besides the sources, and whether the
          \* Core fails ("failures"); saves, changes: how often (bounds)
    core, \* what the Core has stored of the channel: processes and metadata
    page, \* the page
    count \* of saves and changes, up to env.saves and env.changes

vars == <<env, core, page, count>>

\* Nothing of the channel is saved when we begin. Its controls are settings, its
\* profile one a page or the wizard may have stored, the hours a rewind window has at
\* most are a number, and so are the bounds.
CoreFields == {"ingest", "meta", "snapshot", "preview", "past", "asked", "by", "whole"}
Kinds == {"none", "video", "own", "other"}
ASSUME StartsAssumption ==
    \A start \in Starts :
        /\ DOMAIN start.core = CoreFields /\ start.core.ingest = <<>>
        /\ "control" \in DOMAIN start.core.meta /\ IsControl(start.core.meta.control)
        /\ IsStored(start.core.meta.profile)
        /\ "asked" \in DOMAIN start.core.past /\ start.core.past.asked \in Kinds
        /\ start.env.maxHours \in Int /\ start.env.saves \in Nat /\ start.env.changes \in Nat

Closed == [view |-> "closed"]
\* An exception leaves the page covered, or empty, until it is loaded again.
Stuck == [view |-> "stuck"]
Statuses == {"none", "error", "nostream", "success", "nocoder"}

-----------------------------------------------------------------------------
(* Rendering *)

OwnAudio(p) == p.profile.custom.selected
AudioStreams(p) == IF OwnAudio(p) THEN p.sources.audio.streams ELSE p.sources.video.streams
StreamsOf(p, type) == IF type = "video" THEN p.sources.video.streams ELSE AudioStreams(p)
VideoCodecs == {"copy", "h264", "hevc", "av1", "vp8", "vp9"}
AudioCodecs(p) == {"copy", "aac", "mp3"} \cup (IF OwnAudio(p) THEN {} ELSE {"opus"})
CodecsOf(p, type) == IF type = "video" THEN VideoCodecs ELSE AudioCodecs(p)

\* The part of the profile whose encoding can be set is on the page.
StreamShown(p, type) ==
    CASE type = "video" -> p.step = 0 /\ p.vstatus = "success"
      [] type = "audio" -> /\ p.step = 1
                           /\ IF OwnAudio(p) THEN p.astatus = "success"
                              ELSE p.profile.custom.stream >= 0
StreamUsed(p, type) == At(StreamsOf(p, type), p.profile[type].stream)
EncoderChoice(p, type) ==
    EncoderList(StreamsOf(p, type), p.profile[type], type, CodecsOf(p, type), env)
EncoderOnPage(p, type) ==
    /\ StreamShown(p, type)
    /\ EncodingShown(StreamsOf(p, type), p.profile[type], type, CodecsOf(p, type), env)
DecoderOnPage(p, type) ==
    /\ StreamShown(p, type)
    /\ DecoderShown(StreamsOf(p, type), p.profile[type], type, CodecsOf(p, type), env)
FiltersShown(p, type) ==
    /\ StreamShown(p, type)
    /\ p.profile[type].encoder.coder \notin {"none", "copy"}
    /\ type = "audio" /\ ~OwnAudio(p) => p.profile.audio.source # -1

\* The components on the page; a change of the coder is another component.
Mounted(p) ==
    { <<type, "encoder", p.profile[type].encoder.coder, OwnAudio(p)>> :
      type \in { t \in {"video", "audio"} : EncoderOnPage(p, t) } }
    \cup { <<type, "decoder", p.profile[type].decoder.coder, OwnAudio(p)>> :
           type \in { t \in {"video", "audio"} :
                        /\ DecoderOnPage(p, t)
                        /\ p.profile[t].decoder.coder \in env.decoders } }
    \cup { <<type, "filters", "", OwnAudio(p)>> :
           type \in { t \in {"video", "audio"} : FiltersShown(p, t) } }

\* mutant: the component of an encoder does not report when it is mounted
MountEncoder_Silent(p, type) == p
MountEncoder(p, type) ==
    [p EXCEPT !.profile[type].encoder = Handed(@, Encoders[type], StreamUsed(p, type), env)]
MountDecoder(p, type) ==
    [p EXCEPT !.profile[type].decoder = Handed(@, Decoders[type], StreamUsed(p, type), env)]
MountFilterSelect(p, type) ==
    [p EXCEPT !.profile[type].filter = MountFilters(@, type, env.filters)]

\* q after its rendering, when the components before were there already
Rendered(before, q) ==
    LET new == Mounted(q) \ before
        Is(type, what) == \E m \in new : m[1] = type /\ m[2] = what
        Coded(p, type) ==
            LET d == IF Is(type, "decoder") THEN MountDecoder(p, type) ELSE p
                e == IF Is(type, "encoder") THEN MountEncoder(d, type) ELSE d
            IN  IF Is(type, "filters") THEN MountFilterSelect(e, type) ELSE e
    IN  Coded(Coded(q, "video"), "audio")

-----------------------------------------------------------------------------
(* Loading and leaving the page *)

\* load of Edit/index.js; without sources the page begins with the profile
Loaded(meta) ==
    [view |-> "edit", data |-> meta, pseudo |-> {}, past |-> core.past,
     complete |-> ValidateProfile(meta.sources, meta.profile)]

\* load of Profile.js
OpenProfile(p, step) ==
    LET data == p.data
        Source(i) == IF Within(data.sources, i) THEN InitSource(At(data.sources, i))
                     ELSE InitSource(Nothing)
        hasAudio == "audio" \in Types(Source(0).streams)
        q == [view |-> "profile", data |-> data, complete |-> p.complete, past |-> p.past,
              sources |-> [video |-> Source(0), audio |-> Source(1)],
              profile |-> InitProfile(data.profile), before |-> p.past,
              vstatus |-> "none", astatus |-> "none", step |-> step,
              pseudo |-> IF hasAudio THEN p.pseudo \cup {"videoaudio"}
                         ELSE p.pseudo \ {"videoaudio"}]
    IN  Rendered({}, q)

Open ==
    /\ page = Closed
    /\ LET p == Loaded(InitIngestMetadata(core.meta))
       IN  page' = IF p.data.sources = <<>> THEN OpenProfile(p, 0) ELSE p
    /\ UNCHANGED <<env, core, count>>

Leave == page.view = "edit" /\ page' = Closed /\ UNCHANGED <<env, core, count>>

Edit(step) ==
    /\ page.view = "edit"
    /\ page' = OpenProfile(page, step)
    /\ UNCHANGED <<env, core, count>>

-----------------------------------------------------------------------------
(* The profile *)

\* An event of the page q, whose components are those of now
Show(q) == page' = Rendered(Mounted(page), q) /\ UNCHANGED <<env, core>>
Changed == /\ count.changes < env.changes
           /\ count' = [count EXCEPT !.changes = @ + 1]

AudioSource(sources) == InitSource(sources.audio)

\* mutant: the inputs are those of the first probe
ProbedSource_KeepsInputs(old, type, settings, inputs, streams) ==
    [type |-> type, settings |-> settings, streams |-> streams,
     inputs |-> IF old.inputs = <<>> THEN inputs ELSE old.inputs]
ProbedSource(old, type, settings, inputs, streams) ==
    [type |-> type, settings |-> settings, inputs |-> inputs, streams |-> streams]

\* handleProbeStreams for the video source
ProbedVideo(p, type, settings, inputs, streams) ==
    LET first == p.sources.audio.type = ""
        hasAudio == "audio" \in Types(streams)
        muted == ~hasAudio /\ p.sources.audio.type \in {"", "videoaudio"}
        audioType == IF hasAudio /\ first THEN "videoaudio"
                     ELSE IF muted THEN "noaudio" ELSE p.sources.audio.type
        pre == PreselectProfile(streams, p.profile, env.encoders, first)
    IN  [p EXCEPT
           !.profile = IF muted
                       THEN [pre EXCEPT !.audio.source = -1, !.audio.stream = -1,
                                        !.custom = [selected |-> FALSE, stream |-> -1]]
                       ELSE pre,
           !.pseudo = (@ \cup {"noaudio", "sdp"} \cup {"videoaudio"})
                      \ (IF hasAudio THEN {} ELSE {"videoaudio"}),
           !.sources = [video |-> ProbedSource(p.sources.video, type, settings, inputs, streams),
                        audio |-> [AudioSource(p.sources) EXCEPT !.type = audioType]],
           !.past.asked = IF muted THEN "none" ELSE IF first THEN "video"
                          ELSE IF @ = "video" /\ First(streams, "audio") # p.profile.audio.stream
                               THEN "other" ELSE @,
           !.vstatus = AnalyzeStreams("video", streams),
           !.astatus = IF audioType = "noaudio" THEN "success" ELSE "none"]

\* and for the audio source
ProbedAudio(p, type, settings, inputs, streams) ==
    [p EXCEPT !.profile = PreselectAudioProfile(streams, @, env.encoders),
              !.sources.audio = ProbedSource(@, type, settings, inputs, streams),
              !.astatus = AnalyzeStreams("audio", streams)]

\* The view of the probe's answer is new: the status was "none" while it ran.
ProbeVideo(type, settings, streams) ==
    /\ Changed /\ page.view = "profile" /\ page.step = 0
    /\ type \in env.sources \cup (page.pseudo \cap {"sdp"}) /\ "video" \in Capabilities[type]
    /\ ProbePossible(type, settings, env)
    /\ page' = Rendered({}, ProbedVideo(page, type, settings,
                                        CreateInputs(type, settings, env), streams))
    /\ UNCHANGED <<env, core>>

ProbeAudio(settings, streams) ==
    LET type == page.sources.audio.type
    IN  /\ Changed /\ page.view = "profile" /\ page.step = 1
        /\ type \in env.sources /\ "audio" \in Capabilities[type]
        /\ ProbePossible(type, settings, env)
        /\ page' = Rendered({}, ProbedAudio(page, type, settings,
                                            CreateInputs(type, settings, env), streams))
        /\ UNCHANGED <<env, core>>

\* handleHintDone: the streams of a source that could not be probed are given by hand.
Hint(type) ==
    LET s == page.sources[type]
        video == << [type |-> "video", codec |-> "h264", index |-> 0, stream |-> 0] >>
        audio == << [type |-> "audio", codec |-> "aac", index |-> 1, stream |-> 0] >>
    IN  /\ Changed /\ page.view = "profile" /\ s.inputs # <<>>
        /\ \/ /\ type = "video" /\ page.step = 0 /\ page.vstatus = "error"
              /\ Show(ProbedVideo(page, s.type, s.settings, s.inputs, video))
           \/ /\ type = "audio" /\ page.step = 1 /\ OwnAudio(page) /\ page.astatus = "error"
              /\ Show(ProbedAudio(page, s.type, s.settings, s.inputs, audio))

\* SourceSelect, handleSourceSettingsChange and handleSourceChange: another source,
\* or other settings; the video source is taken over by the probe only.
ChangeVideoSource ==
    /\ Changed /\ page.view = "profile" /\ page.step = 0
    /\ Show([page EXCEPT !.vstatus = "none"])

\* mutant: the answer of the last probe still counts
SelectedAudio_KeepsStatus(p, type) ==
    LET i == First(p.sources.video.streams, "audio")
        own == type \notin {"noaudio", "videoaudio"}
    IN  [p EXCEPT !.sources.audio.type = type,
                  !.past.asked = IF own THEN "own" ELSE IF type = "noaudio" THEN "none" ELSE "video",
                  !.profile.custom =
                     [selected |-> own, stream |-> IF own THEN -2
                                                   ELSE IF type = "noaudio" THEN -1 ELSE i],
                  !.profile.audio.source = IF own THEN 1 ELSE IF type = "noaudio" THEN -1 ELSE 0,
                  !.profile.audio.stream = IF type = "videoaudio" THEN i ELSE -1]
SelectedAudio(p, type) == [SelectedAudio_KeepsStatus(p, type) EXCEPT !.astatus = "none"]

SelectAudio(type) ==
    /\ Changed /\ page.view = "profile" /\ page.step = 1
    /\ type \in env.sources \cup (page.pseudo \cap {"noaudio", "videoaudio"})
    /\ "audio" \in Capabilities[type]
    /\ Show(SelectedAudio(page, type))

\* StreamSelect: the number ffmpeg gave the stream is taken for its position.
SelectStream(type, i) ==
    /\ Changed /\ page.view = "profile" /\ "streams" \in env.touched /\ StreamShown(page, type)
    /\ \E s \in ToSet(StreamsOf(page, type)) : s.type = type /\ s.stream = i
    /\ i # page.profile[type].stream
    /\ Show([page EXCEPT !.profile[type].stream = i,
                         !.past.asked = IF type = "audio" /\ @ = "other" THEN "video" ELSE @,
                         !.profile.custom.stream =
                            IF type = "audio" /\ ~OwnAudio(page) THEN i ELSE @])

\* handleEncoderChange, handleDecoderChange
ChangeEncoder(type, coder) ==
    /\ Changed /\ page.view = "profile" /\ "coders" \in env.touched /\ EncoderOnPage(page, type)
    /\ coder \in EncoderChoice(page, type) /\ coder # page.profile[type].encoder.coder
    /\ Show([page EXCEPT !.profile[type].encoder =
                WithDefaults(Get(Encoders[type], coder), StreamUsed(page, type), env)])
ChangeDecoder(coder) ==
    /\ Changed /\ page.view = "profile" /\ "coders" \in env.touched /\ DecoderOnPage(page, "video")
    /\ coder \in DecoderList(StreamUsed(page, "video"), env)
    /\ coder # page.profile.video.decoder.coder
    /\ Show([page EXCEPT !.profile.video.decoder =
                WithDefaults(Get(Decoders.video, coder), StreamUsed(page, "video"), env)])

\* The settings of the component of an encoder.
ChangeKeyFrames(gop) ==
    LET e == page.profile.video.encoder
    IN  /\ Changed /\ page.view = "profile" /\ "coders" \in env.touched /\ EncoderOnPage(page, "video")
        /\ "gop" \in DOMAIN e.settings /\ e.settings.gop # gop
        /\ Show([page EXCEPT !.profile.video.encoder =
                    WithKeyFrames(@, gop, StreamUsed(page, "video"), env)])

\* The settings of a filter are shared with the page behind, even if the profile
\* is abandoned (OpenProfile copies the profile, not the settings).
ChangeFilterSettings(type, f, s) ==
    LET filter == ChangeFilter(page.profile[type].filter, type, f, s)
    IN  /\ Changed /\ page.view = "profile" /\ "filters" \in env.touched /\ FiltersShown(page, type)
        /\ f \in env.filters \cap ToSet(Registered[type])
        /\ page.profile[type].filter.settings[f].settings # s
        /\ Show([page EXCEPT !.profile[type].filter = filter])

NextStep ==
    /\ page.view = "profile" /\ page.step = 0 /\ page.vstatus = "success"
    /\ Show([page EXCEPT !.step = 1])
    /\ UNCHANGED count
BackStep ==
    /\ page.view = "profile" /\ page.step = 1
    /\ Show([page EXCEPT !.step = 0])
    /\ UNCHANGED count

\* handleDone of Profile.js and handleSourceDone; an error leaves the page as it is.
FinishPossible(p) == p.step = 1 /\ (OwnAudio(p) => p.astatus = "success")
Finish ==
    LET sources == <<page.sources.video, page.sources.audio>>
        profile == CleanupProfile(page.profile)
        complete == ValidateProfile(sources, profile)
    IN  /\ page.view = "profile" /\ FinishPossible(page)
        /\ ~(complete /\ Throws(sources, profile))
        /\ page' = [view |-> "edit", pseudo |-> page.pseudo, past |-> page.past,
                    complete |-> complete,
                    data |-> [page.data EXCEPT
                                !.sources = sources, !.profile = profile,
                                !.streams = CreateOutputStreams(sources, profile)]]
        /\ UNCHANGED <<env, core, count>>

\* handleSourceAbort; what the filters were set to has been changed in place.
Abandoned(p) ==
    [p.data EXCEPT
       !.profile.video.filter.settings = p.profile.video.filter.settings,
       !.profile.audio.filter.settings = p.profile.audio.filter.settings]
Abort ==
    /\ page.view = "profile"
    /\ page' = [view |-> "edit", pseudo |-> page.pseudo,
                past |-> [page.before EXCEPT !.abandoned = @ \/ Abandoned(page) # page.data],
                complete |-> page.complete, data |-> Abandoned(page)]
    /\ UNCHANGED <<env, core, count>>

-----------------------------------------------------------------------------
(* Controls and saving *)

\* handleControlChange
ChangeControl(control) ==
    /\ Changed /\ page.view = "edit" /\ "controls" \in env.touched /\ control # page.data.control
    /\ page' = [page EXCEPT !.data.control = control]
    /\ UNCHANGED <<env, core>>

ControlChoice(c) ==
    { [c EXCEPT !.hls = ChangeHLS(@, what, env.maxHours)] :
      what \in {"dvr", "master_playlist", "storage", "version"} }
    \cup {[c EXCEPT !.process = ChangeProcess(@)], [c EXCEPT !.rtmp = ChangeRTMP(@)],
          [c EXCEPT !.srt = ChangeSRT(@)], [c EXCEPT !.snapshot = ChangeSnapshot(@)],
          [c EXCEPT !.preview = ChangePreview(@)]}

\* handleDone of Edit/index.js. done: the calls that reach the Core; a call that
\* fails after the first one is only reported. inputs and control are changed in
\* place before the metadata is saved.
Calls == {"metadata", "snapshot", "preview"}
SavedIn(c, data, io, done) ==
    LET control == UsedControl(data.control, io.inputs)
        meta == [data EXCEPT !.sources = io.sources, !.control = control]
    IN  [c EXCEPT
           !.ingest = IngestProcess(io.global, io.inputs, io.outputs[1], data.control, env.servers),
           !.meta = IF "metadata" \in done THEN meta ELSE @,
           !.snapshot = IF "snapshot" \in done THEN SnapshotProcess(control) ELSE @,
           !.preview = IF "preview" \in done THEN PreviewProcess(control) ELSE @,
           !.past = IF "metadata" \in done THEN page.past ELSE @,
           !.asked = page.past.asked, !.by = "editor", !.whole = done = Calls]

SavePossible == page.view = "edit" /\ page.complete /\ count.saves < env.saves
Save(done) ==
    LET io == CreateInputsOutputs(page.data.sources, page.data.profile)
    IN  /\ SavePossible /\ ~ThrowsOnInput(page.data.sources, page.data.profile)
        /\ done # Calls => "failures" \in env.touched
        /\ io.inputs # <<>> /\ io.outputs # <<>>
        /\ core' = SavedIn(core, page.data, io, done)
        /\ page' = Closed
        /\ count' = [count EXCEPT !.saves = @ + 1]
        /\ UNCHANGED env

\* The Core refuses the process, or does not answer: the page stays.
SaveFails ==
    LET io == CreateInputsOutputs(page.data.sources, page.data.profile)
    IN  /\ SavePossible /\ ~ThrowsOnInput(page.data.sources, page.data.profile)
        /\ "failures" \in env.touched
        /\ page' = [page EXCEPT !.data.sources = io.sources,
                                !.data.control = UsedControl(@, io.inputs)]
        /\ count' = [count EXCEPT !.saves = @ + 1]
        /\ UNCHANGED <<env, core>>

\* Nothing catches the exception: the page stays covered.
SaveThrows ==
    /\ SavePossible /\ ThrowsOnInput(page.data.sources, page.data.profile)
    /\ page' = Stuck
    /\ count' = [count EXCEPT !.saves = @ + 1]
    /\ UNCHANGED <<env, core>>

Reload == page = Stuck /\ page' = Closed /\ UNCHANGED <<env, core, count>>

-----------------------------------------------------------------------------
Init == /\ \E start \in Starts : env = start.env /\ core = start.core
        /\ page = Closed
        /\ count = [saves |-> 0, changes |-> 0]

ProfileNext ==
    \/ \E type \in env.sources \cup {"sdp"}, streams \in env.found.video :
          \E settings \in SourceChoices[type] : ProbeVideo(type, settings, streams)
    \/ \E type \in env.sources, streams \in env.found.audio :
          /\ page.view = "profile" /\ page.sources.audio.type = type
          /\ \E settings \in SourceChoices[type] : ProbeAudio(settings, streams)
    \/ \E type \in {"video", "audio"} : Hint(type)
    \/ ChangeVideoSource
    \/ \E type \in env.sources \cup {"noaudio", "videoaudio"} : SelectAudio(type)
    \/ \E type \in {"video", "audio"}, i \in 0..2 : SelectStream(type, i)
    \/ \E type \in {"video", "audio"} : \E coder \in env.encoders[type] : ChangeEncoder(type, coder)
    \/ \E coder \in env.decoders : ChangeDecoder(coder)
    \/ \E gop \in {Automatic, 2} : ChangeKeyFrames(gop)
    \/ \E type \in {"video", "audio"} : \E f \in env.filters :
          \E s \in FilterChoices[f] : ChangeFilterSettings(type, f, s)
    \/ NextStep \/ BackStep \/ Finish \/ Abort

EditNext ==
    \/ Open \/ Leave
    \/ \E step \in {0, 1} : Edit(step)
    \/ page.view = "edit" /\ \E c \in ControlChoice(page.data.control) : ChangeControl(c)
    \/ \E done \in SUBSET Calls : Save(done)
    \/ SaveFails \/ SaveThrows \/ Reload

-----------------------------------------------------------------------------
(* What the processes in the Core are to be *)

Saved == core.ingest # <<>>

(* Types; a channel that was saved completely can be opened and saved again.  *)
TypeOK ==
    /\ page.view \in {"closed", "edit", "profile", "wizard", "stuck"}
    /\ page.view = "profile" =>
          /\ page.vstatus \in Statuses /\ page.astatus \in Statuses
          /\ page.step \in {0, 1} /\ page.pseudo \subseteq {"noaudio", "sdp", "videoaudio"}
          /\ page.profile.custom.selected \in BOOLEAN
          /\ page.profile.audio.source \in -1..1 /\ page.profile.video.source \in -1..0
    /\ page.view = "edit" => page.past.asked \in Kinds /\ page.complete \in BOOLEAN
    /\ count.saves \in 0..env.saves /\ count.changes \in 0..env.changes
    /\ Saved /\ core.whole => ValidateProfile(core.meta.sources, core.meta.profile)

(* The sound of the channel is that of the source that was chosen for it: no  *)
(* sound, an audio stream of the video source, or one of the audio source;    *)
(* and the picture is that of the video source (Profile.js, createInputsOutputs *)
(* with the numbering of the inputs, cleanupProfile). Left out is what was    *)
(* chosen before the video source was probed again ("other").                 *)
AudioAsChosen ==
    Saved /\ core.whole =>
        LET o == core.ingest.output
            maps == SelectSeq(o, LAMBDA x : x[1] = "-map")
            From(map, source, type) ==
                /\ Within(core.ingest.input, map[2][1])
                /\ \E i \in DOMAIN source.streams :
                      LET t == source.streams[i]
                      IN  /\ t.type = type /\ t.stream = map[2][2]
                          /\ Within(source.inputs, t.index)
                          /\ At(source.inputs, t.index) = At(core.ingest.input, map[2][1])
            audio == maps[2]
        IN  /\ From(maps[1], core.meta.sources[1], "video")
            /\ core.asked = "none" => Len(maps) = 1 /\ OptionsNamed(o, "-an") # {}
            /\ core.asked = "video" /\ core.meta.profile.audio.encoder.coder # "none" =>
                  Len(maps) = 2 /\ From(audio, core.meta.sources[1], "audio")
            /\ core.asked = "own" /\ core.by = "editor"
               /\ core.meta.profile.audio.encoder.coder # "none" =>
                  Len(maps) = 2 /\ From(audio, core.meta.sources[2], "audio")

(* What the other pages read of the streams of the channel is what its        *)
(* process makes: the codec of the source if it is copied, or else that of    *)
(* ffmpeg's encoder (createOutputStreams against the options; a probe sets    *)
(* the name of a coder only, its options come from the component on the page). *)
EncodesAsListed ==
    Saved /\ core.whole /\ core.by = "editor" =>
        \A i \in { j \in DOMAIN core.meta.streams : j = 1 \/ core.asked # "other" } :
            LET listed == core.meta.streams[i]
                used == OptionsNamed(core.ingest.output,
                                     IF listed.type = "video" THEN "-codec:v" ELSE "-codec:a")
                m == core.meta.profile[IF i = 1 THEN "video" ELSE "audio"]
            IN  /\ Cardinality(used) = 1
                /\ \A coder \in used :
                      IF coder = "copy"
                      THEN listed.codec = Selected(core.meta.sources, m).codec
                      ELSE coder \in EncoderCodecs[listed.codec]

(* The process reads what the settings of the sources say: the inputs of a    *)
(* used source are made of the settings stored with it, after nothing but     *)
(* options of decoders (handleSourceSettingsChange, the probes, and saving,   *)
(* which changes the stored inputs in place).                                 *)
DecoderOptions == {"-c:v", "-gpu", "-resize", "-hwaccel", "-hwaccel_output_format",
                   "-hwaccel_device"}
InputFits(input, made) ==
    LET more == Len(input.options) - Len(made.options)
    IN  /\ input.address = made.address /\ input.stability = made.stability
        /\ more >= 0
        /\ \A j \in DOMAIN input.options :
              IF j <= more THEN input.options[j][1] \in DecoderOptions
              ELSE input.options[j] = made.options[j - more]
SourceCurrent(source, ff) ==
    LET made == CreateInputs(source.type, source.settings, ff)
    IN  /\ Len(made) = Len(source.inputs)
        /\ \A i \in DOMAIN made : InputFits(source.inputs[i], made[i])
InputsCurrent ==
    Saved /\ core.whole =>
        \A type \in { t \in {"video", "audio"} : core.meta.profile[t].source # -1 } :
            SourceCurrent(At(core.meta.sources, core.meta.profile[type].source), env)

(* The picture and the sound go through the filters that are set, each one    *)
(* once and in their order, the overlay after all others and the transfer to  *)
(* the device at the end; never through the old clock that counts frames      *)
(* (FilterSelect.js, composeGraph, createInputsOutputs, the repair when a     *)
(* profile is loaded). Left out are profiles after an abandoned edit.         *)
Places(graph, part) ==
    { i \in 1..(Len(graph) - Len(part) + 1) : SubSeq(graph, i, i + Len(part) - 1) = part }
FiltersAsSet ==
    Saved /\ core.whole /\ ~core.past.abandoned =>
        \A type \in { t \in {"video", "audio"} :
                        /\ core.meta.profile[t].source # -1
                        /\ core.meta.profile[t].encoder.coder \notin {"copy", "none"} } :
            LET m == core.meta.profile[type]
                graphs == OptionsNamed(core.ingest.output,
                                       IF type = "video" THEN "-filter:v" ELSE "-filter:a")
                graph == IF graphs = {} THEN <<>> ELSE CHOOSE g \in graphs : TRUE
                Part(f) == CreateGraph(f, m.filter.settings[f].settings @@ FilterDefaults[f])
                order == SelectSeq(Registered[type], LAMBDA f : f \in DOMAIN m.filter.settings
                                                                /\ Part(f) # <<>>)
                upload == m.encoder.mapping.filter
            IN  /\ \A i \in DOMAIN graph : graph[i][1] # LegacyClock
                /\ \A i \in DOMAIN order :
                      /\ Cardinality(Places(graph, Part(order[i]))) = 1
                      /\ \A j \in 1..(i - 1) :
                            \A k \in Places(graph, Part(order[i])), l \in Places(graph, Part(order[j])) :
                               l < k
                /\ upload # <<>> => Places(graph, upload) = {Len(graph) - Len(upload) + 1}

(* Cleaning up takes nothing a player still asks for, and leaves nothing: the *)
(* segments the playlist lists or that left it lately are kept, all of a      *)
(* rewind window for however long its segments are, playlists are not counted *)
(* and every file is purged with the process; snapshot and preview read a     *)
(* file the process writes (UpsertIngest, UpsertIngestSnapshot,               *)
(* UpsertIngestPreview).                                                      *)
FilesKept ==
    Saved =>
        LET p == core.ingest
            listed == p.hls.listSize + DeleteThreshold
        IN  /\ \A r \in p.rules :
                  IF r.file = SegmentFile(p.hls)
                  THEN /\ r.max_files = 0 \/ r.max_files >= listed
                       /\ \/ r.max_age = 0
                          \/ ~p.hls.dvr.enabled /\ r.max_age >= p.hls.segmentDuration * listed
                  ELSE r.max_files = 0
            /\ p.hls.cleanup =>
                  \A f \in p.files : \E r \in p.rules : r.file = f /\ r.max_files = 0 /\ r.max_age = 0
            /\ p.hls.dvr.enabled =>
                  p.hls.storage = "diskfs" /\ p.hls.listSize * p.hls.segmentDuration >= p.hls.dvr.hours * 3600
            /\ core.whole => core.snapshot.input \in p.files
            /\ core.whole /\ core.by = "editor" => core.preview.input \in p.files

-----------------------------------------------------------------------------
(* What is stored of the channel when we begin. *)

\* An input as the sources make it (Sources/*.js createInputs).
IsInput(input) ==
    HasFields(input, {"address", "options", "stability"}) /\ IsList(input.options)
AreInputs(inputs) == IsList(inputs) /\ \A i \in DOMAIN inputs : IsInput(inputs[i])
IsCurrent(source, ff) ==
    /\ source.type \in DOMAIN SourceSettings /\ AreInputs(source.inputs)
    /\ SourceCurrent(source, ff)
\* A decoder of a profile has a coder of the registry and nothing but options of decoders.
IsDecoder(d) ==
    LET local == d.mapping.local
    IN  /\ HasFields(d, {"coder", "settings", "mapping"})
        /\ HasFields(d.mapping, {"global", "local", "filter"}) /\ "array" \notin DOMAIN d.mapping
        /\ \E c \in ToSet(Decoders.video) : c.coder = d.coder
        /\ IsList(local) /\ \A x \in ToSet(local) : x[1] \in DecoderOptions
HasDecoders(profile) ==
    \A type \in Media : HasFields(profile[type], {"decoder"}) /\ IsDecoder(profile[type].decoder)
\* A source that was probed has the inputs of its settings.
IsProbed(source, ff) == source.inputs = <<>> \/ IsCurrent(source, ff)
SourceFields == {"type", "settings", "inputs", "streams"}
IsUpToDate(sources, profile, ff) ==
    /\ HasDecoders(profile) /\ DOMAIN sources \subseteq {1, 2}
    /\ \A i \in DOMAIN sources : HasFields(sources[i], SourceFields)
    /\ 1 \in DOMAIN sources => IsProbed(sources[1], ff)
    /\ profile.audio.source = 1 => 2 \in DOMAIN sources /\ IsCurrent(sources[2], ff)
    /\ profile.custom.selected /\ 2 \in DOMAIN sources => sources[2].type # "noaudio"

\* What is stored was made with the ffmpeg there is; the sources that are offered are
\* registered (Edit/Sources/index.js).
ASSUME SourcesAssumption ==
    \A start \in Starts :
        /\ start.env.sources \subseteq DOMAIN SourceSettings
        /\ LET stored == InitIngestMetadata(start.core.meta)
           IN  IsUpToDate(stored.sources, stored.profile, start.env)
=============================================================================
