----------------------------- MODULE Publication -----------------------------
(* The pages on which a channel is published to a service: ui/src/views/
   Publication/Add.js, Edit.js and helper.js, with what they store in the Core
   (restreamer.js: CreateEgress, UpdateEgress, SetEgressMetadata, DeleteEgress).
   There is one publication. The streams of the channel may change at any time;
   the page works with those it loaded.
   The components of the selected tab hand their settings back when they are
   mounted: that is the rendering at the end of every action (Rendered). Each of
   them replaces the settings by those it was rendered with and its own part, so
   the last one wins; the profile is shared and changed in place.
   core.egress.loaded and .outdated are history: the streams the page had
   loaded, and that the publication was opened with other streams than those its
   outputs were made for and nothing made them anew, or that this is what is
   stored of it. *)
EXTENDS EncodingSelect, Services

CONSTANTS
    Starts,         \* [env, core]: what ffmpeg and the Core have when we begin
    SettingChoices  \* settings a user may give to a service, for every service

VARIABLES
    env,   \* what ffmpeg has: ffmpeg, encoders, decoders, filters, codecs, protocols,
           \* formats, sinks; found: the streams the channel may get; services: those
           \* a user may want; touched; changes: how many (bound)
    core,  \* streams, source: of the channel; egress: the publication
    page,  \* the page
    count  \* of changes

vars == <<env, core, page, count>>

Closed == [view |-> "closed"]
\* An exception while saving leaves the page covered.
Stuck == [view |-> "stuck"]
NoEgress == <<>>

-----------------------------------------------------------------------------
(* helper.js *)

NoSkills == [ffmpeg |-> 0, codecs |-> [video |-> <<>>, audio |-> <<>>]]
Requires(id) == ServiceOf(id, NoSettings, NoSkills, <<>>)
HasOne(required, available) == required = {} \/ required \cap available # {}

CheckServiceRequirements(id) ==
    LET r == Requires(id)
    IN  /\ HasOne(r.protocols, env.protocols) /\ HasOne(r.formats, env.formats)
        /\ HasOne(r.devices, env.sinks)
        /\ HasOne(ToSet(r.codecs.audio), env.codecs.audio)
        /\ HasOne(ToSet(r.codecs.video), env.codecs.video)

\* The codecs are at the position they have for the service, those that are not known
\* left out, after "copy".
KnownCodecs(codecs, known) ==
    [i \in {0} \cup { j \in DOMAIN codecs : codecs[j] \in known } |->
        IF i = 0 THEN "copy" ELSE codecs[i]]

\* conflateServiceSkills; ff: what ffmpeg has
ConflateServiceSkills(id, ff) ==
    LET r == Requires(id)
    IN  [ffmpeg |-> ff.ffmpeg,
         codecs |-> [video |-> KnownCodecs(r.codecs.video, ff.codecs.video),
                     audio |-> KnownCodecs(r.codecs.audio, ff.codecs.audio)]]

\* Without a coder for any of the codecs the coder is "none", with the settings and
\* options of the one before.
FirstCoder(m, type, stream, codecs) ==
    LET CoderOf(i) == GetCoderForCodec(Encoders[type], codecs[i], env.encoders[type])
        can == { i \in DOMAIN codecs : codecs[i] # "copy" /\ CoderOf(i) # NoCoder }
    IN  IF stream.codec \in ToSet(codecs) THEN WithDefaults(Get(Encoders[type], "copy"), stream, env)
        ELSE IF can = {} THEN [m.encoder EXCEPT !.coder = "none"]
        ELSE WithDefaults(CoderOf(CHOOSE i \in can : \A j \in can : i <= j), stream, env)

\* mutant: the codecs of the service are not looked at
PreselectFor_AnyCodec(skills, m, type, streams) ==
    LET i == First(streams, type)
    IN  IF Plausible(streams, m, type, IF i = -1 THEN {} ELSE {At(streams, i).codec}, Encoders[type]) THEN m
        ELSE [m EXCEPT !.source = 0, !.stream = i,
                       !.encoder = IF i = -1 THEN [@ EXCEPT !.coder = "none"]
                                   ELSE WithDefaults(Get(Encoders[type], "copy"), At(streams, i), env)]
\* preselectProfile
PreselectFor(skills, m, type, streams) ==
    LET codecs == skills.codecs[type]
        i == First(streams, type)
    IN  IF Plausible(streams, m, type, ToSet(codecs), Encoders[type]) THEN m
        ELSE [m EXCEPT !.source = 0, !.stream = i,
                       !.encoder = IF i = -1 THEN [@ EXCEPT !.coder = "none"]
                                   ELSE FirstCoder(m, type, At(streams, i), codecs)]
PreselectedFor(skills, profile, streams) ==
    [profile EXCEPT !.video = PreselectFor(skills, @, "video", streams),
                    !.audio = PreselectFor(skills, @, "audio", streams)]

\* createSourcesFromStreams: one input without options
SourcesOf(p) == <<[type |-> "network", settings |-> Nothing, streams |-> p.streams,
                   inputs |-> <<[address |-> "", options |-> p.input]>>]>>

\* createInputsOutputs: the encoding is done for every output of the service.
OutputsOf(io, outputs) ==
    [i \in DOMAIN outputs |-> [address |-> outputs[i].address,
                               options |-> io.outputs[1] \o outputs[i].options]]
\* A field is read of something that does not exist.
SavingThrows(p) ==
    \/ p.settings.profile.video.stream = -1
    \/ \E i \in DOMAIN p.settings.outputs : "options" \notin DOMAIN p.settings.outputs[i]

-----------------------------------------------------------------------------
(* The page *)

\* initEgressMetadata({})
NewSettings == [source |-> "hls+memfs", outputs |-> <<>>, settings |-> NoSettings,
                profile |-> InitProfile(Nothing), streams |-> <<>>]

CodecsOf(p, type) == ToSet(p.skills.codecs[type])
EncoderOnPage(p, type) ==
    EncodingShown(p.streams, p.settings.profile[type], type, CodecsOf(p, type), env)
DecoderOnPage(p, type) ==
    DecoderShown(p.streams, p.settings.profile[type], type, CodecsOf(p, type), env)
FiltersOnPage(p, type) ==
    /\ p.settings.profile[type].encoder.coder # "copy"
    /\ env.filters \cap ToSet(Registered[type]) # {}
StreamUsed(p, type) == At(p.streams, p.settings.profile[type].stream)

\* Only the selected tab has components; another coder is another component.
Mounted(p) ==
    IF p.view # "page" \/ p.service = "" \/ p.tab # "encoding" THEN {}
    ELSE {<<"control", "source", "">>}
         \cup { <<type, "encoder", p.settings.profile[type].encoder.coder>> :
                type \in { t \in Media : EncoderOnPage(p, t) } }
         \cup { <<type, "decoder", p.settings.profile[type].decoder.coder>> :
                type \in { t \in Media :
                             /\ DecoderOnPage(p, t)
                             /\ p.settings.profile[t].decoder.coder \in env.decoders } }
         \cup { <<type, "filters", "">> : type \in { t \in Media : FiltersOnPage(p, t) } }

\* handleProcessing, handleEncoding: streams, and the outputs of some services, are
\* made anew.
\* mutant: the outputs stay those of the codecs before
Encoded_KeepsOutputs(p) ==
    [p EXCEPT !.settings.streams = OutputStreams(SourcesOf(p), p.settings.profile)]
Encoded(p) ==
    LET streams == OutputStreams(SourcesOf(p), p.settings.profile)
    IN  [p EXCEPT !.settings.streams = streams,
                  !.settings.outputs = IF p.service \in WithCreateOutputs
                                       THEN ServiceOf(p.service, p.settings.settings, p.skills,
                                                      streams).outputs ELSE @,
                  !.outdated = FALSE]

\* What the components do to the shared profile.
Reported(p, new, type) ==
    LET Is(what) == \E x \in new : x[1] = type /\ x[2] = what
        d == IF Is("decoder")
             THEN [p EXCEPT !.settings.profile[type].decoder =
                       Handed(@, Decoders[type], StreamUsed(p, type), env)] ELSE p
        e == IF Is("encoder")
             THEN [d EXCEPT !.settings.profile[type].encoder =
                       Handed(@, Encoders[type], StreamUsed(p, type), env)] ELSE d
    IN  IF Is("filters")
        THEN [e EXCEPT !.settings.profile[type].filter = MountFilters(@, type, env.filters)] ELSE e

\* Components report from top to bottom: source, video coders, video filters, audio
\* coders, audio filters.
LastReport(new) ==
    LET Is(type, what) == \E x \in new : x[1] = type /\ x[2] \in what
    IN  IF Is("audio", {"filters"}) THEN "filters"
        ELSE IF Is("audio", {"encoder", "decoder"}) THEN "coders"
        ELSE IF Is("video", {"filters"}) THEN "filters"
        ELSE IF Is("video", {"encoder", "decoder"}) THEN "coders"
        ELSE IF new # {} THEN "source" ELSE "none"
Rendered(before, q) ==
    LET new == Mounted(q) \ before
        r == Reported(Reported(q, new, "video"), new, "audio")
    IN  IF LastReport(new) = "coders" THEN Encoded(r) ELSE r

-----------------------------------------------------------------------------
(* Loading *)

NewPage == [view |-> "page", id |-> "", service |-> "", skills |-> NoSkills, tab |-> "general",
            streams |-> core.streams, input |-> <<>>, settings |-> NewSettings, unsaved |-> FALSE, outdated |-> FALSE]

\* load of Add.js
OpenAdd ==
    /\ page = Closed /\ core.egress = NoEgress
    /\ page' = NewPage
    /\ UNCHANGED <<env, core, count>>

\* update(true) of Edit.js: the profile is brought up to date, the outputs are not.
OpenEdit ==
    /\ page = Closed /\ core.egress # NoEgress
    /\ LET e == core.egress
           stored == [e.meta EXCEPT !.profile = InitProfile(@)]
           skills == ConflateServiceSkills(e.service, env)
           profile == PreselectedFor(skills, stored.profile, core.streams)
           p == [NewPage EXCEPT !.id = "egress", !.service = e.service, !.skills = skills,
                                !.settings = [stored EXCEPT !.profile = profile]]
           streams == OutputStreams(SourcesOf(p), profile)
       IN  page' = [p EXCEPT !.settings.streams = streams,
                          !.outdated = e.outdated \/ streams # stored.streams]
    /\ UNCHANGED <<env, core, count>>

\* handleAbort
Close ==
    /\ page.view = "page"
    /\ page' = Closed
    /\ UNCHANGED <<env, core, count>>

\* update(false): the publication was deleted in another window.
Gone ==
    /\ page.view = "page" /\ page.id # "" /\ core.egress = NoEgress
    /\ page' = Closed
    /\ UNCHANGED <<env, core, count>>

Reload == page = Stuck /\ page' = Closed /\ UNCHANGED <<env, core, count>>

-----------------------------------------------------------------------------
(* Adding: the list of services *)

\* handleServiceSelect
SelectService(id) ==
    /\ page.view = "page" /\ page.id = "" /\ page.service = ""
    /\ id \in env.services /\ CheckServiceRequirements(id)
    /\ LET skills == ConflateServiceSkills(id, env)
           p == [page EXCEPT !.service = id, !.skills = skills, !.tab = "general",
                     !.settings.profile = PreselectedFor(skills, @, page.streams)]
       IN  page' = [p EXCEPT !.settings.streams = OutputStreams(SourcesOf(p), p.settings.profile)]
    /\ UNCHANGED <<env, core, count>>
Back ==
    /\ page.view = "page" /\ page.id = "" /\ page.service # ""
    /\ page' = [page EXCEPT !.service = "", !.skills = NoSkills, !.settings = NewSettings]
    /\ UNCHANGED <<env, core, count>>

-----------------------------------------------------------------------------
(* Editing *)

Changed(what) == /\ page.view = "page" /\ page.service # "" /\ what \in env.touched
                 /\ count < env.changes /\ count' = count + 1

\* An event of the page; in Edit.js it leaves unsaved changes.
Show(q) == page' = Rendered(Mounted(page), [q EXCEPT !.unsaved = TRUE]) /\ UNCHANGED <<env, core>>

ChangeTab(tab) ==
    /\ page.view = "page" /\ page.service # "" /\ tab # page.tab
    /\ page' = Rendered({}, [page EXCEPT !.tab = tab])
    /\ UNCHANGED <<env, core, count>>

ChangeName == Changed("name") /\ ~page.unsaved /\ Show(page)

\* mutant: the outputs are not handed over
ChangedService_Settings(p, s) ==
    [p EXCEPT !.settings.settings =
        ServiceOf(p.service, s, p.skills, p.settings.streams).settings]
\* handleChange of the service's component and handleServiceChange
ChangedService(p, s) ==
    LET service == ServiceOf(p.service, s, p.skills, p.settings.streams)
    IN  [p EXCEPT !.settings.settings = service.settings, !.settings.outputs = service.outputs,
                  !.outdated = FALSE]
ChangeService(choice) ==
    /\ Changed("settings") /\ page.tab = "general"
    /\ Show(ChangedService(page, Merged(choice, page.settings.settings)))

ChangeSource(source) ==
    /\ Changed("source") /\ page.tab = "encoding"
    /\ source \in core.sources /\ source # page.settings.source
    /\ Show([page EXCEPT !.settings.source = source])

ChangeEncoder(type, coder) ==
    LET m == page.settings.profile[type]
    IN  /\ Changed("coders") /\ page.tab = "encoding" /\ EncoderOnPage(page, type)
        /\ coder \in EncoderList(page.streams, m, type, CodecsOf(page, type), env)
        /\ coder # m.encoder.coder
        /\ Show(Encoded([page EXCEPT !.settings.profile[type].encoder =
                            WithDefaults(Get(Encoders[type], coder), StreamUsed(page, type), env)]))

ChangeDecoder(coder) ==
    /\ Changed("coders") /\ page.tab = "encoding" /\ DecoderOnPage(page, "video")
    /\ coder \in DecoderList(StreamUsed(page, "video"), env)
    /\ coder # page.settings.profile.video.decoder.coder
    /\ Show(Encoded([page EXCEPT !.settings.profile.video.decoder =
                        WithDefaults(Get(Decoders.video, coder), StreamUsed(page, "video"), env)]))

ChangeKeyFrames(gop) ==
    LET e == page.settings.profile.video.encoder
    IN  /\ Changed("coders") /\ page.tab = "encoding" /\ EncoderOnPage(page, "video")
        /\ "gop" \in DOMAIN e.settings /\ e.settings.gop # gop
        /\ Show(Encoded([page EXCEPT !.settings.profile.video.encoder =
                            WithKeyFrames(@, gop, StreamUsed(page, "video"), env)]))

\* handleProcessingFilter, handleFilter
ChangeFilterSettings(f, s) ==
    /\ Changed("filters") /\ page.tab = "encoding" /\ FiltersOnPage(page, "video")
    /\ f \in env.filters /\ page.settings.profile.video.filter.settings[f].settings # s
    /\ Show([page EXCEPT !.settings.profile.video.filter = ChangeFilter(@, "video", f, s)])

-----------------------------------------------------------------------------
(* Saving *)

\* UpdateEgress: the publication reads what the channel makes.
EnhancedCodecs ==
    LET tags == [hevc |-> "hvc1", av1 |-> "av01", vp9 |-> "vp09"]
    IN  { tags[codec] : codec \in DOMAIN tags \cap env.codecs.video }
ReadOptions(source) ==
    CASE source \in {"hls+memfs", "hls+diskfs"} -> << <<"-re", "">> >>
      [] source = "rtmp" /\ env.ffmpeg >= 6 /\ EnhancedCodecs # {} ->
            << <<"-rtmp_enhanced_codecs", EnhancedCodecs>> >>
      [] OTHER -> <<>>
EgressProcess(p, io, meta, stored) ==
    [service |-> p.service, source |-> p.settings.source, global |-> io.global,
     input |-> ReadOptions(p.settings.source) \o io.inputs[1].options,
     outputs |-> OutputsOf(io, p.settings.outputs),
     loaded |-> p.streams, meta |-> meta, whole |-> stored,
     outdated |-> \/ p.outdated
                  \/ ~stored /\ core.egress # NoEgress /\ core.egress.outdated]

SavePossible == page.view = "page" /\ page.service # "" /\ (page.id = "" \/ page.unsaved)
InputAfter(io) == io.sources[1].inputs[1].options

\* handleServiceDone; stored: whether SetEgressMetadata succeeds, which is not
\* looked at. A new publication is left for the list, another one stays open.
Save(stored) ==
    LET io == InputsOutputs(SourcesOf(page), page.settings.profile)
        meta == IF stored THEN page.settings
                ELSE IF core.egress = NoEgress THEN NewSettings ELSE core.egress.meta
    IN  /\ SavePossible /\ page.settings.outputs # <<>> /\ ~SavingThrows(page)
        /\ ~stored => "failures" \in env.touched
        /\ core' = [core EXCEPT !.egress = EgressProcess(page, io, meta, stored)]
        /\ page' = IF page.id = "" THEN Closed
                   ELSE [page EXCEPT !.unsaved = FALSE, !.input = InputAfter(io)]
        /\ UNCHANGED <<env, count>>

\* Nothing to send, or the Core refuses the process.
SaveFails ==
    LET io == InputsOutputs(SourcesOf(page), page.settings.profile)
    IN  /\ SavePossible /\ ~SavingThrows(page)
        /\ page.settings.outputs = <<>> \/ "failures" \in env.touched
        /\ Len(page.input) < 4
        /\ page' = [page EXCEPT !.input = InputAfter(io)]
        /\ UNCHANGED <<env, core, count>>

SaveThrows ==
    /\ SavePossible /\ SavingThrows(page)
    /\ page' = Stuck
    /\ UNCHANGED <<env, core, count>>

\* handleServiceDelete
Delete ==
    /\ page.view = "page" /\ page.id # "" /\ core.egress # NoEgress
    /\ core' = [core EXCEPT !.egress = NoEgress]
    /\ page' = Closed
    /\ UNCHANGED <<env, count>>

-----------------------------------------------------------------------------
(* Meanwhile: the channel gets other streams, or the publication is deleted in
   another window. *)

IngestChanges(streams) ==
    /\ count < env.changes /\ count' = count + 1
    /\ streams # core.streams
    /\ core' = [core EXCEPT !.streams = streams]
    /\ UNCHANGED <<env, page>>

DeletedElsewhere ==
    /\ "elsewhere" \in env.touched /\ core.egress # NoEgress
    /\ count < env.changes /\ count' = count + 1
    /\ core' = [core EXCEPT !.egress = NoEgress]
    /\ UNCHANGED <<env, page>>

Init == /\ \E start \in Starts : env = start.env /\ core = start.core
        /\ page = Closed
        /\ count = 0

Next ==
    \/ OpenAdd \/ OpenEdit \/ Close \/ Gone \/ Reload
    \/ \E id \in env.services : SelectService(id)
    \/ Back
    \/ \E tab \in {"general", "encoding"} : ChangeTab(tab)
    \/ ChangeName
    \/ /\ page.view = "page" /\ page.service # ""
       /\ \E choice \in SettingChoices[page.service] : ChangeService(choice)
    \/ \E source \in core.sources : ChangeSource(source)
    \/ \E type \in Media : \E coder \in env.encoders[type] : ChangeEncoder(type, coder)
    \/ \E coder \in env.decoders : ChangeDecoder(coder)
    \/ \E gop \in {Automatic, 4} : ChangeKeyFrames(gop)
    \/ ChangeFilterSettings("hflip", [enabled |-> TRUE])
    \/ \E stored \in BOOLEAN : Save(stored)
    \/ SaveFails \/ SaveThrows \/ Delete
    \/ \E streams \in env.found : IngestChanges(streams)
    \/ DeletedElsewhere

Spec == Init /\ [][Next]_vars

-----------------------------------------------------------------------------
(* What the process of the publication is to be *)

Egress == core.egress
Published == Egress # NoEgress

\* The codec a process makes of a type, "none" if it leaves it out.
CodecMade(options, type, loaded) ==
    LET used == OptionsNamed(options, CodecOption(type))
    IN  IF OptionsNamed(options, OffOption(type)) # {} THEN "none"
        ELSE IF Cardinality(used) # 1 THEN "unknown"
        ELSE IF used = {"copy"} THEN At(loaded, First(loaded, type)).codec
        ELSE CHOOSE c \in DOMAIN EncoderCodecs : used \subseteq EncoderCodecs[c]

\* ffmpeg has a coder for one of the codecs of the service.
HasCoder(codecs, type, ff) ==
    \E c \in codecs[type] \ {"copy"} :
        GetCoderForCodec(Encoders[type], c, ff.encoders[type]) # NoCoder

TakenBy(id, ff) == LET codecs == ConflateServiceSkills(id, ff).codecs
                   IN  [type \in Media |-> ToSet(codecs[type])]

\* What the service is sent is what it takes.
IsAllowed(e, ff) ==
    LET takes == TakenBy(e.service, ff)
    IN  \A i \in DOMAIN e.outputs, type \in Media :
        LET made == CodecMade(e.outputs[i].options, type, e.loaded)
        IN  HasCoder(takes, type, ff) =>
               \/ made \in takes[type] \ {"copy"}
               \/ made = "none" /\ type \notin Types(e.loaded)

\* The process is that of the settings, as far as they are stored and not outdated.
IsCurrent(e, ff) ==
    e.whole /\ ~e.outdated =>
        LET made == ServiceOf(e.service, e.meta.settings, ConflateServiceSkills(e.service, ff),
                              e.meta.streams).outputs
        IN  /\ Len(made) = Len(e.outputs)
            /\ \A i \in DOMAIN made :
                  LET is == e.outputs[i].options
                      own == Len(is) - Len(made[i].options)
                  IN  /\ e.outputs[i].address = made[i].address
                      /\ own > 0 /\ SubSeq(is, own + 1, Len(is)) = made[i].options
                      /\ \A j \in DOMAIN e.meta.streams :
                            CodecMade(is, e.meta.streams[j].type, e.loaded) = e.meta.streams[j].codec

(* A service is sent what it takes: the picture and the sound have one of its *)
(* codecs, and only what the channel does not have is left out (helper.js     *)
(* preselectProfile, for new and for stored profiles after the streams of the *)
(* channel changed, EncodingSelect.js). Left out is an ffmpeg without any     *)
(* coder for the service.                                                     *)
CodecsAllowed == Published => IsAllowed(Egress, env)

(* The process sends to what the stored settings say, and what is stored of   *)
(* its streams is what it makes: every output of the service follows the      *)
(* encoding, with the options of the settings and the streams                 *)
(* (handleServiceChange, handleProcessing, createInputsOutputs, the order in  *)
(* which the components of a tab report). Left out is a publication that was  *)
(* opened after the channel changed its codecs: its outputs stay those of     *)
(* before.                                                                    *)
OutputsCurrent == Published => IsCurrent(Egress, env)

(* The format of an output goes over its protocol and takes the codecs that   *)
(* are sent (createOutput of the services, createOutputs of Icecast.js when   *)
(* the encoding changes, the announcement of newer codecs). Left out are      *)
(* ffmpeg before version 6 or without any coder for the service, and what the *)
(* services are known to get wrong: Instagram's http address, RTSP in Red5.js *)
(* and WOWZA.js, video over Icecast.                                          *)
RTMPs == {"rtmp", "rtmps", "rtmpe", "rtmpt", "rtmpte", "rtmpts"}
GoesOver(format, protocol) ==
    \/ format = "flv" /\ protocol \in RTMPs
    \/ format = "rtsp" /\ protocol = "rtsp"
    \/ format = "mpegts" /\ protocol \in {"udp", "tcp", "srt"}
    \/ format \in {"hls", "dash", "image2"} /\ protocol \in {"http", "https"}
    \/ format \in {"adts", "ogg", "opus", "mp3"} /\ protocol = "icecast"
    \/ format = "fbdev" /\ protocol = "device"
Takes == [flv |-> {"h264", "aac", "mp3"}, adts |-> {"aac"}, ogg |-> {"vorbis"},
          opus |-> {"opus"}, mp3 |-> {"mp3"}, fbdev |-> {"rawvideo"}]
Carries(o, codecs) ==
    \E f \in OptionsNamed(o.options, "-f") :
        /\ OptionsNamed(o.options, "-f") = {f} /\ GoesOver(f, o.address[1])
        /\ f \in DOMAIN Takes =>
              codecs \subseteq Takes[f] \cup UNION OptionsNamed(o.options, "-rtmp_enhanced_codecs")
Misfit(id, protocol, codecs) ==
    \/ id = "instagram"
    \/ id \in {"red5", "wowza"} /\ protocol = "rtsp"
    \/ id = "icecast" /\ ~(codecs \subseteq {"aac", "mp3", "opus", "vorbis"})
FitsMuxer(e, ff) ==
    /\ ~e.outdated /\ ff.ffmpeg >= 6
    /\ \A type \in Media : HasCoder(TakenBy(e.service, ff), type, ff)
    => \A i \in DOMAIN e.outputs :
          LET o == e.outputs[i]
              codecs == { CodecMade(o.options, type, e.loaded) : type \in Media } \ {"none"}
          IN  o.address[1] # "" /\ codecs # {} /\ ~Misfit(e.service, o.address[1], codecs) =>
                 Carries(o, codecs)
MuxerFits == Published => FitsMuxer(Egress, env)

-----------------------------------------------------------------------------
(* What is there when we begin. A channel makes at most one stream of a type,    *)
(* which has a codec (createOutputStreams). A publication is as these pages, or  *)
(* those of an earlier version, left it. The address that is typed or chosen for *)
(* a service has a protocol the service is for.                                  *)

\* Outputs that add only options that do not speak of coders
IsOutputs(outputs) ==
    /\ IsList(outputs)
    /\ \A o \in ToSet(outputs) : "options" \in DOMAIN o => Free(o.options)

IsChannel(streams) ==
    /\ IsList(streams)
    /\ \A i, j \in DOMAIN streams : streams[i].type = streams[j].type => i = j
    /\ \A i \in DOMAIN streams : streams[i].codec \notin {"copy", "none"}

\* The encoder "none" of a stream that could be coded leaves its type out.
IsMedia(m, type, takes, ff) ==
    /\ HasFields(m, {"source", "stream", "encoder", "decoder", "filter"})
    /\ IsEncoder(m.encoder, type)
    /\ m.stream # -1 =>
          /\ m.source = 0
          /\ m.encoder.coder = "none" /\ HasCoder(takes, type, ff) =>
                OptionsNamed(m.encoder.mapping.local, OffOption(type)) # {}

Spoken(id) ==
    CASE id = "datarheicore" -> RTMPs \cup {"srt"}
      [] id \in {"red5", "wowza"} -> {"rtmp", "rtsp"}
      [] id \in {"rtsp", "srt", "udp", "icecast"} -> {id}
      [] id = "mpegts" -> {"udp", "tcp"}
      [] id \in {"hls", "dash", "image2"} -> {"http", "https"}
      [] OTHER -> RTMPs
SettingsFit(id, s) ==
    /\ "protocol" \in DOMAIN s => s.protocol \in Spoken(id)
    /\ "base_url" \in DOMAIN s => "protocol" \in DOMAIN s
    /\ \A url \in {"server_url", "v2_address"} \cap DOMAIN s : s[url][1] \in Spoken(id) \cup {""}

OutputsFit(id, settings, outdated, ff) ==
    \/ settings.outputs = <<>>
    \/ settings.outputs = ServiceOf(id, settings.settings, ConflateServiceSkills(id, ff),
                                    settings.streams).outputs
    \/ id \in WithCreateOutputs /\ outdated /\ IsOutputs(settings.outputs)

IsPublication(e, ff) ==
    /\ e.service \in Names
    /\ HasFields(e.meta, {"source", "outputs", "settings", "profile", "streams"})
    /\ \A type \in Media :
          IsMedia(InitProfile(e.meta.profile)[type], type, TakenBy(e.service, ff), ff)
    /\ OutputsFit(e.service, e.meta, e.outdated, ff)
    /\ SettingsFit(e.service, e.meta.settings)
    /\ IsAllowed(e, ff) /\ IsCurrent(e, ff) /\ FitsMuxer(e, ff)

ASSUME StartsAssumption ==
    \A start \in Starts :
        /\ HasFields(start.core, {"streams", "sources", "egress"})
        /\ IsChannel(start.core.streams)
        /\ \A streams \in start.env.found : IsChannel(streams)
        /\ start.env.services \subseteq Names
        /\ start.core.egress # NoEgress => IsPublication(start.core.egress, start.env)
ASSUME ChoicesAssumption ==
    \A id \in Names : \A choice \in SettingChoices[id] : SettingsFit(id, choice)
=============================================================================
