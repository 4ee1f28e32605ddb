----------------------------- MODULE Editor_proof -----------------------------
(* Theorems about Editor and Wizard, for everything ffmpeg and the Core may have
   when we begin, every choice of settings and every number of changes: the rules
   that clean up the files of a channel fit the files its processes write, a
   channel that was saved completely can be opened and saved again, and its
   process reads what the settings of its sources say. *)
EXTENDS Wizard, Coders_proof

-----------------------------------------------------------------------------
(* The invariant *)

\* What FilesKept asks of the settings of a process.
Windowed(hls) ==
    hls.dvr.enabled => hls.storage = "diskfs" /\ hls.listSize * hls.segmentDuration >= hls.dvr.hours * 3600

\* The files and the rules of a process are those of its settings.
Made(p) ==
    /\ IsHLS(p.hls) /\ Windowed(p.hls)
    /\ p.files = IngestFiles(p.hls) /\ p.rules = CleanupRules(p.hls)

CoreFits ==
    /\ DOMAIN core = CoreFields
    /\ "control" \in DOMAIN core.meta /\ IsControl(core.meta.control)
    /\ Saved => /\ Made(core.ingest)
                /\ core.whole => core.snapshot.input = MasterFile(core.ingest.hls)
                /\ core.whole /\ core.by = "editor" => core.preview.input = MasterFile(core.ingest.hls)

\* The pages that hold the settings of the channel
HasData(p) ==
    /\ {"view", "data"} \subseteq DOMAIN p
    /\ "control" \in DOMAIN p.data /\ IsControl(p.data.control)
PageFits(p) == "view" \in DOMAIN p /\ (p.view \in {"edit", "profile"} => HasData(p))

FilesInv == CoreFits /\ PageFits(page) /\ env.maxHours \in Int

-----------------------------------------------------------------------------
(* Settings *)

\* A whole number of segments covers the time they are counted for.
LEMMA CeilingCovers ==
    ASSUME NEW a \in Nat, NEW b \in 1..30
    PROVE  Ceiling(a, b) \in Nat /\ Ceiling(a, b) * b >= a
<1>1. ((a + b - 1) \div b) * b >= a
  OBVIOUS
<1>2. (a + b - 1) \div b \in Nat
  OBVIOUS
<1> QED
  BY <1>1, <1>2 DEF Ceiling

\* The settings of a rewind window
Rewound(hls, hours, duration) ==
    [hls EXCEPT !.storage = "diskfs", !.cleanup = TRUE, !.segmentDuration = duration,
                !.listSize = Ceiling(hours * 3600, duration),
                !.dvr = [enabled |-> TRUE, hours |-> hours]]

LEMMA WindowFits ==
    ASSUME NEW hls, IsHLS(hls), NEW hours \in 1..168, NEW duration \in 1..30
    PROVE  IsHLS(Rewound(hls, hours, duration)) /\ Windowed(Rewound(hls, hours, duration))
<1> DEFINE seconds == hours * 3600
           size == Ceiling(seconds, duration)
           new == Rewound(hls, hours, duration)
<1>1. seconds \in Nat /\ duration \in Nat /\ hours \in Int
  OBVIOUS
<1>2. HLSFields \subseteq DOMAIN hls
  BY DEF IsHLS
<1> HIDE DEF size
<1>3. /\ HLSFields \subseteq DOMAIN new /\ new.storage = "diskfs" /\ new.segmentDuration = duration
      /\ new.listSize = size /\ new.dvr = [enabled |-> TRUE, hours |-> hours]
  BY <1>2 DEF HLSFields, Rewound, size
<1> HIDE DEF seconds, new
<1>4. size \in Nat /\ size * duration >= seconds
  BY <1>1, CeilingCovers DEF size
<1>5. DOMAIN new.dvr = {"enabled", "hours"} /\ new.dvr.enabled = TRUE /\ new.dvr.hours = hours
  BY <1>3
<1>6. IsHLS(new)
  BY <1>1, <1>3, <1>4, <1>5 DEF IsHLS
<1>7. Windowed(new)
  BY <1>3, <1>4, <1>5 DEF Windowed, seconds
<1> QED
  BY <1>6, <1>7 DEF new

\* What the HLS control makes of a choice of the user
LEMMA ChangeKept ==
    ASSUME NEW hls, IsHLS(hls), NEW hours \in Int,
           NEW what \in {"dvr", "master_playlist", "storage", "version"}
    PROVE  IsHLS(ChangeHLS(hls, what, hours))
<1>1. ASSUME NEW h, IsHLS(h)
      PROVE  IsHLS(ApplyDVRSettings(h, hours))
  <2>1. CASE ~h.dvr.enabled
    BY <1>1, <2>1 DEF ApplyDVRSettings
  <2>2. CASE h.dvr.enabled
    <3> DEFINE most == AtMost(168, AtLeast(1, hours))
               duration == AtMost(30, AtLeast(1, h.segmentDuration))
    <3>1. most \in 1..168 /\ duration \in 1..30
      <4>1. h.segmentDuration \in Int
        BY <1>1 DEF IsHLS
      <4>2. most \in 1..168
        BY DEF AtMost, AtLeast
      <4>3. duration \in 1..30
        BY <4>1 DEF AtMost, AtLeast
      <4> QED
        BY <4>2, <4>3
    <3>2. ApplyDVRSettings(h, hours) = Rewound(h, most, duration)
      BY <2>2 DEF ApplyDVRSettings, Rewound
    <3> HIDE DEF most, duration
    <3> QED
      BY <1>1, <3>1, <3>2, WindowFits
  <2> QED
    BY <2>1, <2>2
<1> DEFINE dvr == [hls EXCEPT !.dvr = [enabled |-> ~@.enabled, hours |-> hours]]
           master == [hls EXCEPT !.master_playlist = ~@]
           storage == [hls EXCEPT !.storage = IF @ = "memfs" THEN "diskfs" ELSE "memfs"]
           version == [hls EXCEPT !.version = IF @ = 3 THEN 7 ELSE 3]
<1>2. IsHLS(dvr)
  <2>1. HLSFields \subseteq DOMAIN dvr /\ dvr.segmentDuration = hls.segmentDuration
        /\ dvr.listSize = hls.listSize /\ dvr.dvr = [enabled |-> ~hls.dvr.enabled, hours |-> hours]
    BY DEF IsHLS, HLSFields
  <2> HIDE DEF dvr
  <2>2. DOMAIN dvr.dvr = {"enabled", "hours"} /\ dvr.dvr.enabled \in BOOLEAN /\ dvr.dvr.hours = hours
    BY <2>1
  <2> QED
    BY <2>1, <2>2 DEF IsHLS
<1>3. IsHLS(master)
  BY Zenon DEF IsHLS, HLSFields
<1>4. IsHLS(storage)
  BY Zenon DEF IsHLS, HLSFields
<1>5. IsHLS(version)
  BY Zenon DEF IsHLS, HLSFields
<1>6. CASE what = "dvr"
  <2>1. ChangeHLS(hls, what, hours) = ApplyDVRSettings(dvr, hours)
    BY <1>6 DEF ChangeHLS
  <2> QED
    BY <2>1, <1>1, <1>2
<1>7. CASE what = "master_playlist"
  <2>1. ChangeHLS(hls, what, hours) = ApplyDVRSettings(master, hours)
    BY <1>7 DEF ChangeHLS
  <2> QED
    BY <2>1, <1>1, <1>3
<1>8. CASE what = "storage"
  <2>1. ChangeHLS(hls, what, hours) = ApplyDVRSettings(storage, hours)
    BY <1>8 DEF ChangeHLS
  <2> QED
    BY <2>1, <1>1, <1>4
<1>9. CASE what = "version"
  <2>1. ChangeHLS(hls, what, hours) = ApplyDVRSettings(version, hours)
    BY <1>9 DEF ChangeHLS
  <2> QED
    BY <2>1, <1>1, <1>5
<1> QED
  BY <1>6, <1>7, <1>8, <1>9

\* What UpsertIngest makes of the settings
LEMMA ControlKept ==
    ASSUME NEW control, IsControl(control)
    PROVE  IsControl(DVRControl(control)) /\ Windowed(DVRControl(control).hls)
<1> DEFINE hls == control.hls
           hours == AtMost(168, AtLeast(1, hls.dvr.hours))
           duration == AtMost(30, AtLeast(1, hls.segmentDuration))
           new == Rewound(hls, hours, duration)
<1>1. hours \in 1..168 /\ duration \in 1..30
  <2>1. hls.dvr.hours \in Int /\ hls.segmentDuration \in Int
    BY DEF IsControl, IsHLS
  <2> HIDE DEF hls
  <2>2. hours \in 1..168
    BY <2>1 DEF AtMost, AtLeast
  <2>3. duration \in 1..30
    BY <2>1 DEF AtMost, AtLeast
  <2> QED
    BY <2>2, <2>3
<1>2. CASE ~hls.dvr.enabled
  BY <1>2 DEF DVRControl, Windowed
<1>3. CASE hls.dvr.enabled
  <2>1. DVRControl(control) = [control EXCEPT !.hls = new]
    BY <1>3 DEF DVRControl, Rewound
  <2>2. IsHLS(hls)
    BY DEF IsControl
  <2> HIDE DEF hls, hours, duration
  <2>3. IsHLS(new) /\ Windowed(new)
    BY <1>1, <2>2, WindowFits
  <2> HIDE DEF new
  <2>4. DVRControl(control).hls = new /\ "hls" \in DOMAIN DVRControl(control)
    BY <2>1 DEF IsControl
  <2> QED
    BY <2>3, <2>4 DEF IsControl
<1> QED
  BY <1>2, <1>3

\* The servers a channel reads itself from do not change its files.
LEMMA ControlUsed ==
    ASSUME NEW control, IsControl(control), NEW inputs
    PROVE  /\ IsControl(UsedControl(control, inputs)) /\ Windowed(UsedControl(control, inputs).hls)
           /\ UsedControl(control, inputs).hls = DVRControl(control).hls
<1>1. IsControl(DVRControl(control)) /\ Windowed(DVRControl(control).hls)
  BY ControlKept
<1>2. /\ DOMAIN UsedControl(control, inputs) = DOMAIN DVRControl(control)
      /\ UsedControl(control, inputs).hls = DVRControl(control).hls
  <2> DEFINE given == DVRControl(control)
             a == given.rtmp.enable \/ ReadsItself(inputs, "rtmp")
             b == given.srt.enable \/ ReadsItself(inputs, "srt")
  <2>1. "hls" \in DOMAIN given
    BY <1>1 DEF IsControl
  <2>2. UsedControl(control, inputs) = [given EXCEPT !.rtmp.enable = a, !.srt.enable = b]
    BY Zenon DEF UsedControl
  <2> HIDE DEF given, a, b
  <2>3. /\ DOMAIN UsedControl(control, inputs) = DOMAIN given
        /\ UsedControl(control, inputs).hls = given.hls
    BY <2>1, <2>2
  <2> QED
    BY <2>3 DEF given
<1> QED
  BY <1>1, <1>2 DEF IsControl

\* A user's choices, the rewind window among them
LEMMA ChoicesKept ==
    ASSUME NEW c, IsControl(c), env.maxHours \in Int, NEW d \in ControlChoice(c)
    PROVE  IsControl(d)
<1>1. ASSUME NEW part \in {"process", "rtmp", "srt", "snapshot", "preview"}, NEW x
      PROVE  IsControl([c EXCEPT ![part] = x])
  BY <1>1 DEF IsControl
<1>2. CASE d \in {[c EXCEPT !.process = ChangeProcess(@)], [c EXCEPT !.rtmp = ChangeRTMP(@)],
                  [c EXCEPT !.srt = ChangeSRT(@)], [c EXCEPT !.snapshot = ChangeSnapshot(@)],
                  [c EXCEPT !.preview = ChangePreview(@)]}
  BY <1>2 DEF IsControl
<1>3. ASSUME NEW what \in {"dvr", "master_playlist", "storage", "version"},
             d = [c EXCEPT !.hls = ChangeHLS(@, what, env.maxHours)]
      PROVE  IsControl(d)
  <2>1. IsHLS(c.hls)
    BY DEF IsControl
  <2>2. IsHLS(ChangeHLS(c.hls, what, env.maxHours))
    BY <2>1, ChangeKept
  <2> HIDE DEF ChangeHLS
  <2>3. d.hls = ChangeHLS(c.hls, what, env.maxHours) /\ "hls" \in DOMAIN d
    BY <1>3 DEF IsControl
  <2> QED
    BY <2>2, <2>3 DEF IsControl
<1> QED
  BY <1>2, <1>3 DEF ControlChoice

-----------------------------------------------------------------------------
(* Files and rules *)

LEMMA FilesFit ==
    ASSUME NEW p, Made(p)
    PROVE  LET listed == p.hls.listSize + DeleteThreshold
           IN  /\ \A r \in p.rules :
                     IF r.file = SegmentFile(p.hls)
                     THEN /\ r.max_files = 0 \/ r.max_files >= listed
                          /\ \/ r.max_age = 0
                             \/ ~p.hls.dvr.enabled /\ r.max_age >= p.hls.segmentDuration * listed
                     ELSE r.max_files = 0
               /\ p.hls.cleanup =>
                     \A f \in p.files : \E r \in p.rules : r.file = f /\ r.max_files = 0 /\ r.max_age = 0
               /\ p.hls.dvr.enabled =>
                     p.hls.storage = "diskfs" /\ p.hls.listSize * p.hls.segmentDuration >= p.hls.dvr.hours * 3600
               /\ MasterFile(p.hls) \in p.files
<1> DEFINE hls == p.hls
           listed == hls.listSize + DeleteThreshold
           segment == SegmentFile(hls)
<1>1. /\ hls.segmentDuration \in Nat /\ hls.listSize \in Int /\ hls.dvr.enabled \in BOOLEAN
      /\ p.files = IngestFiles(hls) /\ p.rules = CleanupRules(hls)
      /\ hls.dvr.enabled => hls.storage = "diskfs" /\ hls.listSize * hls.segmentDuration >= hls.dvr.hours * 3600
  BY DEF Made, IsHLS, Windowed
<1> HIDE DEF hls
<1>2. \A f, files, age : /\ Rule(f, files, age).file = f /\ Rule(f, files, age).max_files = files
                         /\ Rule(f, files, age).max_age = age
  BY DEF Rule
<1>3. /\ segment.ext \in {"ts", "mp4"} /\ segment.where \in {"dir", "flat"}
      /\ PlaylistFile(hls).ext = "m3u8" /\ MasterFile(hls).ext = "m3u8" /\ InitFile(hls).where = "root"
  BY DEF SegmentFile, SegmentExt, PlaylistFile, MasterFile, InitFile
<1>4. segment # PlaylistFile(hls) /\ segment # MasterFile(hls) /\ segment # InitFile(hls)
  BY <1>3
<1>5. \A r \in PurgeRules(hls) : r.max_files = 0 /\ r.max_age = 0
  BY <1>2 DEF PurgeRules
<1>6. \A r \in CleanupRules(hls) :
         \/ r \in PurgeRules(hls)
         \/ r = Rule(PlaylistFile(hls), 0, ListAge(hls)) \/ r = Rule(MasterFile(hls), 0, ListAge(hls))
         \/ r = Rule(InitFile(hls), 0, ListAge(hls))
         \/ r = Rule(segment, ListFiles(hls), SegmentCleanupAge(hls))
  BY DEF CleanupRules
<1>7. ListFiles(hls) = 0 \/ ListFiles(hls) >= listed
  BY <1>1 DEF ListFiles, DeleteThreshold
<1>8. SegmentCleanupAge(hls) = 0
         \/ (~hls.dvr.enabled /\ SegmentCleanupAge(hls) >= hls.segmentDuration * listed)
  <2>1. CASE hls.dvr.enabled \/ hls.listSize <= 0
    BY <2>1 DEF SegmentCleanupAge
  <2>2. CASE ~(hls.dvr.enabled \/ hls.listSize <= 0)
    <3> DEFINE d == hls.segmentDuration
               n == hls.listSize
    <3>1. d \in Nat /\ n \in Nat
      BY <1>1, <2>2
    <3>2. SegmentCleanupAge(hls) = d * (n + 6)
      BY <2>2 DEF SegmentCleanupAge
    <3> HIDE DEF d, n
    <3>3. d * (n + 6) >= d * (n + 4)
      BY <3>1
    <3> QED
      BY <2>2, <3>2, <3>3 DEF d, n, DeleteThreshold
  <2> QED
    BY <2>1, <2>2
<1> HIDE DEF listed, segment
<1>9. \A r \in p.rules :
         IF r.file = segment
         THEN /\ r.max_files = 0 \/ r.max_files >= listed
              /\ r.max_age = 0 \/ (~hls.dvr.enabled /\ r.max_age >= hls.segmentDuration * listed)
         ELSE r.max_files = 0
  BY <1>1, <1>2, <1>4, <1>5, <1>6, <1>7, <1>8
<1>10. ASSUME hls.cleanup, NEW f \in p.files
       PROVE  \E r \in p.rules : r.file = f /\ r.max_files = 0 /\ r.max_age = 0
  <2>1. \E pair \in { <<"root", "m3u8">>, <<"root", "mp4">>, <<"flat", "m3u8">>, <<"flat", "ts">>,
                      <<"flat", "mp4">>, <<"dir", "ts">>, <<"dir", "mp4">> } :
           f = [fs |-> hls.storage, where |-> pair[1], ext |-> pair[2]]
    BY <1>1, <1>10 DEF IngestFiles, SegmentFile, SegmentExt, PlaylistFile, MasterFile, InitFile
  <2>2. Rule(f, 0, 0) \in PurgeRules(hls)
    BY <2>1 DEF PurgeRules
  <2>3. Rule(f, 0, 0) \in p.rules
    BY <1>1, <1>10, <2>2 DEF CleanupRules
  <2> QED
    BY <1>2, <2>3
<1>11. MasterFile(hls) \in p.files
  BY <1>1 DEF IngestFiles, PlaylistFile, MasterFile
<1> QED
  BY <1>1, <1>9, <1>10, <1>11 DEF hls, listed, segment

\* What is made by UpsertIngest is as FilesKept asks.
LEMMA ProcessMade ==
    ASSUME NEW control, IsControl(control), NEW global, NEW inputs, NEW output, NEW servers
    PROVE  LET p == IngestProcess(global, inputs, output, control, servers)
           IN  Made(p) /\ p.hls = UsedControl(control, inputs).hls
<1> DEFINE p == IngestProcess(global, inputs, output, control, servers)
           hls == UsedControl(control, inputs).hls
<1>1. IsHLS(hls) /\ Windowed(hls)
  BY ControlUsed DEF IsControl
<1>2. p.hls = hls /\ p.files = IngestFiles(hls) /\ p.rules = CleanupRules(hls)
  BY Zenon DEF IngestProcess
<1> HIDE DEF p, hls
<1>3. Made(p)
  BY <1>1, <1>2 DEF Made
<1> QED
  BY <1>2, <1>3 DEF p, hls

LEMMA DefaultFits == IsControl(DefaultControl) /\ DVRControl(DefaultControl) = DefaultControl
<1>1. DefaultControl.hls = [lhls |-> FALSE, segmentDuration |-> 2, listSize |-> 6, cleanup |-> TRUE,
                            version |-> 3, storage |-> "memfs", master_playlist |-> TRUE,
                            dvr |-> [enabled |-> FALSE, hours |-> 4]]
  BY DEF DefaultControl
<1>2. IsHLS(DefaultControl.hls)
  <2> DEFINE hls == DefaultControl.hls
  <2>1. HLSFields \subseteq DOMAIN hls
    BY <1>1 DEF HLSFields
  <2>2. /\ hls.segmentDuration = 2 /\ hls.listSize = 6
        /\ hls.dvr = [enabled |-> FALSE, hours |-> 4]
    BY <1>1
  <2> HIDE DEF hls
  <2>3. DOMAIN hls.dvr = {"enabled", "hours"} /\ hls.dvr.enabled = FALSE /\ hls.dvr.hours = 4
    BY <2>2
  <2>4. IsHLS(hls)
    BY <2>1, <2>2, <2>3 DEF IsHLS
  <2> QED
    BY <2>4 DEF hls
<1>3. "hls" \in DOMAIN DefaultControl
  BY DEF DefaultControl
<1> QED
  BY <1>1, <1>2, <1>3 DEF IsControl, DVRControl

-----------------------------------------------------------------------------
(* Rendering leaves the settings of the channel alone. *)

LEMMA Mounts ==
    ASSUME NEW p, HasData(p), NEW type
    PROVE  /\ HasData(MountEncoder(p, type)) /\ HasData(MountDecoder(p, type))
           /\ HasData(MountFilterSelect(p, type))
<1>1. HasData(MountEncoder(p, type))
  BY Zenon DEF HasData, MountEncoder
<1>2. HasData(MountDecoder(p, type))
  BY Zenon DEF HasData, MountDecoder
<1>3. HasData(MountFilterSelect(p, type))
  BY Zenon DEF HasData, MountFilterSelect
<1> QED
  BY <1>1, <1>2, <1>3

LEMMA RenderedFits ==
    ASSUME NEW q, HasData(q), NEW before
    PROVE  HasData(Rendered(before, q))
<1> DEFINE new == Mounted(q) \ before
           Is(type, what) == \E m \in new : m[1] = type /\ m[2] = what
           Coded(p, type) ==
               LET d == IF Is(type, "decoder") THEN MountDecoder(p, type) ELSE p
                   e == IF Is(type, "encoder") THEN MountEncoder(d, type) ELSE d
               IN  IF Is(type, "filters") THEN MountFilterSelect(e, type) ELSE e
<1> HIDE DEF Is
<1>1. ASSUME NEW p, HasData(p), NEW type
      PROVE  HasData(Coded(p, type))
  BY <1>1, Mounts
<1> HIDE DEF Coded
<1>2. HasData(Coded(Coded(q, "video"), "audio"))
  BY <1>1
<1> QED
  BY <1>2 DEF Coded, Is, Rendered

-----------------------------------------------------------------------------
(* The steps. The Core changes by the two ways of saving only. *)

\* What a step does when it leaves the Core alone
Harmless == UNCHANGED <<env, core>> /\ PageFits(page')

LEMMA HarmlessKeeps ==
    ASSUME FilesInv, Harmless
    PROVE  FilesInv'
BY DEF FilesInv, Harmless, CoreFits, Saved, PageFits, HasData, IsControl

LEMMA ClosedFits == PageFits(Closed) /\ PageFits(Stuck)
BY DEF PageFits, Closed, Stuck

LEMMA DataFits ==
    ASSUME NEW p, HasData(p)
    PROVE  PageFits(p)
BY DEF PageFits, HasData

\* An event of a page that holds the settings
LEMMA Shown ==
    ASSUME NEW q, HasData(q), NEW before, page' = Rendered(before, q), UNCHANGED <<env, core>>
    PROVE  Harmless
<1>1. HasData(Rendered(before, q))
  BY RenderedFits
<1> QED
  BY <1>1, DataFits DEF Harmless

LEMMA Opened ==
    ASSUME NEW p, HasData(p), NEW step
    PROVE  HasData(OpenProfile(p, step))
<1> DEFINE data == p.data
           Nth(i) == IF Within(data.sources, i) THEN InitSource(At(data.sources, i))
                     ELSE InitSource(Nothing)
           hasAudio == "audio" \in Types(Nth(0).streams)
           q == [view |-> "profile", data |-> data, complete |-> p.complete, past |-> p.past,
                 sources |-> [video |-> Nth(0), audio |-> Nth(1)],
                 profile |-> InitProfile(data.profile), before |-> p.past,
                 vstatus |-> "none", astatus |-> "none", step |-> step,
                 pseudo |-> IF hasAudio THEN p.pseudo \cup {"videoaudio"}
                            ELSE p.pseudo \ {"videoaudio"}]
<1>1. OpenProfile(p, step) = Rendered({}, q)
  BY Zenon DEF OpenProfile
<1> HIDE DEF Nth, hasAudio
<1>2. {"view", "data"} \subseteq DOMAIN q /\ q.data = p.data
  OBVIOUS
<1> HIDE DEF q
<1>3. HasData(q)
  BY <1>2 DEF HasData
<1> QED
  BY <1>1, <1>3, RenderedFits

\* The steps of the page on which nothing is edited
LEMMA PageSteps ==
    ASSUME FilesInv, Open \/ Leave \/ (\E step \in {0, 1} : Edit(step)) \/ Reload \/ SaveThrows
    PROVE  Harmless
<1>1. CASE Open
  <2> DEFINE p == Loaded(InitIngestMetadata(core.meta))
  <2>1. HasData(p)
    <3>1. InitIngestMetadata(core.meta).control = core.meta.control
          /\ "control" \in DOMAIN InitIngestMetadata(core.meta)
      BY DEF InitIngestMetadata
    <3>2. p.data = InitIngestMetadata(core.meta) /\ {"view", "data"} \subseteq DOMAIN p
      BY DEF Loaded
    <3> HIDE DEF p
    <3>3. IsControl(core.meta.control)
      BY DEF FilesInv, CoreFits
    <3> QED
      BY <3>1, <3>2, <3>3 DEF HasData
  <2>2. page' = (IF p.data.sources = <<>> THEN OpenProfile(p, 0) ELSE p) /\ UNCHANGED <<env, core>>
    BY <1>1 DEF Open
  <2> HIDE DEF p
  <2>3. HasData(page')
    BY <2>1, <2>2, Opened
  <2> QED
    BY <2>2, <2>3, DataFits DEF Harmless
<1>2. CASE Leave
  BY <1>2, ClosedFits DEF Leave, Harmless
<1>3. ASSUME NEW step \in {0, 1}, Edit(step)
      PROVE  Harmless
  <2>1. page.view = "edit" /\ page' = OpenProfile(page, step) /\ UNCHANGED <<env, core>>
    BY <1>3 DEF Edit
  <2>2. HasData(page)
    BY <2>1 DEF FilesInv, PageFits
  <2>3. HasData(page')
    BY <2>1, <2>2, Opened
  <2> QED
    BY <2>1, <2>3, DataFits DEF Harmless
<1>4. CASE Reload
  BY <1>4, ClosedFits DEF Reload, Harmless
<1>5. CASE SaveThrows
  BY <1>5, ClosedFits DEF SaveThrows, Harmless
<1> QED
  BY <1>1, <1>2, <1>3, <1>4, <1>5

LEMMA ControlSteps ==
    ASSUME FilesInv,
           SaveFails \/ (page.view = "edit" /\ \E c \in ControlChoice(page.data.control) : ChangeControl(c))
    PROVE  Harmless
<1>1. page.view = "edit" /\ UNCHANGED <<env, core>>
  BY DEF SaveFails, SavePossible, ChangeControl
<1>2. HasData(page) /\ env.maxHours \in Int
  BY <1>1 DEF FilesInv, PageFits
<1>3. CASE SaveFails
  <2> DEFINE io == CreateInputsOutputs(page.data.sources, page.data.profile)
             control == UsedControl(page.data.control, io.inputs)
             sources == io.sources
  <2>1. IsControl(control)
    BY <1>2, ControlUsed DEF HasData
  <2>2. page' = [page EXCEPT !.data.sources = sources, !.data.control = control]
    BY <1>3 DEF SaveFails
  <2> HIDE DEF control, sources
  <2>3. page'.data.control = control /\ {"view", "data"} \subseteq DOMAIN page' /\ "control" \in DOMAIN page'.data
    BY <1>2, <2>2, Zenon DEF HasData
  <2>4. HasData(page')
    BY <2>1, <2>3 DEF HasData
  <2> QED
    BY <1>1, <2>4, DataFits DEF Harmless
<1>4. ASSUME NEW c \in ControlChoice(page.data.control), ChangeControl(c)
      PROVE  Harmless
  <2>1. IsControl(c)
    BY <1>2, ChoicesKept DEF HasData
  <2>2. page' = [page EXCEPT !.data.control = c]
    BY <1>4 DEF ChangeControl
  <2>3. page'.data.control = c /\ {"view", "data"} \subseteq DOMAIN page' /\ "control" \in DOMAIN page'.data
    BY <1>2, <2>2, Zenon DEF HasData
  <2>4. HasData(page')
    BY <2>1, <2>3 DEF HasData
  <2> QED
    BY <1>1, <2>4, DataFits DEF Harmless
<1> QED
  BY <1>3, <1>4

\* Saving: the metadata may be the old one, but snapshot and preview of a channel
\* that was saved completely read what its process writes.
LEMMA SaveStep ==
    ASSUME FilesInv, NEW done \in SUBSET Calls, Save(done)
    PROVE  FilesInv'
<1> DEFINE data == page.data
           io == CreateInputsOutputs(data.sources, data.profile)
           control == UsedControl(data.control, io.inputs)
           meta == [data EXCEPT !.sources = io.sources, !.control = control]
           p == IngestProcess(io.global, io.inputs, io.outputs[1], data.control, env.servers)
<1>1. page.view = "edit" /\ page' = Closed /\ env' = env /\ core' = SavedIn(core, data, io, done)
  BY DEF Save, SavePossible
<1>2. HasData(page) /\ CoreFits
  BY <1>1 DEF FilesInv, PageFits
<1>3. IsControl(control) /\ IsControl(data.control)
  BY <1>2, ControlUsed DEF HasData
<1>4. Made(p) /\ p.hls = control.hls
  BY <1>3, ProcessMade
<1>5. "control" \in DOMAIN meta /\ meta.control = control
  BY <1>2 DEF HasData
<1>6. SnapshotProcess(control).input = MasterFile(control.hls)
      /\ PreviewProcess(control).input = MasterFile(control.hls)
  BY DEF SnapshotProcess, PreviewProcess
<1>7. core' = [core EXCEPT
           !.ingest = p,
           !.meta = IF "metadata" \in done THEN meta ELSE @,
           !.snapshot = IF "snapshot" \in done THEN SnapshotProcess(control) ELSE @,
           !.preview = IF "preview" \in done THEN PreviewProcess(control) ELSE @,
           !.past = IF "metadata" \in done THEN page.past ELSE @,
           !.asked = page.past.asked, !.by = "editor", !.whole = (done = Calls)]
  BY <1>1, Zenon DEF SavedIn
<1> HIDE DEF p, meta, control, io, data
<1>8. DOMAIN core = CoreFields
  BY <1>2 DEF CoreFits
<1>9. /\ DOMAIN core' = CoreFields /\ core'.ingest = p
      /\ core'.meta = IF "metadata" \in done THEN meta ELSE core.meta
      /\ core'.snapshot = IF "snapshot" \in done THEN SnapshotProcess(control) ELSE core.snapshot
      /\ core'.preview = IF "preview" \in done THEN PreviewProcess(control) ELSE core.preview
      /\ core'.whole = (done = Calls)
  BY <1>7, <1>8, Zenon DEF CoreFields
<1>10. "control" \in DOMAIN core.meta /\ IsControl(core.meta.control)
  BY <1>2 DEF CoreFits
<1>11. "control" \in DOMAIN core'.meta /\ IsControl(core'.meta.control)
  BY <1>3, <1>5, <1>9, <1>10
<1>12. core'.whole => core'.snapshot = SnapshotProcess(control) /\ core'.preview = PreviewProcess(control)
  BY <1>9 DEF Calls
<1>13. CoreFits'
  BY <1>4, <1>6, <1>9, <1>11, <1>12 DEF CoreFits
<1> QED
  BY <1>1, <1>13, ClosedFits DEF FilesInv

-----------------------------------------------------------------------------
(* The steps of the profile *)

LEMMA ProbesFit ==
    ASSUME NEW p, HasData(p), NEW type, NEW settings, NEW inputs, NEW streams
    PROVE  /\ HasData(ProbedVideo(p, type, settings, inputs, streams))
           /\ HasData(ProbedAudio(p, type, settings, inputs, streams))
<1>1. HasData(ProbedVideo(p, type, settings, inputs, streams))
  BY Zenon DEF HasData, ProbedVideo
<1>2. HasData(ProbedAudio(p, type, settings, inputs, streams))
  BY Zenon DEF HasData, ProbedAudio
<1> QED
  BY <1>1, <1>2

LEMMA ProbeSteps ==
    ASSUME FilesInv,
           \/ \E type, settings, streams : ProbeVideo(type, settings, streams)
           \/ \E settings, streams : ProbeAudio(settings, streams)
           \/ \E type : Hint(type)
    PROVE  Harmless
<1>1. page.view = "profile"
  BY Zenon DEF ProbeVideo, ProbeAudio, Hint
<1>2. HasData(page)
  BY <1>1 DEF FilesInv, PageFits
<1>3. ASSUME NEW type, NEW settings, NEW streams, ProbeVideo(type, settings, streams)
      PROVE  Harmless
  BY <1>2, <1>3, ProbesFit, Shown, Zenon DEF ProbeVideo
<1>4. ASSUME NEW settings, NEW streams, ProbeAudio(settings, streams)
      PROVE  Harmless
  BY <1>2, <1>4, ProbesFit, Shown, Zenon DEF ProbeAudio
<1>5. ASSUME NEW type, Hint(type)
      PROVE  Harmless
  BY <1>2, <1>5, ProbesFit, Shown, Zenon DEF Hint, Show
<1> QED
  BY <1>3, <1>4, <1>5

LEMMA SelectionSteps ==
    ASSUME FilesInv,
           \/ ChangeVideoSource
           \/ \E type : SelectAudio(type)
           \/ \E type, i : SelectStream(type, i)
    PROVE  Harmless
<1>1. page.view = "profile"
  BY Zenon DEF ChangeVideoSource, SelectAudio, SelectStream
<1>2. HasData(page)
  BY <1>1 DEF FilesInv, PageFits
<1>3. CASE ChangeVideoSource
  <2>1. HasData([page EXCEPT !.vstatus = "none"])
    BY <1>2, Zenon DEF HasData
  <2> QED
    BY <1>3, <2>1, Shown, Zenon DEF ChangeVideoSource, Show
<1>4. ASSUME NEW type, SelectAudio(type)
      PROVE  Harmless
  <2>1. HasData(SelectedAudio(page, type))
    BY <1>2, Zenon DEF HasData, SelectedAudio, SelectedAudio_KeepsStatus
  <2> QED
    BY <1>4, <2>1, Shown, Zenon DEF SelectAudio, Show
<1>5. ASSUME NEW type, NEW i, SelectStream(type, i)
      PROVE  Harmless
  <2>1. HasData([page EXCEPT !.profile[type].stream = i,
                             !.past.asked = IF type = "audio" /\ @ = "other" THEN "video" ELSE @,
                             !.profile.custom.stream =
                                IF type = "audio" /\ ~OwnAudio(page) THEN i ELSE @])
    BY <1>2, Zenon DEF HasData
  <2> QED
    BY <1>5, <2>1, Shown, Zenon DEF SelectStream, Show
<1> QED
  BY <1>3, <1>4, <1>5

LEMMA CoderSteps ==
    ASSUME FilesInv,
           \/ \E type, coder : ChangeEncoder(type, coder)
           \/ \E coder : ChangeDecoder(coder)
           \/ \E gop : ChangeKeyFrames(gop)
           \/ \E type, f, s : ChangeFilterSettings(type, f, s)
    PROVE  Harmless
<1>1. page.view = "profile"
  BY Zenon DEF ChangeEncoder, ChangeDecoder, ChangeKeyFrames, ChangeFilterSettings
<1>2. HasData(page)
  BY <1>1 DEF FilesInv, PageFits
<1>3. ASSUME NEW type, NEW coder, ChangeEncoder(type, coder)
      PROVE  Harmless
  <2>1. HasData([page EXCEPT !.profile[type].encoder =
                    WithDefaults(Get(Encoders[type], coder), StreamUsed(page, type), env)])
    BY <1>2, Zenon DEF HasData
  <2> QED
    BY <1>3, <2>1, Shown, Zenon DEF ChangeEncoder, Show
<1>4. ASSUME NEW coder, ChangeDecoder(coder)
      PROVE  Harmless
  <2>1. HasData([page EXCEPT !.profile.video.decoder =
                    WithDefaults(Get(Decoders.video, coder), StreamUsed(page, "video"), env)])
    BY <1>2, Zenon DEF HasData
  <2> QED
    BY <1>4, <2>1, Shown, Zenon DEF ChangeDecoder, Show
<1>5. ASSUME NEW gop, ChangeKeyFrames(gop)
      PROVE  Harmless
  <2>1. HasData([page EXCEPT !.profile.video.encoder =
                    WithKeyFrames(@, gop, StreamUsed(page, "video"), env)])
    BY <1>2, Zenon DEF HasData
  <2> QED
    BY <1>5, <2>1, Shown, Zenon DEF ChangeKeyFrames, Show
<1>6. ASSUME NEW type, NEW f, NEW s, ChangeFilterSettings(type, f, s)
      PROVE  Harmless
  <2>1. HasData([page EXCEPT !.profile[type].filter = ChangeFilter(page.profile[type].filter, type, f, s)])
    BY <1>2, Zenon DEF HasData
  <2> QED
    BY <1>6, <2>1, Shown, Zenon DEF ChangeFilterSettings, Show
<1> QED
  BY <1>3, <1>4, <1>5, <1>6

LEMMA LeavingSteps ==
    ASSUME FilesInv, NextStep \/ BackStep \/ Finish \/ Abort
    PROVE  Harmless
<1>1. page.view = "profile"
  BY Zenon DEF NextStep, BackStep, Finish, Abort
<1>2. HasData(page)
  BY <1>1 DEF FilesInv, PageFits
<1>3. \A i : HasData([page EXCEPT !.step = i])
  BY <1>2, Zenon DEF HasData
<1>4. CASE NextStep
  BY <1>3, <1>4, Shown, Zenon DEF NextStep, Show
<1>5. CASE BackStep
  BY <1>3, <1>5, Shown, Zenon DEF BackStep, Show
<1>6. CASE Finish
  <2> DEFINE sources == <<page.sources.video, page.sources.audio>>
             profile == CleanupProfile(page.profile)
             data == [page.data EXCEPT !.sources = sources, !.profile = profile,
                                       !.streams = CreateOutputStreams(sources, profile)]
  <2>1. "control" \in DOMAIN data /\ IsControl(data.control)
    BY <1>2, Zenon DEF HasData
  <2>2. /\ page' = [view |-> "edit", pseudo |-> page.pseudo, past |-> page.past,
                    complete |-> ValidateProfile(sources, profile), data |-> data]
        /\ UNCHANGED <<env, core>>
    BY <1>6, Zenon DEF Finish
  <2> HIDE DEF data
  <2>3. HasData(page')
    BY <2>1, <2>2 DEF HasData
  <2> QED
    BY <2>2, <2>3, DataFits DEF Harmless
<1>7. CASE Abort
  <2>1. "control" \in DOMAIN Abandoned(page) /\ IsControl(Abandoned(page).control)
    BY <1>2, Zenon DEF HasData, Abandoned
  <2>2. UNCHANGED <<env, core>> /\ {"view", "data"} \subseteq DOMAIN page' /\ page'.data = Abandoned(page)
    BY <1>7 DEF Abort
  <2>3. HasData(page')
    BY <2>1, <2>2 DEF HasData
  <2> QED
    BY <2>2, <2>3, DataFits DEF Harmless
<1> QED
  BY <1>4, <1>5, <1>6, <1>7

-----------------------------------------------------------------------------
(* The steps of the wizard, which keeps no settings of its own *)

IsWizard(p) == "view" \in DOMAIN p /\ p.view = "wizard"

LEMMA WizardFits ==
    ASSUME NEW p, IsWizard(p)
    PROVE  PageFits(p)
BY DEF IsWizard, PageFits

LEMMA AudioResultFits ==
    ASSUME NEW p, IsWizard(p)
    PROVE  IsWizard(AudioResult(p))
BY Zenon DEF IsWizard, AudioResult

LEMMA VideoAnsweredFits ==
    ASSUME NEW p, IsWizard(p), NEW source, NEW streams
    PROVE  IsWizard(VideoAnswered(p, source, streams))
BY Zenon DEF IsWizard, VideoAnswered

LEMMA WizardVideo ==
    ASSUME FilesInv,
           \/ \E type : ChooseType(type)
           \/ \E stored, streams : WizardProbe(stored, streams)
           \/ \E coder : WizardEncoder(coder)
           \/ \E coder : WizardDecoder(coder)
           \/ VideoChosen
    PROVE  Harmless
<1>1. IsWizard(page)
  BY Zenon DEF FilesInv, PageFits, IsWizard, ChooseType, WizardProbe, WizardEncoder, WizardDecoder,
               VideoChosen, At1
<1>2. ASSUME NEW type, ChooseType(type)
      PROVE  Harmless
  <2>1. IsWizard(page') /\ UNCHANGED <<env, core>>
    BY <1>1, <1>2, Zenon DEF ChooseType, Turn, IsWizard
  <2> QED
    BY <2>1, WizardFits DEF Harmless
<1>3. ASSUME NEW stored, NEW streams, WizardProbe(stored, streams)
      PROVE  Harmless
  <2>1. IsWizard(page') /\ UNCHANGED <<env, core>>
    BY <1>1, <1>3, VideoAnsweredFits, Zenon DEF WizardProbe, Set
  <2> QED
    BY <2>1, WizardFits DEF Harmless
<1>4. ASSUME NEW coder, WizardEncoder(coder)
      PROVE  Harmless
  <2>1. IsWizard(page') /\ UNCHANGED <<env, core>>
    BY <1>1, <1>4, Zenon DEF WizardEncoder, Set, IsWizard
  <2> QED
    BY <2>1, WizardFits DEF Harmless
<1>5. ASSUME NEW coder, WizardDecoder(coder)
      PROVE  Harmless
  <2>1. IsWizard(page') /\ UNCHANGED <<env, core>>
    BY <1>1, <1>5, Zenon DEF WizardDecoder, Set, IsWizard
  <2> QED
    BY <2>1, WizardFits DEF Harmless
<1>6. CASE VideoChosen
  <2>1. IsWizard(page') /\ UNCHANGED <<env, core>>
    BY <1>1, <1>6, Zenon DEF VideoChosen, Turn, IsWizard
  <2> QED
    BY <2>1, WizardFits DEF Harmless
<1> QED
  BY <1>2, <1>3, <1>4, <1>5, <1>6

LEMMA WizardSound ==
    ASSUME FilesInv,
           \/ \E type, i : WizardSelect(type, i)
           \/ \E kind : WizardAudio(kind)
           \/ AudioChosen
           \/ \E streams : AudioProbed(streams)
    PROVE  Harmless
<1>1. IsWizard(page)
  BY Zenon DEF FilesInv, PageFits, IsWizard, WizardSelect, WizardAudio, AudioChosen, AudioProbed, At1
<1>2. ASSUME NEW type, NEW i, WizardSelect(type, i)
      PROVE  Harmless
  <2>1. IsWizard(page') /\ UNCHANGED <<env, core>>
    BY <1>1, <1>2, Zenon DEF WizardSelect, Set, IsWizard
  <2> QED
    BY <2>1, WizardFits DEF Harmless
<1>3. ASSUME NEW kind, WizardAudio(kind)
      PROVE  Harmless
  <2>1. IsWizard(page') /\ UNCHANGED <<env, core>>
    BY <1>1, <1>3, Zenon DEF WizardAudio, Set, IsWizard
  <2> QED
    BY <2>1, WizardFits DEF Harmless
<1>4. CASE AudioChosen
  <2>1. UNCHANGED <<env, core>> /\ page' = IF NoAudioStream(page) THEN Stuck ELSE AudioResult(page)
    BY <1>4 DEF AudioChosen, Turn
  <2>2. page' = Stuck \/ IsWizard(page')
    BY <1>1, <2>1, AudioResultFits
  <2> QED
    BY <2>1, <2>2, WizardFits, ClosedFits DEF Harmless
<1>5. ASSUME NEW streams, AudioProbed(streams)
      PROVE  Harmless
  <2> DEFINE found == AnalyzeStreams("audio", streams) = "success"
             profile == IF found THEN PreselectAudioProfile(streams, page.profile, env.encoders)
                        ELSE page.profile
             status == ProbeStatus("audio", streams, profile)
             q == [page EXCEPT !.sources.audio.streams = streams, !.profile = profile,
                               !.status = status]
  <2>1. IsWizard(q)
    BY <1>1, Zenon DEF IsWizard
  <2>2. UNCHANGED <<env, core>> /\ page' = IF status = "success" THEN AudioResult(q) ELSE q
    BY <1>5, Zenon DEF AudioProbed, Set
  <2> HIDE DEF q, status
  <2>3. IsWizard(page')
    BY <2>1, <2>2, AudioResultFits
  <2> QED
    BY <2>2, <2>3, WizardFits DEF Harmless
<1> QED
  BY <1>2, <1>3, <1>4, <1>5

LEMMA WizardWay ==
    ASSUME FilesInv,
           \/ WizardOpen \/ BackToType \/ BackToSettings \/ BackToResult \/ BackToAudio
           \/ BackToMeta \/ ToLicense \/ WizardAbort \/ AbortBack \/ WizardSaveFails
    PROVE  Harmless
<1>1. CASE WizardOpen
  <2>1. IsWizard(page') /\ UNCHANGED <<env, core>>
    BY <1>1 DEF WizardOpen, Turn, IsWizard
  <2> QED
    BY <2>1, WizardFits DEF Harmless
<1>2. CASE WizardSaveFails
  BY <1>2, ClosedFits DEF WizardSaveFails, Harmless
<1>3. CASE BackToType \/ BackToSettings \/ BackToResult \/ BackToAudio
  <2>1. IsWizard(page') /\ UNCHANGED <<env, core>>
    BY <1>3, Zenon DEF FilesInv, PageFits, IsWizard, BackToType, BackToSettings, BackToResult,
                       BackToAudio, At1, Turn
  <2> QED
    BY <2>1, WizardFits DEF Harmless
<1>4. CASE BackToMeta \/ ToLicense \/ WizardAbort \/ AbortBack
  <2>1. IsWizard(page') /\ UNCHANGED <<env, core>>
    BY <1>4, Zenon DEF FilesInv, PageFits, IsWizard, BackToMeta, ToLicense, WizardAbort, AbortBack,
                       At1, Turn
  <2> QED
    BY <2>1, WizardFits DEF Harmless
<1> QED
  BY <1>1, <1>2, <1>3, <1>4

\* The wizard saves the settings a channel begins with, and leaves the preview alone.
LEMMA WizardSaveStep ==
    ASSUME FilesInv, NEW done \in SUBSET {"metadata", "snapshot"}, WizardSave(done)
    PROVE  FilesInv'
<1> DEFINE sources == <<page.sources.video, page.sources.audio>>
           profile == CleanupProfile(page.profile)
           io == CreateInputsOutputs(sources, profile)
           control == UsedControl(DefaultControl, io.inputs)
           data == [version |-> "1.2.0", sources |-> io.sources, profile |-> profile,
                    streams |-> CreateOutputStreams(sources, profile), control |-> control]
           past == [asked |-> IF page.asked = "own" THEN "other" ELSE page.asked,
                    abandoned |-> FALSE]
           p == IngestProcess(io.global, io.inputs, io.outputs[1], DefaultControl, env.servers)
<1>1. page' = Closed /\ env' = env
  BY DEF WizardSave
<1>2. core' = [core EXCEPT
                 !.ingest = p,
                 !.meta = IF "metadata" \in done THEN data ELSE @,
                 !.snapshot = IF "snapshot" \in done THEN SnapshotProcess(control) ELSE @,
                 !.past = IF "metadata" \in done THEN past ELSE @,
                 !.asked = page.asked, !.by = "wizard",
                 !.whole = (done = {"metadata", "snapshot"})]
  BY Zenon DEF WizardSave
<1>3. Made(p) /\ p.hls = control.hls /\ IsControl(control)
  BY DefaultFits, ControlUsed, ProcessMade
<1>4. "control" \in DOMAIN data /\ data.control = control
  OBVIOUS
<1>5. SnapshotProcess(control).input = MasterFile(control.hls)
  BY DEF SnapshotProcess
<1> HIDE DEF p, control, data, past
<1>6. /\ DOMAIN core = CoreFields
      /\ "control" \in DOMAIN core.meta /\ IsControl(core.meta.control)
  BY DEF FilesInv, CoreFits
<1>7. /\ DOMAIN core' = CoreFields /\ core'.ingest = p
      /\ core'.meta = IF "metadata" \in done THEN data ELSE core.meta
      /\ core'.snapshot = IF "snapshot" \in done THEN SnapshotProcess(control) ELSE core.snapshot
      /\ core'.by = "wizard" /\ core'.whole = (done = {"metadata", "snapshot"})
  BY <1>2, <1>6, Zenon DEF CoreFields
<1>8. "control" \in DOMAIN core'.meta /\ IsControl(core'.meta.control)
  BY <1>3, <1>4, <1>6, <1>7
<1>9. core'.whole => core'.snapshot = SnapshotProcess(control)
  BY <1>7
<1>10. CoreFits'
  BY <1>3, <1>5, <1>7, <1>8, <1>9 DEF CoreFits
<1> QED
  BY <1>1, <1>10, ClosedFits DEF FilesInv

-----------------------------------------------------------------------------
(* The theorem *)

LEMMA FilesInit == Init => FilesInv
<1> SUFFICES ASSUME Init PROVE FilesInv
  OBVIOUS
<1>1. PICK start \in Starts : env = start.env /\ core = start.core
  BY DEF Init
<1>2. /\ DOMAIN core = CoreFields /\ core.ingest = <<>>
      /\ "control" \in DOMAIN core.meta /\ IsControl(core.meta.control)
      /\ env.maxHours \in Int
  BY <1>1, StartsAssumption
<1>3. PageFits(page)
  BY ClosedFits DEF Init
<1> QED
  BY <1>2, <1>3 DEF FilesInv, CoreFits, Saved

LEMMA FilesStep == FilesInv /\ [Next]_vars => FilesInv'
<1> SUFFICES ASSUME FilesInv, [Next]_vars PROVE FilesInv'
  OBVIOUS
<1>1. CASE EditNext
  BY <1>1, PageSteps, ControlSteps, SaveStep, HarmlessKeeps DEF EditNext
<1>2. CASE ProfileNext
  BY <1>2, ProbeSteps, SelectionSteps, CoderSteps, LeavingSteps, HarmlessKeeps, Zenon DEF ProfileNext
<1>3. CASE WizardNext
  BY <1>3, WizardVideo, WizardSound, WizardWay, WizardSaveStep, HarmlessKeeps, Zenon DEF WizardNext
<1>4. CASE Reload
  BY <1>4, PageSteps, HarmlessKeeps
<1>5. CASE UNCHANGED vars
  BY <1>5 DEF vars, FilesInv, CoreFits, Saved, PageFits, HasData, IsControl
<1> QED
  BY <1>1, <1>2, <1>3, <1>4, <1>5 DEF Next

LEMMA FilesHold == FilesInv => FilesKept
<1> SUFFICES ASSUME FilesInv, Saved PROVE FilesKept
  BY DEF FilesKept
<1> DEFINE p == core.ingest
<1>1. /\ Made(p)
      /\ core.whole => core.snapshot.input = MasterFile(p.hls)
      /\ core.whole /\ core.by = "editor" => core.preview.input = MasterFile(p.hls)
  BY DEF FilesInv, CoreFits
<1>2. MasterFile(p.hls) \in p.files
  BY <1>1, FilesFit
<1> QED
  BY <1>1, <1>2, FilesFit DEF FilesKept

(* Whatever the coders, the sources and the settings of a channel are, and     *)
(* however often it is edited and saved, by the page or by the wizard, with    *)
(* calls to the Core that fail or not: the rules of its process never take a   *)
(* file that is still asked for and leave none behind, a rewind window holds   *)
(* the hours that were asked for, and snapshot and preview read a file the     *)
(* process writes (UpsertIngest and the settings of the controls).             *)
THEOREM FilesStayKept == Spec => []FilesKept
<1>1. Spec => []FilesInv
  BY FilesInit, FilesStep, PTL DEF Spec
<1> QED
  BY <1>1, FilesHold, PTL

-----------------------------------------------------------------------------
(* Types. What makes this more than a matter of shapes is the last part of TypeOK:
   the sources are changed in place while a channel is saved, and yet the profile
   saved with them has its streams and inputs. *)

IsMedia(m, sources) ==
    {"source", "stream", "encoder"} \subseteq DOMAIN m /\ m.source \in sources
IsProfile(p) ==
    /\ {"video", "audio", "custom"} \subseteq DOMAIN p
    /\ IsMedia(p.video, {-1, 0}) /\ IsMedia(p.audio, {-1, 0, 1})
    /\ "selected" \in DOMAIN p.custom /\ p.custom.selected \in BOOLEAN
IsSource(s) == {"inputs", "streams"} \subseteq DOMAIN s
AreSources(sources) == \A i \in DOMAIN sources : IsSource(sources[i])
IsPair(sources) ==
    {"video", "audio"} \subseteq DOMAIN sources /\ IsSource(sources.video) /\ IsSource(sources.audio)
IsPast(past) == "asked" \in DOMAIN past /\ past.asked \in Kinds
Pseudo == {"noaudio", "sdp", "videoaudio"}

\* Whether the channel can be saved is what it was when its data was taken over.
IsData(data, complete) ==
    /\ {"sources", "profile"} \subseteq DOMAIN data
    /\ IsProfile(data.profile) /\ AreSources(data.sources)
    /\ complete = ValidateProfile(data.sources, data.profile)

EditPage(p) ==
    /\ {"view", "data", "complete", "past", "pseudo"} \subseteq DOMAIN p /\ p.view = "edit"
    /\ IsData(p.data, p.complete) /\ IsPast(p.past) /\ p.pseudo \subseteq Pseudo
ProfileFields == {"view", "data", "complete", "past", "pseudo", "sources", "profile", "before",
                  "vstatus", "astatus", "step"}
ProfilePage(p) ==
    /\ ProfileFields \subseteq DOMAIN p /\ p.view = "profile"
    /\ IsData(p.data, p.complete) /\ IsPast(p.past) /\ p.pseudo \subseteq Pseudo
    /\ IsPair(p.sources) /\ IsProfile(p.profile) /\ IsPast(p.before)
    /\ p.vstatus \in Statuses /\ p.astatus \in Statuses /\ p.step \in {0, 1}
WizardPage(p) ==
    /\ {"view", "asked", "profile", "sources"} \subseteq DOMAIN p /\ p.view = "wizard"
    /\ p.asked \in Kinds /\ IsProfile(p.profile) /\ IsPair(p.sources)
EmptyPage(p) == "view" \in DOMAIN p /\ p.view \in {"closed", "stuck"}
PageTyped(p) == EmptyPage(p) \/ EditPage(p) \/ ProfilePage(p) \/ WizardPage(p)

CoreTyped ==
    /\ DOMAIN core = CoreFields /\ IsStored(core.meta.profile) /\ IsPast(core.past)
    /\ Saved /\ core.whole => ValidateProfile(core.meta.sources, core.meta.profile)
CountTyped ==
    /\ env.saves \in Nat /\ env.changes \in Nat /\ DOMAIN count = {"saves", "changes"}
    /\ count.saves \in 0..env.saves /\ count.changes \in 0..env.changes
TypeInv == CoreTyped /\ PageTyped(page) /\ CountTyped

-----------------------------------------------------------------------------
(* Loading *)

LEMMA MergedFields ==
    ASSUME NEW stored, NEW defaults
    PROVE  DOMAIN Merged(stored, defaults) = DOMAIN stored \cup DOMAIN defaults
BY DEF Merged

LEMMA InitSourceFits ==
    ASSUME NEW stored
    PROVE  IsSource(InitSource(stored))
<1> DEFINE defaults == [type |-> "", settings |-> Nothing, inputs |-> <<>>, streams |-> <<>>]
<1>1. {"inputs", "streams"} \subseteq DOMAIN defaults
  OBVIOUS
<1> HIDE DEF defaults
<1>2. {"inputs", "streams"} \subseteq DOMAIN Merged(stored, defaults)
  BY <1>1, MergedFields
<1> QED
  BY <1>2 DEF InitSource, IsSource, defaults

LEMMA InitMediaFits ==
    ASSUME NEW stored, NEW sources, IsStoredMedia(stored, sources), -1 \in sources
    PROVE  IsMedia(InitMedia(stored), sources) /\ "filter" \in DOMAIN InitMedia(stored)
<1> DEFINE defaults == [source |-> -1, stream |-> -1, encoder |-> Nothing,
                        decoder |-> Nothing, filter |-> Nothing]
           m == Merged(stored, defaults)
<1>1. /\ {"source", "stream", "encoder", "decoder", "filter"} \subseteq DOMAIN m
      /\ m.source \in sources
  <2>1. DOMAIN defaults = {"source", "stream", "encoder", "decoder", "filter"} /\ defaults.source = -1
    OBVIOUS
  <2> HIDE DEF defaults
  <2>2. "source" \in DOMAIN stored => m.source = stored.source
    BY DEF Merged
  <2>3. "source" \notin DOMAIN stored => m.source = -1
    BY <2>1 DEF Merged
  <2>4. DOMAIN m = DOMAIN stored \cup DOMAIN defaults
    BY MergedFields
  <2> QED
    BY <2>1, <2>2, <2>3, <2>4 DEF IsStoredMedia
<1>2. InitMedia(stored) = [m EXCEPT !.encoder = InitCoder(@, "none"),
                                    !.decoder = InitCoder(@, "default"),
                                    !.filter = InitFilter(@)]
  BY DEF InitMedia
<1> HIDE DEF m
<1> QED
  BY <1>1, <1>2 DEF IsMedia

LEMMA InitProfileFits ==
    ASSUME NEW stored, IsStored(stored)
    PROVE  IsProfile(InitProfile(stored))
<1> DEFINE defaults == [video |-> Nothing, audio |-> Nothing, custom |-> Nothing]
           p == Merged(stored, defaults)
           audio == InitMedia(p.audio)
           video == InitMedia(p.video)
           chosen == [selected |-> audio.source = 1,
                      stream   |-> IF audio.source = 1 THEN -2 ELSE audio.stream]
           custom == Merged(p.custom, chosen)
<1>1. InitProfile(stored) = [video  |-> [video EXCEPT !.filter = RepairTimestamps(@)],
                             audio  |-> audio, custom |-> custom]
  BY DEF InitProfile
<1>2. /\ IsStoredMedia(p.video, {-1, 0}) /\ IsStoredMedia(p.audio, {-1, 0, 1})
      /\ "selected" \in DOMAIN p.custom => p.custom.selected \in BOOLEAN
  <2>1. /\ DOMAIN defaults = {"video", "audio", "custom"} /\ defaults.video = Nothing
        /\ defaults.audio = Nothing /\ defaults.custom = Nothing
    OBVIOUS
  <2> HIDE DEF defaults
  <2>2. \A f \in {"video", "audio", "custom"} :
           p[f] = IF f \in DOMAIN stored THEN stored[f] ELSE Nothing
    <3> SUFFICES ASSUME NEW f \in {"video", "audio", "custom"}
                 PROVE  p[f] = IF f \in DOMAIN stored THEN stored[f] ELSE Nothing
      OBVIOUS
    <3>1. f \in DOMAIN defaults /\ defaults[f] = Nothing
      BY <2>1
    <3> QED
      BY <3>1 DEF Merged
  <2> HIDE DEF p
  <2>3. DOMAIN Nothing = {}
    BY DEF Nothing
  <2> QED
    BY <2>2, <2>3 DEF IsStored, IsStoredMedia
<1> HIDE DEF p
<1>3. IsMedia(video, {-1, 0}) /\ IsMedia(audio, {-1, 0, 1})
  BY <1>2, InitMediaFits
<1>4. "selected" \in DOMAIN custom /\ custom.selected \in BOOLEAN
  <2>1. "selected" \in DOMAIN chosen /\ chosen.selected \in BOOLEAN
    OBVIOUS
  <2> HIDE DEF chosen
  <2>2. DOMAIN custom = DOMAIN p.custom \cup DOMAIN chosen
    BY MergedFields
  <2>3. CASE "selected" \in DOMAIN p.custom
    <3>1. custom.selected = p.custom.selected
      BY <2>3 DEF Merged
    <3> QED
      BY <1>2, <2>2, <2>3, <3>1
  <2>4. CASE "selected" \notin DOMAIN p.custom
    <3>1. custom.selected = chosen.selected
      BY <2>1, <2>4 DEF Merged
    <3> QED
      BY <2>1, <2>2, <3>1
  <2> QED
    BY <2>3, <2>4
<1> HIDE DEF video, audio, custom
<1>5. IsMedia([video EXCEPT !.filter = RepairTimestamps(@)], {-1, 0})
  BY <1>3, Zenon DEF IsMedia
<1> QED
  BY <1>1, <1>3, <1>4, <1>5 DEF IsProfile

LEMMA ResampledFits ==
    ASSUME NEW p, IsProfile(p)
    PROVE  IsProfile(Resampled(p))
BY Zenon DEF IsProfile, IsMedia, Resampled

LEMMA ProfileStored ==
    ASSUME NEW p, IsProfile(p)
    PROVE  IsStored(p)
BY DEF IsProfile, IsMedia, IsStored, IsStoredMedia

LEMMA MetaLoaded ==
    ASSUME NEW meta, IsStored(meta.profile)
    PROVE  IsProfile(InitIngestMetadata(meta).profile) /\ AreSources(InitIngestMetadata(meta).sources)
<1>1. IsProfile(InitProfile(meta.profile))
  BY InitProfileFits
<1>2. IsProfile(InitIngestMetadata(meta).profile)
  BY <1>1, ResampledFits DEF InitIngestMetadata
<1>3. AreSources(InitIngestMetadata(meta).sources)
  BY InitSourceFits DEF InitIngestMetadata, AreSources
<1> QED
  BY <1>2, <1>3

-----------------------------------------------------------------------------
(* Saving changes the sources in place, but not what the profile says of them. *)

SameStreams(a, b) ==
    /\ DOMAIN a = DOMAIN b /\ AreSources(a)
    /\ \A i \in DOMAIN b : a[i].streams = b[i].streams /\ DOMAIN a[i].inputs = DOMAIN b[i].inputs

LEMMA StillValid ==
    ASSUME NEW a, NEW b, SameStreams(a, b), NEW p
    PROVE  ValidateProfile(a, p) = ValidateProfile(b, p)
BY DEF SameStreams, ValidateProfile, ValidStream, Within, At

LEMMA DecodeKeeps ==
    ASSUME NEW sources, AreSources(sources), NEW m
    PROVE  SameStreams(DecodeInput(sources, m), sources)
<1> DEFINE k == InputId(sources, m)[1] + 1
           j == InputId(sources, m)[2] + 1
           more == m.decoder.mapping.local
           a == DecodeInput(sources, m)
<1>1. a = [sources EXCEPT ![k].inputs[j].options = more \o @]
  BY Zenon DEF DecodeInput
<1> HIDE DEF k, j, more, a
<1>2. DOMAIN a = DOMAIN sources /\ \A i \in DOMAIN sources : i # k => a[i] = sources[i]
  BY <1>1, Zenon
<1>3. ASSUME k \in DOMAIN sources
      PROVE  /\ IsSource(a[k]) /\ a[k].streams = sources[k].streams
             /\ DOMAIN a[k].inputs = DOMAIN sources[k].inputs
  <2>1. "inputs" \in DOMAIN sources[k] /\ "streams" \in DOMAIN sources[k]
    BY <1>3 DEF AreSources, IsSource
  <2>2. DOMAIN a[k] = DOMAIN sources[k] /\ a[k].streams = sources[k].streams
    BY <1>1, <1>3, <2>1, Zenon
  <2>3. DOMAIN a[k].inputs = DOMAIN sources[k].inputs
    BY <1>1, <1>3, <2>1, Zenon
  <2> QED
    BY <2>1, <2>2, <2>3 DEF IsSource
<1>4. SameStreams(a, sources)
  BY <1>2, <1>3 DEF SameStreams, AreSources
<1> QED
  BY <1>4 DEF a

LEMMA SavedSources ==
    ASSUME NEW sources, AreSources(sources), NEW p
    PROVE  LET io == CreateInputsOutputs(sources, p)
           IN  /\ SameStreams(io.sources, sources)
               /\ ~ValidateProfile(sources, p) => io.inputs = <<>>
<1> DEFINE v == DecodeInput(sources, p.video)
           a == IF HasAudio(p) THEN DecodeInput(v, p.audio) ELSE v
<1>1. SameStreams(v, sources)
  BY DecodeKeeps
<1>2. SameStreams(a, sources)
  <2>1. AreSources(v)
    BY <1>1 DEF SameStreams
  <2> HIDE DEF v
  <2>2. SameStreams(DecodeInput(v, p.audio), v)
    BY <2>1, DecodeKeeps
  <2>3. SameStreams(DecodeInput(v, p.audio), sources)
    BY <1>1, <2>2 DEF SameStreams
  <2> QED
    BY <1>1, <2>3
<1>3. InputsOutputs(sources, p).sources = a
  BY DEF InputsOutputs
<1> HIDE DEF a
<1>4. CASE ValidateProfile(sources, p)
  BY <1>2, <1>3, <1>4 DEF CreateInputsOutputs
<1>5. CASE ~ValidateProfile(sources, p)
  <2>1. CreateInputsOutputs(sources, p) =
           [global |-> <<>>, inputs |-> <<>>, outputs |-> <<>>, sources |-> sources]
    BY <1>5 DEF CreateInputsOutputs
  <2>2. SameStreams(sources, sources)
    BY DEF SameStreams
  <2> QED
    BY <2>1, <2>2
<1> QED
  BY <1>4, <1>5

-----------------------------------------------------------------------------
(* Rendering *)

\* A page of the profile on which only the profile changed, and of it nothing that
\* tells where the sound comes from.
Alike(a, b) ==
    /\ DOMAIN a = DOMAIN b
    /\ \A type \in {"video", "audio"} :
          DOMAIN a[type] = DOMAIN b[type] /\ a[type].source = b[type].source
    /\ a.custom = b.custom
SamePage(a, b, fields) ==
    DOMAIN a = DOMAIN b /\ \A f \in ProfileFields \ fields : a[f] = b[f]

LEMMA AlikeFits ==
    ASSUME NEW a, NEW b, IsProfile(b), Alike(a, b)
    PROVE  IsProfile(a)
BY DEF Alike, IsProfile, IsMedia

LEMMA SamePageFits ==
    ASSUME NEW a, NEW b, ProfilePage(b), SamePage(a, b, {"profile"}), IsProfile(a.profile)
    PROVE  ProfilePage(a)
<1>1. /\ a.view = b.view /\ a.data = b.data /\ a.complete = b.complete /\ a.past = b.past
      /\ a.pseudo = b.pseudo /\ a.sources = b.sources /\ a.before = b.before
      /\ a.vstatus = b.vstatus /\ a.astatus = b.astatus /\ a.step = b.step
  BY DEF SamePage, ProfileFields
<1> QED
  BY <1>1 DEF SamePage, ProfilePage

\* A coder or the filters of one part are set.
LEMMA PartSet ==
    ASSUME NEW p, ProfilePage(p), NEW type \in {"video", "audio"},
           NEW part \in {"encoder", "decoder", "filter"}, NEW x
    PROVE  ProfilePage([p EXCEPT !.profile[type][part] = x])
<1> DEFINE q == [p EXCEPT !.profile[type][part] = x]
<1>1. "profile" \in DOMAIN p /\ type \in DOMAIN p.profile
  BY DEF ProfilePage, ProfileFields, IsProfile
<1>2. DOMAIN q = DOMAIN p /\ \A f \in DOMAIN p : f # "profile" => q[f] = p[f]
  BY Zenon
<1>3. DOMAIN q.profile = DOMAIN p.profile /\ \A t \in DOMAIN p.profile : t # type => q.profile[t] = p.profile[t]
  BY <1>1, Zenon
<1>4. DOMAIN q.profile[type] = DOMAIN p.profile[type]
  BY <1>1, Zenon
<1>5. "source" \in DOMAIN p.profile[type] /\ "source" # part
  BY DEF ProfilePage, IsProfile, IsMedia
<1>6. q.profile[type].source = p.profile[type].source
  BY <1>1, <1>5, Zenon
<1> HIDE DEF q
<1>7. Alike(q.profile, p.profile)
  BY <1>1, <1>3, <1>4, <1>6 DEF Alike, ProfilePage, IsProfile
<1>8. SamePage(q, p, {"profile"})
  BY <1>2 DEF SamePage, ProfilePage
<1>9. ProfilePage(q)
  BY <1>7, <1>8, AlikeFits, SamePageFits DEF ProfilePage
<1> QED
  BY <1>9 DEF q

LEMMA MountsTyped ==
    ASSUME NEW p, ProfilePage(p), NEW type \in {"video", "audio"}
    PROVE  /\ ProfilePage(MountEncoder(p, type)) /\ ProfilePage(MountDecoder(p, type))
           /\ ProfilePage(MountFilterSelect(p, type))
BY PartSet, Zenon DEF MountEncoder, MountDecoder, MountFilterSelect

LEMMA RenderedTyped ==
    ASSUME NEW q, ProfilePage(q), NEW before
    PROVE  ProfilePage(Rendered(before, q))
<1> DEFINE new == Mounted(q) \ before
           Is(type, what) == \E m \in new : m[1] = type /\ m[2] = what
           Coded(p, type) ==
               LET d == IF Is(type, "decoder") THEN MountDecoder(p, type) ELSE p
                   e == IF Is(type, "encoder") THEN MountEncoder(d, type) ELSE d
               IN  IF Is(type, "filters") THEN MountFilterSelect(e, type) ELSE e
<1> HIDE DEF Is
<1>1. ASSUME NEW p, ProfilePage(p), NEW type \in {"video", "audio"}
      PROVE  ProfilePage(Coded(p, type))
  BY <1>1, MountsTyped
<1> HIDE DEF Coded
<1>2. ProfilePage(Coded(Coded(q, "video"), "audio"))
  BY <1>1
<1> QED
  BY <1>2 DEF Coded, Is, Rendered

-----------------------------------------------------------------------------
(* Probes *)

LEMMA PreselectFits ==
    ASSUME NEW m, NEW choice, IsMedia(m, choice), NEW streams, NEW type, NEW codecs,
           NEW registry, NEW available
    PROVE  /\ IsMedia(Preselect(m, streams, type, codecs, registry, available), choice)
           /\ Preselect(m, streams, type, codecs, registry, available).source = m.source
           /\ DOMAIN Preselect(m, streams, type, codecs, registry, available) = DOMAIN m
<1> DEFINE coder == IF First(streams, type) = -1 THEN "none"
                    ELSE PreselectCoder(registry, At(streams, First(streams, type)), codecs, available)
           a == [m EXCEPT !.stream = First(streams, type), !.encoder.coder = coder]
<1>1. Preselect(m, streams, type, codecs, registry, available) = a
  BY Zenon DEF Preselect
<1> HIDE DEF coder
<1>2. DOMAIN a = DOMAIN m /\ a.source = m.source
  BY Zenon DEF IsMedia
<1> HIDE DEF a
<1> QED
  BY <1>1, <1>2 DEF IsMedia

LEMMA SourceSet ==
    ASSUME NEW m, NEW choice, IsMedia(m, choice), NEW x \in choice
    PROVE  IsMedia([m EXCEPT !.source = x], choice)
BY DEF IsMedia

LEMMA VideoPreselected ==
    ASSUME NEW p, IsProfile(p), NEW streams, NEW encoders
    PROVE  IsMedia(PreselectVideo(p.video, streams, encoders), {-1, 0})
<1> DEFINE v == Preselect(p.video, streams, "video", <<"h264">>, Encoders.video, encoders.video)
<1>1. IsMedia(v, {-1, 0})
  BY PreselectFits DEF IsProfile
<1>2. PreselectVideo(p.video, streams, encoders) = [v EXCEPT !.source = IF v.stream = -1 THEN v.source ELSE 0]
  BY DEF PreselectVideo
<1> HIDE DEF v
<1>3. (IF v.stream = -1 THEN v.source ELSE 0) \in {-1, 0}
  BY <1>1 DEF IsMedia
<1> QED
  BY <1>1, <1>2, <1>3, SourceSet

LEMMA ProfilePreselected ==
    ASSUME NEW p, IsProfile(p), NEW streams, NEW encoders, NEW sound
    PROVE  IsProfile(PreselectProfile(streams, p, encoders, sound))
<1> DEFINE v == IF VideoPlausible(streams, p.video) THEN p.video
                ELSE PreselectVideo(p.video, streams, encoders)
           a == PreselectAudio(p.audio, streams, encoders)
           source == IF a.stream >= 0 THEN 0 ELSE a.source
           audio == [a EXCEPT !.source = source]
           custom == [selected |-> FALSE, stream |-> a.stream]
<1>1. IsMedia(v, {-1, 0})
  BY VideoPreselected DEF IsProfile
<1>2. IsMedia(a, {-1, 0, 1})
  BY PreselectFits DEF IsProfile, PreselectAudio
<1>3. PreselectProfile(streams, p, encoders, sound) =
         IF ~sound \/ AudioPlausible(streams, p.audio) THEN [p EXCEPT !.video = v]
         ELSE [video |-> v, audio |-> audio, custom |-> custom]
  BY DEF PreselectProfile
<1> HIDE DEF v, a
<1>4. source \in {-1, 0, 1}
  BY <1>2 DEF IsMedia
<1> HIDE DEF source
<1>5. IsMedia(audio, {-1, 0, 1})
  BY <1>2, <1>4, SourceSet
<1>6. "selected" \in DOMAIN custom /\ custom.selected \in BOOLEAN
  OBVIOUS
<1> HIDE DEF audio, custom
<1>7. IsProfile([p EXCEPT !.video = v])
  BY <1>1 DEF IsProfile
<1>8. IsProfile([video |-> v, audio |-> audio, custom |-> custom])
  BY <1>1, <1>5, <1>6 DEF IsProfile
<1> QED
  BY <1>3, <1>7, <1>8

LEMMA AudioProfilePreselected ==
    ASSUME NEW p, IsProfile(p), NEW streams, NEW encoders
    PROVE  IsProfile(PreselectAudioProfile(streams, p, encoders))
<1> DEFINE a == IF AudioPlausible(streams, p.audio) THEN p.audio
                ELSE PreselectAudio(p.audio, streams, encoders)
           audio == [a EXCEPT !.source = 1]
<1>1. IsMedia(a, {-1, 0, 1})
  BY PreselectFits DEF IsProfile, PreselectAudio
<1>2. PreselectAudioProfile(streams, p, encoders) = [p EXCEPT !.audio = audio]
  BY DEF PreselectAudioProfile
<1> HIDE DEF a
<1>3. IsMedia(audio, {-1, 0, 1})
  BY <1>1, SourceSet
<1> HIDE DEF audio
<1>4. IsProfile([p EXCEPT !.audio = audio])
  BY <1>3 DEF IsProfile
<1> QED
  BY <1>2, <1>4

\* A video source without sound leaves none.
LEMMA MutedFits ==
    ASSUME NEW p, IsProfile(p)
    PROVE  IsProfile([p EXCEPT !.audio.source = -1, !.audio.stream = -1,
                               !.custom = [selected |-> FALSE, stream |-> -1]])
<1> DEFINE custom == [selected |-> FALSE, stream |-> -1]
           q == [p EXCEPT !.audio.source = -1, !.audio.stream = -1, !.custom = custom]
<1>1. "selected" \in DOMAIN custom /\ custom.selected \in BOOLEAN
  OBVIOUS
<1> HIDE DEF custom
<1>2. /\ {"video", "audio", "custom"} \subseteq DOMAIN p
      /\ "source" \in DOMAIN p.audio /\ "stream" \in DOMAIN p.audio
  BY DEF IsProfile, IsMedia
<1>3. DOMAIN q = DOMAIN p /\ q.video = p.video /\ q.custom = custom
  BY <1>2, Zenon
<1>4. DOMAIN q.audio = DOMAIN p.audio /\ q.audio.source = -1
  BY <1>2, Zenon
<1> HIDE DEF q
<1>5. IsProfile(q)
  BY <1>1, <1>3, <1>4 DEF IsProfile, IsMedia
<1> QED
  BY <1>5 DEF q, custom

LEMMA AnalyzedStatus ==
    ASSUME NEW type, NEW streams
    PROVE  AnalyzeStreams(type, streams) \in Statuses
BY DEF AnalyzeStreams, Statuses

LEMMA ProbedVideoTyped ==
    ASSUME NEW p, ProfilePage(p), NEW type, NEW settings, NEW inputs, NEW streams
    PROVE  ProfilePage(ProbedVideo(p, type, settings, inputs, streams))
<1> DEFINE first == p.sources.audio.type = ""
           hasAudio == "audio" \in Types(streams)
           muted == ~hasAudio /\ p.sources.audio.type \in {"", "videoaudio"}
           audioType == IF hasAudio /\ first THEN "videoaudio"
                        ELSE IF muted THEN "noaudio" ELSE p.sources.audio.type
           pre == PreselectProfile(streams, p.profile, env.encoders, first)
           silent == [pre EXCEPT !.audio.source = -1, !.audio.stream = -1,
                                 !.custom = [selected |-> FALSE, stream |-> -1]]
           profile == IF muted THEN silent ELSE pre
           pseudo == (p.pseudo \cup {"noaudio", "sdp"} \cup {"videoaudio"})
                     \ (IF hasAudio THEN {} ELSE {"videoaudio"})
           video == ProbedSource(p.sources.video, type, settings, inputs, streams)
           audio == [AudioSource(p.sources) EXCEPT !.type = audioType]
           sources == [video |-> video, audio |-> audio]
           asked == IF muted THEN "none" ELSE IF first THEN "video"
                    ELSE IF p.past.asked = "video" /\ First(streams, "audio") # p.profile.audio.stream
                         THEN "other" ELSE p.past.asked
           vstatus == AnalyzeStreams("video", streams)
           astatus == IF audioType = "noaudio" THEN "success" ELSE "none"
           q == [p EXCEPT !.profile = profile, !.pseudo = pseudo, !.sources = sources,
                          !.past.asked = asked, !.vstatus = vstatus, !.astatus = astatus]
<1>1. ProbedVideo(p, type, settings, inputs, streams) = q
  BY Zenon DEF ProbedVideo
<1>2. IsProfile(profile)
  BY ProfilePreselected, MutedFits DEF ProfilePage
<1>3. pseudo \subseteq Pseudo
  BY DEF ProfilePage, Pseudo
<1>4. IsPair(sources)
  <2>1. IsSource(video)
    BY DEF ProbedSource, IsSource
  <2>2. IsSource(audio)
    BY InitSourceFits DEF AudioSource, IsSource
  <2> HIDE DEF video, audio
  <2> QED
    BY <2>1, <2>2 DEF IsPair
<1>5. asked \in Kinds
  BY DEF ProfilePage, IsPast, Kinds
<1>6. vstatus \in Statuses /\ astatus \in Statuses
  BY AnalyzedStatus DEF Statuses
<1> HIDE DEF profile, pseudo, sources, asked, vstatus, astatus
<1>7. ProfileFields \subseteq DOMAIN p /\ "asked" \in DOMAIN p.past
  BY DEF ProfilePage, IsPast
<1>8. DOMAIN q = DOMAIN p /\ q.past = [p.past EXCEPT !.asked = asked]
  BY <1>7, Zenon DEF ProfileFields
<1>9. /\ q.profile = profile /\ q.pseudo = pseudo /\ q.sources = sources
      /\ q.vstatus = vstatus /\ q.astatus = astatus
  BY <1>7, Zenon DEF ProfileFields
<1>10. /\ q.view = p.view /\ q.data = p.data /\ q.complete = p.complete
       /\ q.before = p.before /\ q.step = p.step
  BY <1>7, Zenon DEF ProfileFields
<1> HIDE DEF q
<1>11. IsPast(q.past)
  BY <1>5, <1>7, <1>8 DEF IsPast
<1>12. ProfilePage(q)
  BY <1>2, <1>3, <1>4, <1>6, <1>8, <1>9, <1>10, <1>11 DEF ProfilePage
<1> QED
  BY <1>1, <1>12

LEMMA ProbedAudioTyped ==
    ASSUME NEW p, ProfilePage(p), NEW type, NEW settings, NEW inputs, NEW streams
    PROVE  ProfilePage(ProbedAudio(p, type, settings, inputs, streams))
<1> DEFINE profile == PreselectAudioProfile(streams, p.profile, env.encoders)
           source == ProbedSource(p.sources.audio, type, settings, inputs, streams)
           status == AnalyzeStreams("audio", streams)
           q == [p EXCEPT !.profile = profile, !.sources.audio = source, !.astatus = status]
<1>1. ProbedAudio(p, type, settings, inputs, streams) = q
  BY Zenon DEF ProbedAudio
<1>2. IsProfile(profile)
  BY AudioProfilePreselected DEF ProfilePage
<1>3. IsSource(source)
  BY DEF ProbedSource, IsSource
<1>4. status \in Statuses
  BY AnalyzedStatus
<1> HIDE DEF profile, source, status
<1>5. ProfileFields \subseteq DOMAIN p /\ {"video", "audio"} \subseteq DOMAIN p.sources
  BY DEF ProfilePage, IsPair
<1>6. DOMAIN q = DOMAIN p /\ q.profile = profile /\ q.astatus = status
  BY <1>5, Zenon DEF ProfileFields
<1>7. q.sources = [p.sources EXCEPT !.audio = source]
  BY <1>5, Zenon DEF ProfileFields
<1>8. /\ q.view = p.view /\ q.data = p.data /\ q.complete = p.complete /\ q.past = p.past
      /\ q.before = p.before /\ q.step = p.step /\ q.pseudo = p.pseudo /\ q.vstatus = p.vstatus
  BY <1>5, Zenon DEF ProfileFields
<1> HIDE DEF q
<1>9. IsPair(q.sources)
  BY <1>3, <1>5, <1>7 DEF ProfilePage, IsPair
<1>10. ProfilePage(q)
  BY <1>2, <1>4, <1>6, <1>8, <1>9 DEF ProfilePage
<1> QED
  BY <1>1, <1>10

-----------------------------------------------------------------------------
(* The steps on the page of the profile *)

SavedOnce == count.saves < env.saves /\ count' = [count EXCEPT !.saves = @ + 1]
Counted == UNCHANGED count \/ Changed \/ SavedOnce
\* What a step does when it leaves the Core alone
Quiet == UNCHANGED <<env, core>> /\ PageTyped(page') /\ Counted

LEMMA CountKept ==
    ASSUME CountTyped, UNCHANGED env, Counted
    PROVE  CountTyped'
<1>1. /\ env.saves \in Nat /\ env.changes \in Nat /\ DOMAIN count = {"saves", "changes"}
      /\ count.saves \in 0..env.saves /\ count.changes \in 0..env.changes
  BY DEF CountTyped
<1>2. CASE UNCHANGED count
  BY <1>1, <1>2 DEF CountTyped
<1>3. CASE Changed
  <2>1. /\ DOMAIN count' = DOMAIN count /\ count'.saves = count.saves
        /\ count'.changes = count.changes + 1 /\ count.changes < env.changes
    BY <1>1, <1>3 DEF Changed
  <2> QED
    BY <1>1, <2>1 DEF CountTyped
<1>4. CASE SavedOnce
  <2>1. /\ DOMAIN count' = DOMAIN count /\ count'.changes = count.changes
        /\ count'.saves = count.saves + 1 /\ count.saves < env.saves
    BY <1>1, <1>4 DEF SavedOnce
  <2> QED
    BY <1>1, <2>1 DEF CountTyped
<1> QED
  BY <1>2, <1>3, <1>4 DEF Counted

LEMMA QuietKeeps ==
    ASSUME TypeInv, Quiet
    PROVE  TypeInv'
<1>1. CountTyped'
  BY CountKept DEF TypeInv, Quiet
<1>2. CoreTyped'
  BY DEF TypeInv, Quiet, CoreTyped, Saved
<1>3. PageTyped(page)'
  BY DEF Quiet
<1> QED
  BY <1>1, <1>2, <1>3 DEF TypeInv

\* Which page it is tells its view.
LEMMA PageOf ==
    ASSUME TypeInv
    PROVE  /\ page.view = "profile" => ProfilePage(page)
           /\ page.view = "edit" => EditPage(page)
           /\ page.view = "wizard" => WizardPage(page)
BY DEF TypeInv, PageTyped, EmptyPage, EditPage, ProfilePage, WizardPage

LEMMA ShownQuiet ==
    ASSUME NEW q, ProfilePage(q), NEW before, page' = Rendered(before, q),
           UNCHANGED <<env, core>>, Counted
    PROVE  Quiet
BY RenderedTyped DEF Quiet, PageTyped

LEMMA ProbesQuiet ==
    ASSUME TypeInv, NEW type, NEW settings, NEW streams,
           \/ ProbeVideo(type, settings, streams) \/ ProbeAudio(settings, streams) \/ Hint(type)
    PROVE  Quiet
<1>1. CASE ProbeVideo(type, settings, streams)
  <2> DEFINE q == ProbedVideo(page, type, settings, CreateInputs(type, settings, env), streams)
  <2>1. ProfilePage(q)
    BY <1>1, PageOf, ProbedVideoTyped DEF ProbeVideo
  <2>2. page' = Rendered({}, q) /\ UNCHANGED <<env, core>> /\ Counted
    BY <1>1 DEF ProbeVideo, Counted
  <2> HIDE DEF q
  <2> QED
    BY <2>1, <2>2, ShownQuiet
<1>2. CASE ProbeAudio(settings, streams)
  <2> DEFINE t == page.sources.audio.type
             q == ProbedAudio(page, t, settings, CreateInputs(t, settings, env), streams)
  <2>1. ProfilePage(q)
    BY <1>2, PageOf, ProbedAudioTyped DEF ProbeAudio
  <2>2. page' = Rendered({}, q) /\ UNCHANGED <<env, core>> /\ Counted
    BY <1>2 DEF ProbeAudio, Counted
  <2> HIDE DEF q
  <2> QED
    BY <2>1, <2>2, ShownQuiet
<1>3. CASE Hint(type)
  <2> DEFINE s == page.sources[type]
             video == << [type |-> "video", codec |-> "h264", index |-> 0, stream |-> 0] >>
             audio == << [type |-> "audio", codec |-> "aac", index |-> 1, stream |-> 0] >>
  <2>1. \/ Show(ProbedVideo(page, s.type, s.settings, s.inputs, video))
        \/ Show(ProbedAudio(page, s.type, s.settings, s.inputs, audio))
    BY <1>3 DEF Hint
  <2>2. page.view = "profile" /\ Counted
    BY <1>3 DEF Hint, Counted
  <2> HIDE DEF s, video, audio
  <2>3. /\ ProfilePage(ProbedVideo(page, s.type, s.settings, s.inputs, video))
        /\ ProfilePage(ProbedAudio(page, s.type, s.settings, s.inputs, audio))
    BY <2>2, PageOf, ProbedVideoTyped, ProbedAudioTyped
  <2> QED
    BY <2>1, <2>2, <2>3, ShownQuiet DEF Show
<1> QED
  BY <1>1, <1>2, <1>3

\* An event: the page q, and what is counted
LEMMA EventQuiet ==
    ASSUME NEW q, ProfilePage(q), Show(q), Counted
    PROVE  Quiet
BY ShownQuiet DEF Show

LEMMA StepsQuiet ==
    ASSUME TypeInv, ChangeVideoSource \/ NextStep \/ BackStep
    PROVE  Quiet
<1>1. ASSUME NEW x \in Statuses, ProfilePage(page)
      PROVE  ProfilePage([page EXCEPT !.vstatus = x])
  BY <1>1 DEF ProfilePage, ProfileFields
<1>2. ASSUME NEW x \in {0, 1}, ProfilePage(page)
      PROVE  ProfilePage([page EXCEPT !.step = x])
  BY <1>2 DEF ProfilePage, ProfileFields
<1>3. CASE ChangeVideoSource
  <2>1. ProfilePage([page EXCEPT !.vstatus = "none"])
    BY <1>1, <1>3, PageOf DEF ChangeVideoSource, Statuses
  <2> QED
    BY <1>3, <2>1, EventQuiet DEF ChangeVideoSource, Counted
<1>4. CASE NextStep
  <2>1. ProfilePage([page EXCEPT !.step = 1])
    BY <1>2, <1>4, PageOf DEF NextStep
  <2> QED
    BY <1>4, <2>1, EventQuiet DEF NextStep, Counted
<1>5. CASE BackStep
  <2>1. ProfilePage([page EXCEPT !.step = 0])
    BY <1>2, <1>5, PageOf DEF BackStep
  <2> QED
    BY <1>5, <2>1, EventQuiet DEF BackStep, Counted
<1> QED
  BY <1>3, <1>4, <1>5

LEMMA SelectedTyped ==
    ASSUME NEW p, ProfilePage(p), NEW type
    PROVE  ProfilePage(SelectedAudio(p, type))
<1> DEFINE i == First(p.sources.video.streams, "audio")
           own == type \notin {"noaudio", "videoaudio"}
           asked == IF own THEN "own" ELSE IF type = "noaudio" THEN "none" ELSE "video"
           custom == [selected |-> own,
                      stream |-> IF own THEN -2 ELSE IF type = "noaudio" THEN -1 ELSE i]
           source == IF own THEN 1 ELSE IF type = "noaudio" THEN -1 ELSE 0
           stream == IF type = "videoaudio" THEN i ELSE -1
           s == [p EXCEPT !.sources.audio.type = type, !.past.asked = asked,
                          !.profile.custom = custom, !.profile.audio.source = source,
                          !.profile.audio.stream = stream]
           q == [s EXCEPT !.astatus = "none"]
<1>1. SelectedAudio(p, type) = q
  BY Zenon DEF SelectedAudio, SelectedAudio_KeepsStatus
<1>2. /\ asked \in Kinds /\ source \in {-1, 0, 1}
      /\ "selected" \in DOMAIN custom /\ custom.selected \in BOOLEAN
  BY DEF Kinds
<1> HIDE DEF asked, custom, source, stream
<1>3. /\ ProfileFields \subseteq DOMAIN p /\ "asked" \in DOMAIN p.past
      /\ {"video", "audio"} \subseteq DOMAIN p.sources
      /\ {"video", "audio", "custom"} \subseteq DOMAIN p.profile
      /\ {"inputs", "streams"} \subseteq DOMAIN p.sources.audio
      /\ {"source", "stream", "encoder"} \subseteq DOMAIN p.profile.audio
  BY DEF ProfilePage, IsPast, IsPair, IsSource, IsProfile, IsMedia
<1>4. s.past = [p.past EXCEPT !.asked = asked] /\ DOMAIN s = DOMAIN p
  BY <1>3, Zenon DEF ProfileFields
<1>5. DOMAIN s.sources = DOMAIN p.sources /\ s.sources.video = p.sources.video
  BY <1>3, Zenon DEF ProfileFields
<1>6. DOMAIN s.sources.audio = DOMAIN p.sources.audio
  BY <1>3, Zenon DEF ProfileFields
<1>7. DOMAIN s.profile = DOMAIN p.profile /\ s.profile.video = p.profile.video
  BY <1>3, Zenon DEF ProfileFields
<1>8. s.profile.custom = custom
  BY <1>3, Zenon DEF ProfileFields
<1>9. DOMAIN s.profile.audio = DOMAIN p.profile.audio
  BY <1>3, Zenon DEF ProfileFields
<1>10. s.profile.audio.source = source
  BY <1>3, Zenon DEF ProfileFields
<1>11. /\ s.view = p.view /\ s.data = p.data /\ s.complete = p.complete /\ s.before = p.before
       /\ s.step = p.step /\ s.pseudo = p.pseudo /\ s.vstatus = p.vstatus /\ s.astatus = p.astatus
  BY <1>3, Zenon DEF ProfileFields
<1> HIDE DEF s
<1>12. IsPast(s.past)
  BY <1>2, <1>3, <1>4 DEF IsPast
<1>13. IsPair(s.sources)
  BY <1>5, <1>6 DEF ProfilePage, IsPair, IsSource
<1>14. IsProfile(s.profile)
  BY <1>2, <1>7, <1>8, <1>9, <1>10 DEF ProfilePage, IsProfile, IsMedia
<1>15. ProfilePage(s)
  BY <1>4, <1>11, <1>12, <1>13, <1>14 DEF ProfilePage
<1>16. ProfilePage(q)
  BY <1>15 DEF ProfilePage, ProfileFields, Statuses
<1> QED
  BY <1>1, <1>16

LEMMA StreamTyped ==
    ASSUME NEW p, ProfilePage(p), NEW type \in {"video", "audio"}, NEW i, NEW asked \in Kinds,
           NEW chosen
    PROVE  ProfilePage([p EXCEPT !.profile[type].stream = i, !.past.asked = asked,
                                 !.profile.custom.stream = chosen])
<1> DEFINE q == [p EXCEPT !.profile[type].stream = i, !.past.asked = asked,
                          !.profile.custom.stream = chosen]
<1>1. /\ ProfileFields \subseteq DOMAIN p /\ "asked" \in DOMAIN p.past
      /\ {"video", "audio", "custom"} \subseteq DOMAIN p.profile
      /\ {"source", "stream", "encoder"} \subseteq DOMAIN p.profile.audio
      /\ {"source", "stream", "encoder"} \subseteq DOMAIN p.profile.video
      /\ "selected" \in DOMAIN p.profile.custom
  BY DEF ProfilePage, IsPast, IsProfile, IsMedia
<1>2. q.past = [p.past EXCEPT !.asked = asked] /\ DOMAIN q = DOMAIN p
  BY <1>1, Zenon DEF ProfileFields
<1>3. DOMAIN q.profile = DOMAIN p.profile /\ type # "custom"
  BY <1>1, Zenon DEF ProfileFields
<1>4. DOMAIN q.profile.custom = DOMAIN p.profile.custom /\ q.profile.custom.selected = p.profile.custom.selected
  BY <1>1, <1>3, Zenon DEF ProfileFields
<1>5. DOMAIN q.profile.video = DOMAIN p.profile.video /\ q.profile.video.source = p.profile.video.source
  <2>1. CASE type = "video"
    BY <1>1, <2>1, Zenon DEF ProfileFields
  <2>2. CASE type = "audio"
    BY <1>1, <2>2, Zenon DEF ProfileFields
  <2> QED
    BY <2>1, <2>2
<1>6. DOMAIN q.profile.audio = DOMAIN p.profile.audio /\ q.profile.audio.source = p.profile.audio.source
  <2>1. CASE type = "video"
    BY <1>1, <2>1, Zenon DEF ProfileFields
  <2>2. CASE type = "audio"
    BY <1>1, <2>2, Zenon DEF ProfileFields
  <2> QED
    BY <2>1, <2>2
<1>7. /\ q.view = p.view /\ q.data = p.data /\ q.complete = p.complete /\ q.before = p.before
      /\ q.step = p.step /\ q.pseudo = p.pseudo /\ q.vstatus = p.vstatus /\ q.astatus = p.astatus
      /\ q.sources = p.sources
  BY <1>1, Zenon DEF ProfileFields
<1> HIDE DEF q
<1>8. IsPast(q.past)
  BY <1>1, <1>2 DEF IsPast
<1>9. IsProfile(q.profile)
  BY <1>3, <1>4, <1>5, <1>6 DEF ProfilePage, IsProfile, IsMedia
<1>10. ProfilePage(q)
  BY <1>2, <1>7, <1>8, <1>9 DEF ProfilePage
<1> QED
  BY <1>10 DEF q

LEMMA SelectsQuiet ==
    ASSUME TypeInv, NEW type, NEW t \in {"video", "audio"}, NEW i,
           SelectAudio(type) \/ SelectStream(t, i)
    PROVE  Quiet
<1>1. CASE SelectAudio(type)
  <2>1. ProfilePage(SelectedAudio(page, type))
    BY <1>1, PageOf, SelectedTyped DEF SelectAudio
  <2> QED
    BY <1>1, <2>1, EventQuiet DEF SelectAudio, Counted
<1>2. CASE SelectStream(t, i)
  <2> DEFINE asked == IF t = "audio" /\ page.past.asked = "other" THEN "video" ELSE page.past.asked
             chosen == IF t = "audio" /\ ~OwnAudio(page) THEN i ELSE page.profile.custom.stream
             q == [page EXCEPT !.profile[t].stream = i, !.past.asked = asked,
                               !.profile.custom.stream = chosen]
  <2>1. ProfilePage(page)
    BY <1>2, PageOf DEF SelectStream
  <2>2. asked \in Kinds
    BY <2>1 DEF ProfilePage, IsPast, Kinds
  <2>3. Show(q) /\ Counted
    <3>1. Show([page EXCEPT !.profile[t].stream = i,
                         !.past.asked = IF t = "audio" /\ @ = "other" THEN "video" ELSE @,
                         !.profile.custom.stream =
                            IF t = "audio" /\ ~OwnAudio(page) THEN i ELSE @])
      BY <1>2, Zenon DEF SelectStream
    <3>2. [page EXCEPT !.profile[t].stream = i,
                         !.past.asked = IF t = "audio" /\ @ = "other" THEN "video" ELSE @,
                         !.profile.custom.stream =
                            IF t = "audio" /\ ~OwnAudio(page) THEN i ELSE @] = q
      OBVIOUS
    <3> QED
      BY <1>2, <3>1, <3>2 DEF SelectStream, Counted
  <2> HIDE DEF asked, chosen
  <2>4. ProfilePage(q)
    BY <2>1, <2>2, StreamTyped
  <2> HIDE DEF q
  <2> QED
    BY <2>3, <2>4, EventQuiet
<1> QED
  BY <1>1, <1>2

LEMMA CodersQuiet ==
    ASSUME TypeInv, NEW type \in {"video", "audio"}, NEW coder, NEW gop, NEW f, NEW s,
           \/ ChangeEncoder(type, coder) \/ ChangeDecoder(coder) \/ ChangeKeyFrames(gop)
           \/ ChangeFilterSettings(type, f, s)
    PROVE  Quiet
<1>1. ASSUME NEW t \in {"video", "audio"}, NEW part \in {"encoder", "decoder", "filter"}, NEW x,
             page.view = "profile", Show([page EXCEPT !.profile[t][part] = x]), Changed
      PROVE  Quiet
  <2>1. ProfilePage([page EXCEPT !.profile[t][part] = x])
    BY <1>1, PageOf, PartSet
  <2> QED
    BY <1>1, <2>1, EventQuiet DEF Counted
<1>2. CASE ChangeEncoder(type, coder)
  <2> DEFINE x == WithDefaults(Get(Encoders[type], coder), StreamUsed(page, type), env)
  <2>1. Show([page EXCEPT !.profile[type].encoder = x]) /\ page.view = "profile" /\ Changed
    BY <1>2, Zenon DEF ChangeEncoder
  <2> HIDE DEF x
  <2> QED
    BY <2>1, <1>1
<1>3. CASE ChangeDecoder(coder)
  <2> DEFINE x == WithDefaults(Get(Decoders.video, coder), StreamUsed(page, "video"), env)
  <2>1. Show([page EXCEPT !.profile.video.decoder = x]) /\ page.view = "profile" /\ Changed
    BY <1>3, Zenon DEF ChangeDecoder
  <2> HIDE DEF x
  <2> QED
    BY <2>1, <1>1
<1>4. CASE ChangeKeyFrames(gop)
  <2> DEFINE x == WithKeyFrames(page.profile.video.encoder, gop, StreamUsed(page, "video"), env)
  <2>1. Show([page EXCEPT !.profile.video.encoder = x]) /\ page.view = "profile" /\ Changed
    BY <1>4, Zenon DEF ChangeKeyFrames
  <2> HIDE DEF x
  <2> QED
    BY <2>1, <1>1
<1>5. CASE ChangeFilterSettings(type, f, s)
  <2> DEFINE x == ChangeFilter(page.profile[type].filter, type, f, s)
  <2>1. Show([page EXCEPT !.profile[type].filter = x]) /\ page.view = "profile" /\ Changed
    BY <1>5, Zenon DEF ChangeFilterSettings
  <2> HIDE DEF x
  <2> QED
    BY <2>1, <1>1
<1> QED
  BY <1>2, <1>3, <1>4, <1>5

LEMMA CleanedFits ==
    ASSUME NEW p, IsProfile(p)
    PROVE  IsProfile(CleanupProfile(p))
<1> DEFINE video == IF p.video.stream = -1 THEN -1 ELSE 0
           audio == IF p.audio.stream = -1 THEN -1 ELSE IF p.custom.selected THEN 1 ELSE 0
           q == [p EXCEPT !.video.source = video, !.audio.source = audio]
<1>1. CleanupProfile(p) = q
  BY Zenon DEF CleanupProfile
<1>2. video \in {-1, 0} /\ audio \in {-1, 0, 1}
  OBVIOUS
<1> HIDE DEF video, audio
<1>3. /\ {"video", "audio", "custom"} \subseteq DOMAIN p
      /\ "source" \in DOMAIN p.video /\ "source" \in DOMAIN p.audio
  BY DEF IsProfile, IsMedia
<1>4. DOMAIN q = DOMAIN p /\ q.custom = p.custom
  BY <1>3, Zenon
<1>5. DOMAIN q.video = DOMAIN p.video /\ q.video.source = video
  BY <1>3, Zenon
<1>6. DOMAIN q.audio = DOMAIN p.audio /\ q.audio.source = audio
  BY <1>3, Zenon
<1> HIDE DEF q
<1>7. IsProfile(q)
  BY <1>2, <1>4, <1>5, <1>6 DEF IsProfile, IsMedia
<1> QED
  BY <1>1, <1>7

\* What is saved of both sources
LEMMA BothSources ==
    ASSUME NEW sources, IsPair(sources)
    PROVE  AreSources(<<sources.video, sources.audio>>)
BY DEF IsPair, AreSources

LEMMA FinishQuiet ==
    ASSUME TypeInv, Finish
    PROVE  Quiet
<1> DEFINE sources == <<page.sources.video, page.sources.audio>>
           profile == CleanupProfile(page.profile)
           complete == ValidateProfile(sources, profile)
           streams == CreateOutputStreams(sources, profile)
           data == [page.data EXCEPT !.sources = sources, !.profile = profile, !.streams = streams]
<1>1. ProfilePage(page)
  BY PageOf DEF Finish
<1>2. /\ page' = [view |-> "edit", pseudo |-> page.pseudo, past |-> page.past,
                  complete |-> complete, data |-> data]
      /\ UNCHANGED <<env, core, count>>
  BY Zenon DEF Finish
<1>3. AreSources(sources) /\ IsProfile(profile)
  BY <1>1, BothSources, CleanedFits DEF ProfilePage
<1> HIDE DEF sources, profile, streams
<1>4. {"sources", "profile"} \subseteq DOMAIN page.data
  BY <1>1 DEF ProfilePage, IsData
<1>5. DOMAIN data = DOMAIN page.data /\ data.sources = sources /\ data.profile = profile
  BY <1>4
<1> HIDE DEF data
<1>6. IsData(data, complete)
  BY <1>3, <1>4, <1>5 DEF IsData
<1> HIDE DEF complete
<1>7. EditPage(page')
  BY <1>1, <1>2, <1>6 DEF EditPage, ProfilePage
<1> QED
  BY <1>2, <1>7 DEF Quiet, PageTyped, Counted

LEMMA AbandonedFits ==
    ASSUME NEW p, IsData(p.data, p.complete)
    PROVE  IsData(Abandoned(p), p.complete)
<1> DEFINE video == p.profile.video.filter.settings
           audio == p.profile.audio.filter.settings
           data == [p.data EXCEPT !.profile.video.filter.settings = video,
                                  !.profile.audio.filter.settings = audio]
<1>1. Abandoned(p) = data
  BY Zenon DEF Abandoned
<1>2. /\ {"sources", "profile"} \subseteq DOMAIN p.data
      /\ {"video", "audio", "custom"} \subseteq DOMAIN p.data.profile
      /\ {"source", "stream", "encoder"} \subseteq DOMAIN p.data.profile.video
      /\ {"source", "stream", "encoder"} \subseteq DOMAIN p.data.profile.audio
  BY DEF IsData, IsProfile, IsMedia
<1> HIDE DEF video, audio
<1>3. DOMAIN data = DOMAIN p.data /\ data.sources = p.data.sources
  BY <1>2, Zenon
<1>4. DOMAIN data.profile = DOMAIN p.data.profile /\ data.profile.custom = p.data.profile.custom
  BY <1>2, Zenon
<1>5. DOMAIN data.profile.video = DOMAIN p.data.profile.video
  BY <1>2, Zenon
<1>6. DOMAIN data.profile.audio = DOMAIN p.data.profile.audio
  BY <1>2, Zenon
<1>7. /\ data.profile.video.source = p.data.profile.video.source
      /\ data.profile.video.stream = p.data.profile.video.stream
      /\ data.profile.video.encoder = p.data.profile.video.encoder
  BY <1>2, Zenon
<1>8. data.profile.audio.source = p.data.profile.audio.source
  BY <1>2, Zenon
<1> HIDE DEF data
<1>9. IsProfile(data.profile)
  BY <1>4, <1>5, <1>6, <1>7, <1>8 DEF IsData, IsProfile, IsMedia
<1>10. ValidateProfile(data.sources, data.profile) = ValidateProfile(p.data.sources, p.data.profile)
  BY <1>3, <1>7 DEF ValidateProfile, ValidStream
<1> QED
  BY <1>1, <1>3, <1>9, <1>10 DEF IsData

LEMMA AbortQuiet ==
    ASSUME TypeInv, Abort
    PROVE  Quiet
<1> DEFINE data == Abandoned(page)
           lost == page.before.abandoned \/ data # page.data
           past == [page.before EXCEPT !.abandoned = lost]
<1>1. ProfilePage(page)
  BY PageOf DEF Abort
<1>2. /\ page' = [view |-> "edit", pseudo |-> page.pseudo, past |-> past,
                  complete |-> page.complete, data |-> data]
      /\ UNCHANGED <<env, core, count>>
  BY Zenon DEF Abort
<1>3. IsData(data, page.complete)
  BY <1>1, AbandonedFits DEF ProfilePage
<1> HIDE DEF lost
<1>4. IsPast(past)
  BY <1>1 DEF ProfilePage, IsPast
<1> HIDE DEF data, past
<1>5. EditPage(page')
  BY <1>1, <1>2, <1>3, <1>4 DEF EditPage, ProfilePage
<1> QED
  BY <1>2, <1>5 DEF Quiet, PageTyped, Counted

-----------------------------------------------------------------------------
(* The steps of the page itself *)

LEMMA OpenedTyped ==
    ASSUME NEW p, EditPage(p), NEW step \in {0, 1}
    PROVE  ProfilePage(OpenProfile(p, step))
<1> DEFINE data == p.data
           Nth(i) == IF Within(data.sources, i) THEN InitSource(At(data.sources, i))
                     ELSE InitSource(Nothing)
           hasAudio == "audio" \in Types(Nth(0).streams)
           pair == [video |-> Nth(0), audio |-> Nth(1)]
           pseudo == IF hasAudio THEN p.pseudo \cup {"videoaudio"} ELSE p.pseudo \ {"videoaudio"}
           q == [view |-> "profile", data |-> data, complete |-> p.complete, past |-> p.past,
                 sources |-> pair,
                 profile |-> InitProfile(data.profile), before |-> p.past,
                 vstatus |-> "none", astatus |-> "none", step |-> step,
                 pseudo |-> pseudo]
<1>1. OpenProfile(p, step) = Rendered({}, q)
  BY Zenon DEF OpenProfile
<1>2. IsPair(pair)
  <2>1. IsSource(Nth(0)) /\ IsSource(Nth(1))
    BY InitSourceFits
  <2> HIDE DEF Nth
  <2> QED
    BY <2>1 DEF IsPair
<1>3. pseudo \subseteq Pseudo
  BY DEF EditPage, Pseudo
<1>4. IsProfile(InitProfile(data.profile))
  BY ProfileStored, InitProfileFits DEF EditPage, IsData
<1> HIDE DEF pair, pseudo, Nth, hasAudio
<1>5. ProfilePage(q)
  BY <1>2, <1>3, <1>4 DEF ProfilePage, ProfileFields, EditPage, Statuses
<1> HIDE DEF q
<1> QED
  BY <1>1, <1>5, RenderedTyped

LEMMA LoadedTyped ==
    ASSUME CoreTyped
    PROVE  EditPage(Loaded(InitIngestMetadata(core.meta)))
<1> DEFINE meta == InitIngestMetadata(core.meta)
<1>1. IsProfile(meta.profile) /\ AreSources(meta.sources)
  BY MetaLoaded DEF CoreTyped
<1>2. {"sources", "profile"} \subseteq DOMAIN meta
  BY DEF InitIngestMetadata
<1> HIDE DEF meta
<1>3. IsData(meta, ValidateProfile(meta.sources, meta.profile))
  BY <1>1, <1>2 DEF IsData
<1>4. EditPage(Loaded(meta))
  BY <1>3 DEF EditPage, Loaded, CoreTyped
<1> QED
  BY <1>4 DEF meta

LEMMA EmptyPages == EmptyPage(Closed) /\ EmptyPage(Stuck)
BY DEF EmptyPage, Closed, Stuck

LEMMA PagesQuiet ==
    ASSUME TypeInv, Open \/ Leave \/ (\E step \in {0, 1} : Edit(step)) \/ Reload \/ SaveThrows
    PROVE  Quiet
<1>1. CASE Open
  <2> DEFINE p == Loaded(InitIngestMetadata(core.meta))
  <2>1. EditPage(p)
    BY LoadedTyped DEF TypeInv
  <2>2. page' = (IF p.data.sources = <<>> THEN OpenProfile(p, 0) ELSE p)
    BY <1>1, Zenon DEF Open
  <2> HIDE DEF p
  <2>3. ProfilePage(OpenProfile(p, 0))
    BY <2>1, OpenedTyped
  <2> QED
    BY <1>1, <2>1, <2>2, <2>3 DEF Open, Quiet, PageTyped, Counted
<1>2. CASE Leave
  BY <1>2, EmptyPages DEF Leave, Quiet, PageTyped, Counted
<1>3. CASE \E step \in {0, 1} : Edit(step)
  <2>1. PICK step \in {0, 1} : Edit(step)
    BY <1>3
  <2>2. ProfilePage(OpenProfile(page, step))
    BY <2>1, PageOf, OpenedTyped DEF Edit
  <2> QED
    BY <2>1, <2>2 DEF Edit, Quiet, PageTyped, Counted
<1>4. CASE Reload
  BY <1>4, EmptyPages DEF Reload, Quiet, PageTyped, Counted
<1>5. CASE SaveThrows
  BY <1>5, EmptyPages DEF SaveThrows, SavePossible, Quiet, PageTyped, Counted, SavedOnce
<1> QED
  BY <1>1, <1>2, <1>3, <1>4, <1>5

LEMMA ControlsQuiet ==
    ASSUME TypeInv, NEW control, ChangeControl(control)
    PROVE  Quiet
<1> DEFINE q == [page EXCEPT !.data.control = control]
<1>1. EditPage(page)
  BY PageOf DEF ChangeControl
<1>2. page' = q /\ UNCHANGED <<env, core>> /\ Changed
  BY Zenon DEF ChangeControl
<1>3. /\ {"view", "data", "complete", "past", "pseudo"} \subseteq DOMAIN page
      /\ {"sources", "profile"} \subseteq DOMAIN page.data
  BY <1>1 DEF EditPage, IsData
<1>4. /\ DOMAIN q = DOMAIN page /\ q.view = page.view /\ q.complete = page.complete
      /\ q.past = page.past /\ q.pseudo = page.pseudo
  BY <1>3, Zenon
<1>5. DOMAIN q.data = DOMAIN page.data /\ q.data.sources = page.data.sources
      /\ q.data.profile = page.data.profile
  BY <1>3, Zenon
<1> HIDE DEF q
<1>6. EditPage(q)
  BY <1>1, <1>4, <1>5 DEF EditPage, IsData
<1> QED
  BY <1>2, <1>6 DEF Quiet, PageTyped, Counted

LEMMA SaveFailsQuiet ==
    ASSUME TypeInv, SaveFails
    PROVE  Quiet
<1> DEFINE io == CreateInputsOutputs(page.data.sources, page.data.profile)
           new == io.sources
           control == UsedControl(page.data.control, io.inputs)
           q == [page EXCEPT !.data.sources = new, !.data.control = control]
<1>1. EditPage(page)
  BY PageOf DEF SaveFails, SavePossible
<1>2. page' = q /\ UNCHANGED <<env, core>> /\ SavedOnce
  BY Zenon DEF SaveFails, SavePossible, SavedOnce
<1>3. SameStreams(new, page.data.sources)
  BY <1>1, SavedSources DEF EditPage, IsData
<1> HIDE DEF new, control
<1>4. /\ {"view", "data", "complete", "past", "pseudo"} \subseteq DOMAIN page
      /\ {"sources", "profile"} \subseteq DOMAIN page.data
  BY <1>1 DEF EditPage, IsData
<1>5. /\ DOMAIN q = DOMAIN page /\ q.view = page.view /\ q.complete = page.complete
      /\ q.past = page.past /\ q.pseudo = page.pseudo
  BY <1>4, Zenon
<1>6. DOMAIN q.data = DOMAIN page.data /\ q.data.sources = new
      /\ q.data.profile = page.data.profile
  BY <1>4, Zenon
<1> HIDE DEF q
<1>7. ValidateProfile(new, page.data.profile) = ValidateProfile(page.data.sources, page.data.profile)
  BY <1>3, StillValid
<1>8. EditPage(q)
  BY <1>1, <1>3, <1>5, <1>6, <1>7 DEF EditPage, IsData, SameStreams
<1> QED
  BY <1>2, <1>8 DEF Quiet, PageTyped, Counted

\* The Core after a save of either page
LEMMA CoreSaved ==
    ASSUME TypeInv, UNCHANGED env, page' = Closed, SavedOnce,
           DOMAIN core' = CoreFields, IsPast(core'.past), IsStored(core'.meta.profile),
           core'.whole => ValidateProfile(core'.meta.sources, core'.meta.profile)
    PROVE  TypeInv'
<1>1. CountTyped'
  BY CountKept DEF TypeInv, Counted
<1>2. CoreTyped'
  BY DEF CoreTyped, Saved
<1>3. PageTyped(page)'
  BY EmptyPages DEF PageTyped
<1> QED
  BY <1>1, <1>2, <1>3 DEF TypeInv

LEMMA SaveTyped ==
    ASSUME TypeInv, NEW done \in SUBSET Calls, Save(done)
    PROVE  TypeInv'
<1> DEFINE io == CreateInputsOutputs(page.data.sources, page.data.profile)
           control == UsedControl(page.data.control, io.inputs)
           new == io.sources
           meta == [page.data EXCEPT !.sources = new, !.control = control]
           made == IngestProcess(io.global, io.inputs, io.outputs[1], page.data.control, env.servers)
<1>1. EditPage(page)
  BY PageOf DEF Save, SavePossible
<1>2. page' = Closed /\ env' = env /\ SavedOnce /\ io.inputs # <<>>
  BY Zenon DEF Save, SavePossible, SavedOnce
<1>3. core' = [core EXCEPT
           !.ingest = made,
           !.meta = IF "metadata" \in done THEN meta ELSE @,
           !.snapshot = IF "snapshot" \in done THEN SnapshotProcess(control) ELSE @,
           !.preview = IF "preview" \in done THEN PreviewProcess(control) ELSE @,
           !.past = IF "metadata" \in done THEN page.past ELSE @,
           !.asked = page.past.asked, !.by = "editor", !.whole = (done = Calls)]
  BY Zenon DEF Save, SavedIn
<1>4. /\ SameStreams(new, page.data.sources)
      /\ ValidateProfile(page.data.sources, page.data.profile)
  BY <1>1, <1>2, SavedSources DEF EditPage, IsData
<1> HIDE DEF io, control, new, made
<1>5. DOMAIN core = CoreFields /\ IsStored(core.meta.profile) /\ IsPast(core.past)
  BY DEF TypeInv, CoreTyped
<1> HIDE DEF meta
<1>6. /\ DOMAIN core' = CoreFields
      /\ core'.meta = IF "metadata" \in done THEN meta ELSE core.meta
      /\ core'.past = IF "metadata" \in done THEN page.past ELSE core.past
      /\ core'.whole = (done = Calls)
  BY <1>3, <1>5, Zenon DEF CoreFields
<1>7. meta.sources = new /\ meta.profile = page.data.profile /\ DOMAIN meta = DOMAIN page.data
  BY <1>1 DEF meta, EditPage, IsData
<1>8. ValidateProfile(meta.sources, meta.profile)
  BY <1>4, <1>7, StillValid
<1>9. core'.whole => core'.meta = meta
  BY <1>6 DEF Calls
<1>10. IsStored(meta.profile)
  BY <1>1, <1>7, ProfileStored DEF EditPage, IsData
<1> QED
  BY <1>1, <1>2, <1>5, <1>6, <1>8, <1>9, <1>10, CoreSaved DEF EditPage

-----------------------------------------------------------------------------
(* The steps of the wizard *)

WizardFields == {"view", "asked", "profile", "sources"}

LEMMA WizardQuiet ==
    ASSUME TypeInv, NEW q, WizardPage(q), Turn(q) \/ Set(q)
    PROVE  Quiet
BY DEF Turn, Set, Quiet, PageTyped, Counted

\* Only where the wizard is
LEMMA WizardMoved ==
    ASSUME NEW p, WizardPage(p), NEW x, NEW y
    PROVE  /\ WizardPage([p EXCEPT !.step = x])
           /\ WizardPage([p EXCEPT !.back = x, !.step = y])
           /\ WizardPage([p EXCEPT !.sourceid = x, !.step = y])
<1>1. WizardFields \subseteq DOMAIN p
  BY DEF WizardPage, WizardFields
<1>2. ASSUME NEW q, DOMAIN q = DOMAIN p, \A f \in WizardFields : q[f] = p[f]
      PROVE  WizardPage(q)
  BY <1>2 DEF WizardPage, WizardFields
<1>3. WizardPage([p EXCEPT !.step = x])
  BY <1>1, <1>2 DEF WizardFields
<1>4. WizardPage([p EXCEPT !.back = x, !.step = y])
  BY <1>1, <1>2 DEF WizardFields
<1>5. WizardPage([p EXCEPT !.sourceid = x, !.step = y])
  BY <1>1, <1>2 DEF WizardFields
<1> QED
  BY <1>3, <1>4, <1>5

LEMMA MovesQuiet ==
    ASSUME TypeInv, NEW t,
           \/ ChooseType(t) \/ BackToSettings \/ BackToResult \/ BackToAudio \/ BackToMeta
           \/ ToLicense \/ WizardAbort \/ AbortBack
    PROVE  Quiet
<1>1. page.view = "wizard"
  BY DEF ChooseType, BackToSettings, BackToResult, BackToAudio, BackToMeta, ToLicense,
         WizardAbort, AbortBack, At1
<1>2. WizardPage(page)
  BY <1>1, PageOf
<1>3. \E x, y : \/ Turn([page EXCEPT !.step = x])
                \/ Turn([page EXCEPT !.back = x, !.step = y])
                \/ Turn([page EXCEPT !.sourceid = x, !.step = y])
  BY Zenon DEF ChooseType, BackToSettings, BackToResult, BackToAudio, BackToMeta, ToLicense,
         WizardAbort, AbortBack
<1> QED
  BY <1>2, <1>3, WizardMoved, WizardQuiet

LEMMA WizardOpenQuiet ==
    ASSUME TypeInv, WizardOpen
    PROVE  Quiet
<1> DEFINE pair == [video |-> InitSource(Nothing), audio |-> InitSource(Nothing)]
           profile == InitProfile(Nothing)
           q == [view |-> "wizard", step |-> "TYPE", back |-> "TYPE", sourceid |-> "",
                 status |-> "none", asked |-> "none", touched |-> FALSE,
                 sources |-> pair, profile |-> profile]
<1>1. Turn(q)
  BY DEF WizardOpen
<1>2. IsPair(pair)
  BY InitSourceFits DEF IsPair
<1>3. IsProfile(profile)
  <2>1. DOMAIN Nothing = {}
    BY DEF Nothing
  <2>2. IsStored(Nothing)
    BY <2>1 DEF IsStored
  <2> QED
    BY <2>2, InitProfileFits
<1> HIDE DEF pair, profile
<1>4. WizardPage(q)
  BY <1>2, <1>3 DEF WizardPage, Kinds
<1> HIDE DEF q
<1> QED
  BY <1>1, <1>4, WizardQuiet

LEMMA WizardProbeQuiet ==
    ASSUME TypeInv, NEW stored, NEW streams, WizardProbe(stored, streams)
    PROVE  Quiet
<1> DEFINE type == SourceType(page.sourceid)
           source == Source(type, WizardSource(page.sourceid, stored).settings, streams)
           profile == IF AnalyzeStreams("video", streams) = "success"
                      THEN PreselectProfile(streams, page.profile, env.encoders, TRUE)
                      ELSE page.profile
           status == ProbeStatus("video", streams, profile)
           step == IF status = "success" THEN "VIDEO RESULT" ELSE "VIDEO SETTINGS"
           q == [page EXCEPT !.sources.video = source, !.profile = profile, !.status = status,
                             !.step = step]
<1>1. WizardPage(page)
  BY PageOf DEF WizardProbe, At1
<1>2. Set(q)
  BY Zenon DEF WizardProbe, VideoAnswered
<1>3. IsSource(source)
  BY DEF Source, IsSource
<1>4. IsProfile(profile)
  BY <1>1, ProfilePreselected DEF WizardPage
<1> HIDE DEF source, profile, status, step
<1>5. WizardFields \subseteq DOMAIN page /\ {"video", "audio"} \subseteq DOMAIN page.sources
  BY <1>1 DEF WizardPage, WizardFields, IsPair
<1>6. DOMAIN q = DOMAIN page /\ q.view = page.view /\ q.asked = page.asked /\ q.profile = profile
  BY <1>5, Zenon DEF WizardFields
<1>7. q.sources = [page.sources EXCEPT !.video = source]
  BY <1>5, Zenon DEF WizardFields
<1> HIDE DEF q
<1>8. WizardPage(q)
  BY <1>1, <1>3, <1>4, <1>5, <1>6, <1>7 DEF WizardPage, IsPair
<1> QED
  BY <1>2, <1>8, WizardQuiet

\* A field of one part of the profile, the source excepted
LEMMA WizardPartSet ==
    ASSUME NEW p, WizardPage(p), NEW type \in {"video", "audio"}, NEW x, NEW part, part # "source"
    PROVE  /\ WizardPage([p EXCEPT !.profile[type][part] = x])
           /\ WizardPage([p EXCEPT !.profile[type][part].coder = x])
<1>1. /\ WizardFields \subseteq DOMAIN p /\ {"video", "audio", "custom"} \subseteq DOMAIN p.profile
      /\ "source" \in DOMAIN p.profile[type] /\ type # "custom"
  BY DEF WizardPage, WizardFields, IsProfile, IsMedia
<1>2. ASSUME NEW q, DOMAIN q = DOMAIN p, \A f \in WizardFields \ {"profile"} : q[f] = p[f],
             Alike(q.profile, p.profile)
      PROVE  WizardPage(q)
  BY <1>2, AlikeFits DEF WizardPage, WizardFields
<1>3. WizardPage([p EXCEPT !.profile[type][part] = x])
  <2> DEFINE q == [p EXCEPT !.profile[type][part] = x]
  <2>1. DOMAIN q = DOMAIN p /\ \A f \in DOMAIN p : f # "profile" => q[f] = p[f]
    BY Zenon
  <2>2. DOMAIN q.profile = DOMAIN p.profile
        /\ \A t \in DOMAIN p.profile : t # type => q.profile[t] = p.profile[t]
    BY <1>1, Zenon DEF WizardFields
  <2>3. DOMAIN q.profile[type] = DOMAIN p.profile[type]
    BY <1>1, Zenon DEF WizardFields
  <2>4. q.profile[type].source = p.profile[type].source
    BY <1>1, Zenon DEF WizardFields
  <2> HIDE DEF q
  <2>5. Alike(q.profile, p.profile)
    BY <1>1, <2>2, <2>3, <2>4 DEF Alike
  <2>6. WizardPage(q)
    BY <1>1, <1>2, <2>1, <2>5
  <2> QED
    BY <2>6 DEF q
<1>4. WizardPage([p EXCEPT !.profile[type][part].coder = x])
  <2> DEFINE q == [p EXCEPT !.profile[type][part].coder = x]
  <2>1. DOMAIN q = DOMAIN p /\ \A f \in DOMAIN p : f # "profile" => q[f] = p[f]
    BY Zenon
  <2>2. DOMAIN q.profile = DOMAIN p.profile
        /\ \A t \in DOMAIN p.profile : t # type => q.profile[t] = p.profile[t]
    BY <1>1, Zenon DEF WizardFields
  <2>3. DOMAIN q.profile[type] = DOMAIN p.profile[type]
    BY <1>1, Zenon DEF WizardFields
  <2>4. q.profile[type].source = p.profile[type].source
    BY <1>1, Zenon DEF WizardFields
  <2> HIDE DEF q
  <2>5. Alike(q.profile, p.profile)
    BY <1>1, <2>2, <2>3, <2>4 DEF Alike
  <2>6. WizardPage(q)
    BY <1>1, <1>2, <2>1, <2>5
  <2> QED
    BY <2>6 DEF q
<1> QED
  BY <1>3, <1>4

LEMMA WizardTouched ==
    ASSUME NEW p, WizardPage(p), NEW x
    PROVE  WizardPage([p EXCEPT !.touched = x])
BY DEF WizardPage

LEMMA WizardSelectsQuiet ==
    ASSUME TypeInv, NEW type \in {"video", "audio"}, NEW i, NEW coder,
           \/ WizardSelect(type, i) \/ WizardEncoder(coder) \/ WizardDecoder(coder)
    PROVE  Quiet
<1>1. WizardPage(page)
  BY PageOf DEF WizardSelect, WizardEncoder, WizardDecoder, At1
<1>2. CASE WizardSelect(type, i)
  <2> DEFINE touched == page.touched \/ type = "audio"
             s == [page EXCEPT !.profile[type].stream = i]
             q == [s EXCEPT !.touched = touched]
             r == [page EXCEPT !.profile[type].stream = i, !.touched = touched]
  <2>1. Set(r)
    BY <1>2, Zenon DEF WizardSelect
  <2> HIDE DEF touched
  <2>2. r = q
    OBVIOUS
  <2>3. WizardPage(s)
    BY <1>1, WizardPartSet
  <2> HIDE DEF s, r
  <2>4. WizardPage(q)
    BY <2>3, WizardTouched
  <2> HIDE DEF q
  <2> QED
    BY <2>1, <2>2, <2>4, WizardQuiet
<1>3. CASE WizardEncoder(coder)
  <2>1. WizardPage([page EXCEPT !.profile.video.encoder.coder = coder])
    BY <1>1, WizardPartSet
  <2> QED
    BY <1>3, <2>1, WizardQuiet DEF WizardEncoder
<1>4. CASE WizardDecoder(coder)
  <2>1. WizardPage([page EXCEPT !.profile.video.decoder.coder = coder])
    BY <1>1, WizardPartSet
  <2> QED
    BY <1>4, <2>1, WizardQuiet DEF WizardDecoder
<1> QED
  BY <1>2, <1>3, <1>4

\* What the wizard has of both sources and of the profile
LEMMA WizardSet ==
    ASSUME NEW p, WizardPage(p), NEW q, DOMAIN q = DOMAIN p, q.view = p.view,
           q.asked \in Kinds, IsProfile(q.profile), IsPair(q.sources)
    PROVE  WizardPage(q)
BY DEF WizardPage

LEMMA SilenceFits == IsSource(Silence)
BY DEF Silence, Source, IsSource

LEMMA BackToTypeQuiet ==
    ASSUME TypeInv, BackToType
    PROVE  Quiet
<1> DEFINE source == InitSource(Nothing)
           q == [page EXCEPT !.status = "none", !.step = "TYPE", !.sources.video = source]
<1>1. WizardPage(page) /\ Turn(q)
  BY PageOf, Zenon DEF BackToType, At1
<1>2. IsSource(source)
  BY InitSourceFits
<1> HIDE DEF source
<1>3. WizardFields \subseteq DOMAIN page /\ {"video", "audio"} \subseteq DOMAIN page.sources
  BY <1>1 DEF WizardPage, WizardFields, IsPair
<1>4. DOMAIN q = DOMAIN page /\ q.view = page.view /\ q.asked = page.asked /\ q.profile = page.profile
  BY <1>3, Zenon DEF WizardFields
<1>5. q.sources = [page.sources EXCEPT !.video = source]
  BY <1>3, Zenon DEF WizardFields
<1> HIDE DEF q
<1>6. IsPair(q.sources)
  BY <1>1, <1>2, <1>3, <1>5 DEF WizardPage, IsPair
<1>7. WizardPage(q)
  BY <1>1, <1>4, <1>6, WizardSet DEF WizardPage
<1> QED
  BY <1>1, <1>7, WizardQuiet

LEMMA CoderSet ==
    ASSUME NEW m, NEW choice, IsMedia(m, choice), NEW what \in {"encoder", "decoder"},
           NEW registry, NEW stream
    PROVE  IsMedia(WithCoder(m, what, registry, stream), choice)
<1> DEFINE d == Defaults(Get(registry, m[what].coder), stream, env.ffmpeg)
           a == [m EXCEPT ![what].settings = d.settings, ![what].mapping = d.mapping]
<1>1. WithCoder(m, what, registry, stream) = a
  BY Zenon DEF WithCoder
<1> HIDE DEF d
<1>2. "source" \in DOMAIN m /\ what # "source"
  BY DEF IsMedia
<1>3. DOMAIN a = DOMAIN m /\ a.source = m.source
  BY <1>2, Zenon
<1> HIDE DEF a
<1> QED
  BY <1>1, <1>3 DEF IsMedia

LEMMA VideoChosenQuiet ==
    ASSUME TypeInv, VideoChosen
    PROVE  Quiet
<1> DEFINE streams == page.sources.video.streams
           m == WithCoder(WithCoder(page.profile.video, "encoder", Encoders.video, NoStream),
                          "decoder", Decoders.video, NoStream)
           sound == First(streams, "audio") # -1
           source == IF sound THEN 0 ELSE 1
           stream == IF sound THEN At(streams, First(streams, "audio")).stream
                     ELSE page.profile.audio.stream
           audio == IF sound THEN page.sources.audio ELSE Silence
           q == [page EXCEPT !.step = "AUDIO SETTINGS", !.touched = FALSE,
                   !.profile.video = m, !.profile.audio.source = source,
                   !.profile.audio.stream = stream, !.sources.audio = audio]
<1>1. WizardPage(page) /\ Turn(q)
  BY PageOf, Zenon DEF VideoChosen, At1
<1>2. IsMedia(m, {-1, 0})
  <2>1. IsMedia(page.profile.video, {-1, 0})
    BY <1>1 DEF WizardPage, IsProfile
  <2>2. IsMedia(WithCoder(page.profile.video, "encoder", Encoders.video, NoStream), {-1, 0})
    BY <2>1, CoderSet
  <2> QED
    BY <2>2, CoderSet
<1>3. IsSource(audio) /\ source \in {-1, 0, 1}
  BY <1>1, SilenceFits DEF WizardPage, IsPair
<1> HIDE DEF m, sound, source, stream, audio
<1>4. /\ WizardFields \subseteq DOMAIN page /\ {"video", "audio"} \subseteq DOMAIN page.sources
      /\ {"video", "audio", "custom"} \subseteq DOMAIN page.profile
      /\ {"source", "stream", "encoder"} \subseteq DOMAIN page.profile.audio
  BY <1>1 DEF WizardPage, WizardFields, IsPair, IsProfile, IsMedia
<1>5. DOMAIN q = DOMAIN page /\ q.view = page.view /\ q.asked = page.asked
  BY <1>4, Zenon DEF WizardFields
<1>6. q.sources = [page.sources EXCEPT !.audio = audio]
  BY <1>4, Zenon DEF WizardFields
<1>7. DOMAIN q.profile = DOMAIN page.profile /\ q.profile.video = m /\ q.profile.custom = page.profile.custom
  BY <1>4, Zenon DEF WizardFields
<1>8. DOMAIN q.profile.audio = DOMAIN page.profile.audio
  BY <1>4, Zenon DEF WizardFields
<1>9. q.profile.audio.source = source
  BY <1>4, Zenon DEF WizardFields
<1> HIDE DEF q
<1>10. IsPair(q.sources)
  BY <1>1, <1>3, <1>4, <1>6 DEF WizardPage, IsPair
<1>11. IsProfile(q.profile)
  BY <1>1, <1>2, <1>3, <1>7, <1>8, <1>9 DEF WizardPage, IsProfile, IsMedia
<1>12. WizardPage(q)
  BY <1>1, <1>5, <1>10, <1>11, WizardSet DEF WizardPage
<1> QED
  BY <1>1, <1>12, WizardQuiet

LEMMA WizardAudioQuiet ==
    ASSUME TypeInv, NEW kind \in {"video", "alsa", "silence", "none"}, WizardAudio(kind)
    PROVE  Quiet
<1> DEFINE source == CASE kind = "silence" -> Silence
                       [] kind = "alsa" -> Source("alsa", [device |-> "1,0"], <<>>)
                       [] OTHER -> InitSource(Nothing)
           number == CASE kind = "video" -> 0
                       [] kind \in {"silence", "alsa"} -> 1
                       [] OTHER -> -1
           q == [page EXCEPT !.touched = TRUE, !.sources.audio = source,
                             !.profile.audio.source = number]
<1>1. WizardPage(page) /\ Set(q)
  BY PageOf, Zenon DEF WizardAudio, At1
<1>2. IsSource(source)
  <2>1. IsSource(Source("alsa", [device |-> "1,0"], <<>>))
    BY DEF Source, IsSource
  <2> QED
    BY <2>1, SilenceFits, InitSourceFits
<1>3. number \in {-1, 0, 1}
  OBVIOUS
<1> HIDE DEF source, number
<1>4. /\ WizardFields \subseteq DOMAIN page /\ {"video", "audio"} \subseteq DOMAIN page.sources
      /\ {"video", "audio", "custom"} \subseteq DOMAIN page.profile
      /\ {"source", "stream", "encoder"} \subseteq DOMAIN page.profile.audio
  BY <1>1 DEF WizardPage, WizardFields, IsPair, IsProfile, IsMedia
<1>5. DOMAIN q = DOMAIN page /\ q.view = page.view /\ q.asked = page.asked
  BY <1>4, Zenon DEF WizardFields
<1>6. q.sources = [page.sources EXCEPT !.audio = source]
  BY <1>4, Zenon DEF WizardFields
<1>7. DOMAIN q.profile = DOMAIN page.profile /\ q.profile.video = page.profile.video
      /\ q.profile.custom = page.profile.custom
  BY <1>4, Zenon DEF WizardFields
<1>8. DOMAIN q.profile.audio = DOMAIN page.profile.audio /\ q.profile.audio.source = number
  BY <1>4, Zenon DEF WizardFields
<1> HIDE DEF q
<1>9. IsPair(q.sources)
  BY <1>1, <1>2, <1>4, <1>6 DEF WizardPage, IsPair
<1>10. IsProfile(q.profile)
  BY <1>1, <1>3, <1>7, <1>8 DEF WizardPage, IsProfile, IsMedia
<1>11. WizardPage(q)
  BY <1>1, <1>5, <1>9, <1>10, WizardSet DEF WizardPage
<1> QED
  BY <1>1, <1>11, WizardQuiet

LEMMA AudioResultTyped ==
    ASSUME NEW p, WizardPage(p)
    PROVE  WizardPage(AudioResult(p))
<1> DEFINE m == p.profile.audio
           stream == IF m.source = 0 THEN At(p.sources.video.streams, m.stream)
                     ELSE At(p.sources.audio.streams, m.stream)
           coder == Get(Encoders.audio, IF stream.codec \in {"aac", "mp3"} THEN "copy" ELSE "aac")
           d == Defaults(coder, stream, env.ffmpeg)
           encoder == [coder |-> m.encoder.coder, settings |-> d.settings, mapping |-> d.mapping]
           asked == IF m.source = 1 THEN "own" ELSE IF p.touched THEN "other" ELSE "video"
           silent == [p EXCEPT !.profile.audio.stream = -1, !.asked = "none", !.step = "META"]
           q == [p EXCEPT !.profile.audio.encoder = encoder, !.asked = asked, !.step = "META"]
<1>1. AudioResult(p) = IF m.source = -1 THEN silent ELSE q
  BY Zenon DEF AudioResult
<1>2. asked \in Kinds
  BY DEF Kinds
<1> HIDE DEF encoder, asked
<1>3. /\ WizardFields \subseteq DOMAIN p
      /\ {"video", "audio", "custom"} \subseteq DOMAIN p.profile
      /\ {"source", "stream", "encoder"} \subseteq DOMAIN p.profile.audio
  BY DEF WizardPage, WizardFields, IsProfile, IsMedia
<1>4. ASSUME NEW r, DOMAIN r = DOMAIN p, r.view = p.view, r.asked \in Kinds,
             r.sources = p.sources, Alike(r.profile, p.profile)
      PROVE  WizardPage(r)
  BY <1>4, AlikeFits, WizardSet DEF WizardPage
<1>5. WizardPage(silent)
  <2>1. DOMAIN silent = DOMAIN p /\ silent.view = p.view /\ silent.asked = "none"
        /\ silent.sources = p.sources
    BY <1>3, Zenon DEF WizardFields
  <2>2. DOMAIN silent.profile = DOMAIN p.profile /\ silent.profile.video = p.profile.video
        /\ silent.profile.custom = p.profile.custom
    BY <1>3, Zenon DEF WizardFields
  <2>3. DOMAIN silent.profile.audio = DOMAIN p.profile.audio
        /\ silent.profile.audio.source = p.profile.audio.source
    BY <1>3, Zenon DEF WizardFields
  <2> HIDE DEF silent
  <2>4. Alike(silent.profile, p.profile)
    BY <2>2, <2>3 DEF Alike
  <2> QED
    BY <1>4, <2>1, <2>4 DEF Kinds
<1>6. WizardPage(q)
  <2>1. DOMAIN q = DOMAIN p /\ q.view = p.view /\ q.asked = asked /\ q.sources = p.sources
    BY <1>3, Zenon DEF WizardFields
  <2>2. DOMAIN q.profile = DOMAIN p.profile /\ q.profile.video = p.profile.video
        /\ q.profile.custom = p.profile.custom
    BY <1>3, Zenon DEF WizardFields
  <2>3. DOMAIN q.profile.audio = DOMAIN p.profile.audio
        /\ q.profile.audio.source = p.profile.audio.source
    BY <1>3, Zenon DEF WizardFields
  <2> HIDE DEF q
  <2>4. Alike(q.profile, p.profile)
    BY <2>2, <2>3 DEF Alike
  <2> QED
    BY <1>2, <1>4, <2>1, <2>4
<1> QED
  BY <1>1, <1>5, <1>6

LEMMA AudioQuiet ==
    ASSUME TypeInv, NEW streams, AudioChosen \/ AudioProbed(streams)
    PROVE  Quiet
<1>1. WizardPage(page)
  BY PageOf DEF AudioChosen, AudioProbed, At1
<1>2. CASE AudioChosen
  <2>1. page' = Stuck \/ page' = AudioResult(page)
    BY <1>2 DEF AudioChosen, Turn
  <2>2. PageTyped(page')
    BY <1>1, <2>1, AudioResultTyped, EmptyPages DEF PageTyped
  <2> QED
    BY <1>2, <2>2 DEF AudioChosen, Turn, Quiet, Counted
<1>3. CASE AudioProbed(streams)
  <2> DEFINE found == AnalyzeStreams("audio", streams) = "success"
             profile == IF found THEN PreselectAudioProfile(streams, page.profile, env.encoders)
                        ELSE page.profile
             status == ProbeStatus("audio", streams, profile)
             q == [page EXCEPT !.sources.audio.streams = streams, !.profile = profile,
                               !.status = status]
  <2>1. Set(IF status = "success" THEN AudioResult(q) ELSE q)
    BY <1>3, Zenon DEF AudioProbed
  <2>2. IsProfile(profile)
    BY <1>1, AudioProfilePreselected DEF WizardPage
  <2> HIDE DEF profile, status
  <2>3. /\ WizardFields \subseteq DOMAIN page /\ {"video", "audio"} \subseteq DOMAIN page.sources
        /\ {"inputs", "streams"} \subseteq DOMAIN page.sources.audio
    BY <1>1 DEF WizardPage, WizardFields, IsPair, IsSource
  <2>4. DOMAIN q = DOMAIN page /\ q.view = page.view /\ q.asked = page.asked /\ q.profile = profile
    BY <2>3, Zenon DEF WizardFields
  <2>5. DOMAIN q.sources = DOMAIN page.sources /\ q.sources.video = page.sources.video
    BY <2>3, Zenon DEF WizardFields
  <2>6. DOMAIN q.sources.audio = DOMAIN page.sources.audio
    BY <2>3, Zenon DEF WizardFields
  <2> HIDE DEF q
  <2>7. IsPair(q.sources)
    BY <1>1, <2>5, <2>6 DEF WizardPage, IsPair, IsSource
  <2>8. WizardPage(q)
    BY <1>1, <2>2, <2>4, <2>7, WizardSet DEF WizardPage
  <2>9. WizardPage(IF status = "success" THEN AudioResult(q) ELSE q)
    BY <2>8, AudioResultTyped
  <2> QED
    BY <2>1, <2>9, WizardQuiet
<1> QED
  BY <1>2, <1>3

LEMMA WizardSaveFailsQuiet ==
    ASSUME TypeInv, WizardSaveFails
    PROVE  Quiet
BY EmptyPages DEF WizardSaveFails, Quiet, PageTyped, Counted, SavedOnce

LEMMA WizardSaveTyped ==
    ASSUME TypeInv, NEW done \in SUBSET {"metadata", "snapshot"}, WizardSave(done)
    PROVE  TypeInv'
<1> DEFINE sources == <<page.sources.video, page.sources.audio>>
           profile == CleanupProfile(page.profile)
           io == CreateInputsOutputs(sources, profile)
           control == UsedControl(DefaultControl, io.inputs)
           new == io.sources
           streams == CreateOutputStreams(sources, profile)
           meta == [version |-> "1.2.0", sources |-> new, profile |-> profile,
                    streams |-> streams, control |-> control]
           past == [asked |-> IF page.asked = "own" THEN "other" ELSE page.asked,
                    abandoned |-> FALSE]
           made == IngestProcess(io.global, io.inputs, io.outputs[1], DefaultControl, env.servers)
<1>1. WizardPage(page)
  BY PageOf DEF WizardSave, At1
<1>2. page' = Closed /\ env' = env /\ SavedOnce /\ io.inputs # <<>>
  BY Zenon DEF WizardSave, SavedOnce
<1>3. core' = [core EXCEPT
                 !.ingest = made,
                 !.meta = IF "metadata" \in done THEN meta ELSE @,
                 !.snapshot = IF "snapshot" \in done THEN SnapshotProcess(control) ELSE @,
                 !.past = IF "metadata" \in done THEN past ELSE @,
                 !.asked = page.asked, !.by = "wizard",
                 !.whole = (done = {"metadata", "snapshot"})]
  BY Zenon DEF WizardSave
<1>4. AreSources(sources) /\ IsProfile(profile)
  BY <1>1, BothSources, CleanedFits DEF WizardPage
<1> HIDE DEF sources, profile
<1>5. SameStreams(new, sources) /\ ValidateProfile(sources, profile)
  BY <1>2, <1>4, SavedSources
<1>6. IsPast(past)
  BY <1>1 DEF WizardPage, IsPast, Kinds
<1> HIDE DEF io, new, made, streams, past
<1>7. meta.sources = new /\ meta.profile = profile
  OBVIOUS
<1> HIDE DEF meta
<1>8. DOMAIN core = CoreFields /\ IsStored(core.meta.profile) /\ IsPast(core.past)
  BY DEF TypeInv, CoreTyped
<1>9. /\ DOMAIN core' = CoreFields
      /\ core'.meta = IF "metadata" \in done THEN meta ELSE core.meta
      /\ core'.past = IF "metadata" \in done THEN past ELSE core.past
      /\ core'.whole = (done = {"metadata", "snapshot"})
  BY <1>3, <1>8, Zenon DEF CoreFields
<1>10. ValidateProfile(meta.sources, meta.profile)
  BY <1>5, <1>7, StillValid
<1>11. core'.whole => core'.meta = meta
  BY <1>9
<1>12. IsStored(meta.profile)
  BY <1>4, <1>7, ProfileStored
<1> QED
  BY <1>2, <1>6, <1>8, <1>9, <1>10, <1>11, <1>12, CoreSaved

-----------------------------------------------------------------------------
(* The theorem *)

LEMMA TypeInit == Init => TypeInv
<1> SUFFICES ASSUME Init PROVE TypeInv
  OBVIOUS
<1>1. PICK start \in Starts : env = start.env /\ core = start.core
  BY DEF Init
<1>2. /\ DOMAIN core = CoreFields /\ core.ingest = <<>>
      /\ IsStored(core.meta.profile) /\ IsPast(core.past)
      /\ env.saves \in Nat /\ env.changes \in Nat
  BY <1>1, StartsAssumption DEF IsPast
<1>3. PageTyped(page)
  BY EmptyPages DEF Init, PageTyped
<1>4. DOMAIN count = {"saves", "changes"} /\ count.saves = 0 /\ count.changes = 0
  BY DEF Init
<1>5. CountTyped
  BY <1>2, <1>4 DEF CountTyped
<1> QED
  BY <1>2, <1>3, <1>5 DEF TypeInv, CoreTyped, Saved

LEMMA TypeStep == TypeInv /\ [Next]_vars => TypeInv'
<1> SUFFICES ASSUME TypeInv, [Next]_vars PROVE TypeInv'
  OBVIOUS
<1>1. CASE EditNext
  BY <1>1, PagesQuiet, ControlsQuiet, SaveFailsQuiet, SaveTyped, QuietKeeps, Zenon DEF EditNext
<1>2. CASE ProfileNext
  BY <1>2, ProbesQuiet, StepsQuiet, SelectsQuiet, CodersQuiet, FinishQuiet, AbortQuiet,
     QuietKeeps, Zenon DEF ProfileNext
<1>3. CASE WizardNext
  BY <1>3, WizardOpenQuiet, MovesQuiet, WizardProbeQuiet, WizardSelectsQuiet, VideoChosenQuiet,
     AudioQuiet, WizardAudioQuiet, BackToTypeQuiet, WizardSaveTyped, WizardSaveFailsQuiet,
     QuietKeeps, Zenon DEF WizardNext
<1>4. CASE Reload
  BY <1>4, PagesQuiet, QuietKeeps
<1>5. CASE UNCHANGED vars
  BY <1>5, QuietKeeps DEF vars, TypeInv, Quiet, Counted
<1> QED
  BY <1>1, <1>2, <1>3, <1>4, <1>5 DEF Next

LEMMA TypesHold == TypeInv => TypeOK
<1> SUFFICES ASSUME TypeInv PROVE TypeOK
  OBVIOUS
<1>1. page.view \in {"closed", "edit", "profile", "wizard", "stuck"}
  BY DEF TypeInv, PageTyped, EmptyPage, EditPage, ProfilePage, WizardPage
<1>2. ASSUME page.view = "profile"
      PROVE  /\ page.vstatus \in Statuses /\ page.astatus \in Statuses
             /\ page.step \in {0, 1} /\ page.pseudo \subseteq {"noaudio", "sdp", "videoaudio"}
             /\ page.profile.custom.selected \in BOOLEAN
             /\ page.profile.audio.source \in -1..1 /\ page.profile.video.source \in -1..0
  <2>1. ProfilePage(page)
    BY <1>2, PageOf
  <2>2. page.profile.audio.source \in {-1, 0, 1} /\ page.profile.video.source \in {-1, 0}
    BY <2>1 DEF ProfilePage, IsProfile, IsMedia
  <2> QED
    BY <2>1, <2>2 DEF ProfilePage, IsProfile, Pseudo
<1>3. page.view = "edit" => page.past.asked \in Kinds /\ page.complete \in BOOLEAN
  <2>1. \A sources, p : ValidateProfile(sources, p) \in BOOLEAN
    BY DEF ValidateProfile, ValidStream
  <2> QED
    BY <2>1, PageOf DEF EditPage, IsData, IsPast
<1>4. /\ count.saves \in 0..env.saves /\ count.changes \in 0..env.changes
      /\ Saved /\ core.whole => ValidateProfile(core.meta.sources, core.meta.profile)
  BY DEF TypeInv, CoreTyped, CountTyped
<1> QED
  BY <1>1, <1>2, <1>3, <1>4 DEF TypeOK

(* The pages show what they can show, and a channel that was saved completely, *)
(* by the page or by the wizard, can be opened and saved again: the profile in *)
(* the Core has its streams and the inputs it reads, although saving changes   *)
(* the sources in place, and an edit that is given up the filters              *)
(* (validateProfile, createInputsOutputs, cleanupProfile).                     *)
THEOREM TypeCorrect == Spec => []TypeOK
<1>1. Spec => []TypeInv
  BY TypeInit, TypeStep, PTL DEF Spec
<1> QED
  BY <1>1, TypesHold, PTL

-----------------------------------------------------------------------------
(* The inputs of a channel. The inputs of a source are those of its settings, until
   saving puts the options of a decoder before them, in place (InputDecoded): so
   decoders are followed as well, through loading, rendering, probing and saving.
   What the sources make: *)

\* Options of a source are lists, and so are those of two parts.
LEMMA OptionLists ==
    /\ \A name, value : IsList(Opt(name, value))
    /\ \A cond, name, value : IsList(OptIf(cond, name, value))
    /\ IsList(<<>>)
<1>1. ASSUME NEW name, NEW value PROVE IsList(Opt(name, value))
  BY OneOption DEF Opt
<1>2. IsList(<<>>)
  BY NoOptions DEF Free
<1> QED
  BY <1>1, <1>2 DEF OptIf

\* Two lists make one.
LEMMA ListsJoined == \A a, b : IsList(a) /\ IsList(b) => IsList(a \o b)
BY Concatenation

\* One input with a list of options
LEMMA OneInput ==
    ASSUME NEW i, IsInput(i)
    PROVE  AreInputs(<<i>>)
<1>1. <<i>> \in Seq({i}) /\ DOMAIN <<i>> = {1} /\ <<i>>[1] = i
  OBVIOUS
<1>2. IsList(<<i>>)
  BY <1>1, ListDef
<1> QED
  BY <1>1, <1>2 DEF AreInputs

\* What Input makes
LEMMA InputMade ==
    ASSUME NEW address, NEW options, IsList(options)
    PROVE  AreInputs(Input(address, options))
<1> DEFINE i == [address |-> address, options |-> options, stability |-> "standard"]
<1>1. IsInput(i)
  BY DEF IsInput, HasFields
<1> HIDE DEF i
<1>2. AreInputs(<<i>>)
  BY <1>1, OneInput
<1> QED
  BY <1>2 DEF Input, i

\* A source without inputs
LEMMA NoInputs == AreInputs(<<>>)
BY NoOptions DEF Free, AreInputs

\* The inputs of devices, files and generators (Sources/*.js createInputs)
LEMMA DeviceInputs ==
    ASSUME NEW s
    PROVE  /\ AreInputs(ALSA(s)) /\ AreInputs(AVFoundation(s)) /\ AreInputs(V4L(s))
           /\ AreInputs(Raspicam(s)) /\ AreInputs(X11grab(s))
           /\ AreInputs(VirtualAudio(s)) /\ AreInputs(VirtualVideo(s)) /\ AreInputs(VideoLoop(s))
           /\ AreInputs(AudioLoop(s)) /\ AreInputs(SDP(s)) /\ AreInputs(Channel(s))
<1>1. AreInputs(ALSA(s))
  <2> DEFINE queue == 512
  <2>1. ALSA(s) = Input(<<"hw", s.device>>,
                        Opt("-f", "alsa") \o Opt("-thread_queue_size", queue)
                        \o OptIf(s.delay # 0, "-itsoffset", s.delay))
    BY SMT DEF ALSA
  <2> HIDE DEF queue
  <2> QED
    BY <2>1, OptionLists, ListsJoined, InputMade, Zenon
<1>2. AreInputs(AVFoundation(s))
  BY OptionLists, ListsJoined, InputMade, Zenon DEF AVFoundation
<1>3. AreInputs(V4L(s)) /\ AreInputs(Raspicam(s))
  <2> DEFINE queue == 512
             made == Input(<<"device", Device(s)>>,
                           Opt("-thread_queue_size", queue) \o Opt("-re", "") \o Opt("-f", "video4linux2")
                           \o Opt("-video_size", s.size))
  <2>1. V4L(s) = made /\ Raspicam(s) = made
    BY SMT DEF V4L, Raspicam
  <2> HIDE DEF queue
  <2>2. AreInputs(made)
    BY OptionLists, ListsJoined, InputMade, Zenon
  <2> QED
    BY <2>1, <2>2
<1>4. AreInputs(X11grab(s))
  <2> DEFINE queue == 1024
  <2>1. X11grab(s) = Input(<<"device", Device(s)>>,
                           Opt("-thread_queue_size", queue)
                           \o OptIf(s.fflags # {}, "-fflags", s.fflags)
                           \o Opt("-f", "x11grab") \o Opt("-draw_mouse", 0))
    BY SMT DEF X11grab
  <2> HIDE DEF queue
  <2> QED
    BY <2>1, OptionLists, ListsJoined, InputMade, Zenon
<1>5. \A source : AreInputs(Lavfi(source))
  BY OptionLists, ListsJoined, InputMade, Zenon DEF Lavfi
<1>6. AreInputs(VirtualAudio(s)) /\ AreInputs(VirtualVideo(s))
  BY <1>5, NoInputs DEF VirtualAudio, VirtualVideo
<1>7. AreInputs(VideoLoop(s))
  <2> DEFINE first == IF s.image THEN Opt("-framerate", 1) \o Opt("-loop", 1) ELSE Opt("-stream_loop", -1)
  <2>1. IsList(first)
    BY OptionLists, ListsJoined, Zenon
  <2>2. VideoLoop(s) = Input(<<"diskfs", s.address>>, first \o Opt("-re", ""))
    BY DEF VideoLoop
  <2> HIDE DEF first
  <2> QED
    BY <2>1, <2>2, OptionLists, ListsJoined, InputMade, Zenon
<1>8. AreInputs(AudioLoop(s)) /\ AreInputs(Channel(s))
  BY OptionLists, ListsJoined, InputMade, Zenon DEF AudioLoop, Channel
<1>9. AreInputs(SDP(s))
  <2> DEFINE buffer == 671088640
             queue == 4096
  <2>1. SDP(s) = Input(<<"diskfs", s.address>>,
                       Opt("-protocol_whitelist", "file,udp,rtp") \o Opt("-buffer_size", buffer)
                       \o Opt("-thread_queue_size", queue))
    BY SMT DEF SDP
  <2> HIDE DEF buffer, queue
  <2> QED
    BY <2>1, OptionLists, ListsJoined, InputMade, Zenon
<1> QED
  BY <1>1, <1>2, <1>3, <1>4, <1>6, <1>7, <1>8, <1>9

\* The input of a stream (Network.js createInputs), and of one behind the playout
LEMMA NetworkInputs ==
    ASSUME NEW stored, NEW ff
    PROVE  AreInputs(Network(stored, ff))
<1> DEFINE s == NetworkSettings(stored)
           options == Buffering(s) \o ProtocolOptions(s, ff)
           input == [address |-> Address(s), options |-> options, stability |-> Stability(s)]
<1>1. IsList(Buffering(s))
  <2> DEFINE protected == Stability(s) # "standard"
             flags == IF protected THEN (s.fflags \ {"nobuffer"}) \cup {"genpts", "discardcorrupt"}
                      ELSE s.fflags
             queue == IF protected /\ s.thread_queue_size < 2048 THEN 2048 ELSE s.thread_queue_size
  <2>1. Buffering(s) = OptIf(flags # {}, "-fflags", flags) \o Opt("-thread_queue_size", queue)
    BY SMT DEF Buffering
  <2> HIDE DEF flags, queue
  <2> QED
    BY <2>1, OptionLists, ListsJoined, Zenon
<1>2. IsList(ProtocolOptions(s, ff))
  <2>1. IsList(RTSPOptions(s, ff))
    <3> DEFINE name == IF ff.ffmpeg = 4 THEN "-stimeout" ELSE "-timeout"
               buffer == 8388608
               delay == 1000000
               more == IF s.stability = "standard" THEN Opt("-rtsp_transport", s.transport)
                       ELSE Opt("-rtsp_transport", "tcp") \o Opt("-buffer_size", buffer)
                            \o Opt("-max_delay", delay)
    <3> HIDE DEF buffer, delay
    <3>1. IsList(more)
      BY OptionLists, ListsJoined, Zenon
    <3>2. RTSPOptions(s, ff) = Opt(name, 5) \o more
      BY SMT DEF RTSPOptions, buffer, delay
    <3> HIDE DEF name, more
    <3> QED
      BY <3>1, <3>2, OptionLists, ListsJoined, Zenon
  <2>2. IsList(OptIf(s.readNative, "-re", "")) /\ IsList(EnhancedCodecs(ff)) /\ IsList(<<>>)
    BY OptionLists, Zenon DEF EnhancedCodecs
  <2> HIDE DEF s
  <2> QED
    BY <2>1, <2>2 DEF ProtocolOptions
<1>3. IsList(options)
  BY <1>1, <1>2, ListsJoined, Zenon
<1> HIDE DEF s, options
<1>4. IsInput(input)
  BY <1>3 DEF IsInput, HasFields
<1>5. input.options = options /\ DOMAIN input = {"address", "options", "stability"}
  OBVIOUS
<1>6. Network(stored, ff) = <<LiveGuard(input, s, ff)>>
  BY DEF Network, s, options
<1> HIDE DEF input
<1>7. IsInput(LiveGuard(input, s, ff))
  <2> DEFINE more == Opt("-playout_audio", IF s.liveguard = "video" THEN 0 ELSE 1)
             both == options \o more
             guarded == [input EXCEPT !.address = <<"playout", input.address>>, !.options = both]
  <2>1. IsList(both)
    BY <1>3, OptionLists, ListsJoined, Zenon
  <2>2. LiveGuard(input, s, ff) = guarded \/ LiveGuard(input, s, ff) = input
    BY <1>5, Zenon DEF LiveGuard
  <2> HIDE DEF both
  <2>3. IsInput(guarded)
    BY <2>1, <1>5 DEF IsInput, HasFields
  <2> QED
    BY <1>4, <2>2, <2>3
<1> QED
  BY <1>6, <1>7, OneInput

\* Every registered source makes inputs.
LEMMA InputsMade ==
    ASSUME NEW type \in DOMAIN SourceSettings, NEW stored, NEW ff
    PROVE  AreInputs(CreateInputs(type, stored, ff))
<1> DEFINE s == stored @@ SourceSettings[type]
<1>1. type \in {"alsa", "avfoundation", "video4linux2", "raspicam", "virtualaudio", "virtualvideo",
                "videoloop", "audioloop", "sdp", "x11grab", "channel", "network"}
  BY DEF SourceSettings
<1>2. /\ AreInputs(ALSA(s)) /\ AreInputs(AVFoundation(s)) /\ AreInputs(V4L(s))
      /\ AreInputs(Raspicam(s)) /\ AreInputs(X11grab(s))
      /\ AreInputs(VirtualAudio(s)) /\ AreInputs(VirtualVideo(s)) /\ AreInputs(VideoLoop(s))
      /\ AreInputs(AudioLoop(s)) /\ AreInputs(SDP(s)) /\ AreInputs(Channel(s))
  BY DeviceInputs
<1>3. AreInputs(Network(stored, ff))
  BY NetworkInputs
<1> HIDE DEF s
<1>4. CreateInputs(type, stored, ff) \in
         {Network(stored, ff), ALSA(s), AVFoundation(s), V4L(s), Raspicam(s), VirtualAudio(s),
          VirtualVideo(s), VideoLoop(s), AudioLoop(s), SDP(s), X11grab(s), Channel(s)}
  BY <1>1 DEF CreateInputs, s
<1> QED
  BY <1>2, <1>3, <1>4

-----------------------------------------------------------------------------
(* Decoders *)

DecoderGroups == {"gpu", "resize", "hwaccel_device"}
\* A decoder of the registry begins with options of decoders and has few groups of them.
Decodes(c) ==
    /\ IsList(c.first) /\ \A x \in ToSet(c.first) : x[1] \in DecoderOptions
    /\ c.groups \in Seq(DecoderGroups) /\ Len(c.groups) <= 5

\* The video decoders, as a set.
LEMMA DecoderRegistry ==
    ToSet(Decoders.video) =
        {VideoDefault, VideoToolbox, AV1CUVID, NVDEC, H264MMAL, H264CUVID, HEVCCUVID, MJPEGCUVID,
         MPEG1CUVID, MPEG2CUVID, MPEG2MMAL, MPEG4CUVID, MPEG4MMAL, VC1CUVID, VC1MMAL, VP8CUVID,
         VP9CUVID}
BY DEF Decoders, ToSet

\* One option of decoders is a list of them.
LEMMA OneDecoderOption ==
    ASSUME NEW n \in DecoderOptions, NEW v
    PROVE  IsList(<< <<n, v>> >>) /\ \A x \in ToSet(<< <<n, v>> >>) : x[1] \in DecoderOptions
<1> DEFINE a == <<n, v>>
           o == <<a>>
<1>1. a[1] = n
  OBVIOUS
<1>2. IsList(o) /\ ToSet(o) = {a}
  BY OneOption
<1> HIDE DEF a
<1> QED
  BY <1>1, <1>2 DEF a

\* So are two.
LEMMA TwoDecoderOptions ==
    ASSUME NEW n \in DecoderOptions, NEW v, NEW m \in DecoderOptions, NEW w
    PROVE  LET o == << <<n, v>>, <<m, w>> >>
           IN  IsList(o) /\ \A x \in ToSet(o) : x[1] \in DecoderOptions
<1> DEFINE a == <<n, v>>
           b == <<m, w>>
           o == <<a, b>>
<1>1. a[1] = n /\ b[1] = m
  OBVIOUS
<1> HIDE DEF a, b
<1>2. o \in Seq({a, b})
  OBVIOUS
<1>3. IsList(o) /\ ToSet(o) \subseteq {a, b}
  BY <1>2, ListDef
<1> QED
  BY <1>1, <1>3 DEF a, b

\* Every video decoder is one.
LEMMA AllDecode == \A c \in ToSet(Decoders.video) : Decodes(c)
<1>1. ASSUME NEW coder, NEW codec PROVE Decodes(Cuvid(coder, codec)) /\ Decodes(Mmal(coder, codec))
  <2>1. /\ Cuvid(coder, codec).first = << <<"-c:v", coder>> >> /\ Cuvid(coder, codec).groups = <<"gpu", "resize">>
        /\ Mmal(coder, codec).first = << <<"-c:v", coder>> >> /\ Mmal(coder, codec).groups = <<>>
    BY DEF Cuvid, Mmal, Decoder, DecodeWith
  <2>2. /\ <<"gpu", "resize">> \in Seq(DecoderGroups) /\ Len(<<"gpu", "resize">>) <= 5
        /\ <<>> \in Seq(DecoderGroups) /\ Len(<<>>) <= 5
    BY DEF DecoderGroups
  <2>3. "-c:v" \in DecoderOptions
    BY DEF DecoderOptions
  <2> QED
    BY <2>1, <2>2, <2>3, OneDecoderOption DEF Decodes
<1>2. Decodes(VideoDefault)
  <2>1. VideoDefault.first = <<>> /\ VideoDefault.groups = <<>>
    BY DEF VideoDefault, Decoder
  <2> QED
    BY <2>1, NoOptions DEF Decodes, Free
<1>3. Decodes(VideoToolbox)
  <2>1. VideoToolbox.first = << <<"-hwaccel", "videotoolbox">> >> /\ VideoToolbox.groups = <<>>
    BY DEF VideoToolbox, Decoder
  <2>2. "-hwaccel" \in DecoderOptions
    BY DEF DecoderOptions
  <2> QED
    BY <2>1, <2>2, OneDecoderOption DEF Decodes
<1>4. Decodes(AV1CUVID)
  <2>1. AV1CUVID.first = << <<"-hwaccel", "cuda">>, <<"-c:v", "av1_cuvid">> >> /\ AV1CUVID.groups = <<>>
    BY DEF AV1CUVID, Decoder
  <2>2. "-hwaccel" \in DecoderOptions /\ "-c:v" \in DecoderOptions
    BY DEF DecoderOptions
  <2>3. IsList(AV1CUVID.first) /\ \A x \in ToSet(AV1CUVID.first) : x[1] \in DecoderOptions
    BY <2>1, <2>2, TwoDecoderOptions
  <2>4. <<>> \in Seq(DecoderGroups) /\ Len(<<>>) <= 5
    OBVIOUS
  <2> QED
    BY <2>1, <2>3, <2>4 DEF Decodes
<1>5. Decodes(NVDEC)
  <2>1. /\ NVDEC.first = << <<"-hwaccel", "cuda">>, <<"-hwaccel_output_format", "nv12">> >>
        /\ NVDEC.groups = <<"hwaccel_device">>
    BY DEF NVDEC, Decoder
  <2>2. "-hwaccel" \in DecoderOptions /\ "-hwaccel_output_format" \in DecoderOptions
    BY DEF DecoderOptions
  <2>3. <<"hwaccel_device">> \in Seq(DecoderGroups) /\ Len(<<"hwaccel_device">>) <= 5
    BY DEF DecoderGroups
  <2> QED
    BY <2>1, <2>2, <2>3, TwoDecoderOptions DEF Decodes
<1>6. /\ Decodes(H264MMAL) /\ Decodes(H264CUVID) /\ Decodes(HEVCCUVID) /\ Decodes(MJPEGCUVID)
      /\ Decodes(MPEG1CUVID) /\ Decodes(MPEG2CUVID) /\ Decodes(MPEG2MMAL) /\ Decodes(MPEG4CUVID)
      /\ Decodes(MPEG4MMAL) /\ Decodes(VC1CUVID) /\ Decodes(VC1MMAL) /\ Decodes(VP8CUVID)
      /\ Decodes(VP9CUVID)
  BY <1>1 DEF H264MMAL, H264CUVID, HEVCCUVID, MJPEGCUVID, MPEG1CUVID, MPEG2CUVID, MPEG2MMAL,
              MPEG4CUVID, MPEG4MMAL, VC1CUVID, VC1MMAL, VP8CUVID, VP9CUVID
<1> QED
  BY <1>2, <1>3, <1>4, <1>5, <1>6, DecoderRegistry

\* The options of the settings of a decoder (Decoders/*.js createMapping)
LEMMA DecoderGroup ==
    ASSUME NEW g \in DecoderGroups, NEW s, NEW stream, NEW ff
    PROVE  LET o == Options(g, s, stream, ff)
           IN  IsList(o) /\ \A x \in ToSet(o) : x[1] \in DecoderOptions
<1>1. \/ Options(g, s, stream, ff) = <<>>
      \/ \E n \in {"-gpu", "-hwaccel_device", "-resize"} : \E v : Options(g, s, stream, ff) = << <<n, v>> >>
  BY DEF DecoderGroups, Options
<1>2. {"-gpu", "-hwaccel_device", "-resize"} \subseteq DecoderOptions
  BY DEF DecoderOptions
<1> QED
  BY <1>1, <1>2, OneDecoderOption, NoOptions DEF Free

\* The mapping of a decoder has nothing but options of decoders.
LEMMA MappingDecodes ==
    ASSUME NEW c \in ToSet(Decoders.video), NEW s, NEW stream, NEW ff
    PROVE  LET m == CreateMapping(c, s, stream, ff)
           IN  /\ DOMAIN m = {"global", "local", "filter"} /\ IsList(m.local)
               /\ \A x \in ToSet(m.local) : x[1] \in DecoderOptions
<1> DEFINE groups == [i \in DOMAIN c.groups |-> Options(c.groups[i], s, stream, ff)]
           rest == FlattenSeq(groups)
           local == c.first \o rest
           T == { Options(g, s, stream, ff) : g \in DecoderGroups }
           all == UNION { ToSet(o) : o \in T }
<1>1. /\ c.groups \in Seq(DecoderGroups) /\ Len(c.groups) <= 5 /\ IsList(c.first)
      /\ \A x \in ToSet(c.first) : x[1] \in DecoderOptions
  BY AllDecode DEF Decodes
<1>2. groups \in Seq(T) /\ Len(groups) = Len(c.groups)
      /\ \A i \in 1..Len(groups) : groups[i] \in T
  BY <1>1
<1>3. \A o \in T : IsList(o) /\ \A x \in ToSet(o) : x[1] \in DecoderOptions
  BY DecoderGroup
<1> HIDE DEF groups, T
<1>4. \A i \in 1..Len(groups) : Of(groups[i], all)
  BY <1>2, <1>3 DEF Of
<1>5. \A x \in all : x[1] \in DecoderOptions
  BY <1>3
<1> HIDE DEF all
<1>6. IsList(rest) /\ \A x \in ToSet(rest) : x[1] \in DecoderOptions
  BY <1>1, <1>2, <1>4, <1>5, Joined DEF Of
<1>7. CreateMapping(c, s, stream, ff) = [global |-> c.global, local |-> local, filter |-> c.filter]
  BY DEF CreateMapping, groups
<1> HIDE DEF rest
<1>8. IsList(local) /\ ToSet(local) = ToSet(c.first) \cup ToSet(rest)
  BY <1>1, <1>6, Concatenation
<1> HIDE DEF local
<1> QED
  BY <1>1, <1>6, <1>7, <1>8

\* A coder that is registered is found by its name.
LEMMA DecoderFound ==
    ASSUME NEW coder, \E c \in ToSet(Decoders.video) : c.coder = coder
    PROVE  Get(Decoders.video, coder) \in ToSet(Decoders.video) /\ Get(Decoders.video, coder).coder = coder
BY DEF Get

\* A decoder with a mapping its coder made
LEMMA DecoderMade ==
    ASSUME NEW d, HasFields(d, {"coder", "settings", "mapping"}), NEW c \in ToSet(Decoders.video),
           d.coder = c.coder, NEW s, NEW stream, NEW ff, d.mapping = CreateMapping(c, s, stream, ff)
    PROVE  IsDecoder(d)
<1> DEFINE m == CreateMapping(c, s, stream, ff)
<1>1. /\ DOMAIN m = {"global", "local", "filter"} /\ IsList(m.local)
      /\ \A x \in ToSet(m.local) : x[1] \in DecoderOptions
  BY MappingDecodes
<1> HIDE DEF m
<1> QED
  BY <1>1 DEF m, IsDecoder, HasFields

\* What the component of a decoder hands back
LEMMA HandedDecodes ==
    ASSUME NEW d, IsDecoder(d), NEW stream, NEW ff
    PROVE  IsDecoder(Handed(d, Decoders.video, stream, ff))
<1> DEFINE c == Get(Decoders.video, d.coder)
           h == Handed(d, Decoders.video, stream, ff)
<1>1. c \in ToSet(Decoders.video) /\ c.coder = d.coder
  BY DecoderFound DEF IsDecoder
<1>2. /\ HasFields(h, {"coder", "settings", "mapping"}) /\ h.coder = d.coder
      /\ h.mapping = CreateMapping(c, h.settings, stream, ff.ffmpeg)
  BY DEF Handed, HasFields
<1> HIDE DEF c, h
<1>3. IsDecoder(h)
  BY <1>1, <1>2, DecoderMade
<1> QED
  BY <1>3 DEF h

\* A decoder that is chosen, with its defaults
LEMMA DefaultsDecode ==
    ASSUME NEW coder, NEW stream, NEW of, NEW ff, coder \in DecoderList(of, ff)
    PROVE  IsDecoder(WithDefaults(Get(Decoders.video, coder), stream, ff))
<1> DEFINE c == Get(Decoders.video, coder)
           h == WithDefaults(c, stream, ff)
<1>1. \E d \in ToSet(Decoders.video) : d.coder = coder
  BY DEF DecoderList, GetCodersForCodec
<1>2. c \in ToSet(Decoders.video)
  BY <1>1, DecoderFound
<1> HIDE DEF c
<1>3. /\ HasFields(h, {"coder", "settings", "mapping"}) /\ h.coder = c.coder
      /\ h.mapping = CreateMapping(c, c.defaults, stream, ff.ffmpeg)
  BY DEF WithDefaults, Defaults, HasFields
<1> HIDE DEF h
<1>4. IsDecoder(h)
  BY <1>2, <1>3, DecoderMade
<1> QED
  BY <1>4 DEF h, c

-----------------------------------------------------------------------------
(* What saving does to the sources *)

\* The options of a decoder before those of an input (createInputsOutputs)
LEMMA InputDecoded ==
    ASSUME NEW input, IsInput(input), NEW made, IsInput(made), InputFits(input, made),
           NEW local, IsList(local), \A x \in ToSet(local) : x[1] \in DecoderOptions
    PROVE  LET new == [input EXCEPT !.options = local \o input.options]
           IN  IsInput(new) /\ InputFits(new, made)
<1> DEFINE is == input.options
           should == made.options
           n == Len(local)
           more == Len(is) - Len(should)
           both == local \o is
           new == [input EXCEPT !.options = both]
<1>1. IsList(is) /\ IsList(should)
  BY DEF IsInput
<1>2. /\ Len(is) \in Nat /\ DOMAIN is = 1..Len(is) /\ Len(should) \in Nat
      /\ n \in Nat /\ DOMAIN local = 1..n
  BY <1>1, ListType
<1>3. /\ IsList(both) /\ Len(both) = n + Len(is) /\ DOMAIN both = 1..Len(both)
      /\ \A j \in 1..n : both[j] = local[j]
      /\ \A j \in 1..Len(is) : both[j + n] = is[j]
  <2>1. IsList(both) /\ Len(both) = n + Len(is)
    BY <1>1, Concatenation
  <2>2. DOMAIN both = 1..Len(both)
    BY <2>1, ListType
  <2> DEFINE S == ToSet(local) \cup ToSet(is)
  <2>3. local \in Seq(S) /\ is \in Seq(S)
    BY <1>1 DEF IsList
  <2> HIDE DEF S
  <2>4. /\ \A j \in 1..n : both[j] = local[j]
        /\ \A j \in 1..Len(is) : both[j + n] = is[j]
    BY <2>3
  <2> QED
    BY <2>1, <2>2, <2>4
<1>4. /\ more >= 0
      /\ \A j \in DOMAIN is : IF j <= more THEN is[j][1] \in DecoderOptions ELSE is[j] = should[j - more]
      /\ input.address = made.address /\ input.stability = made.stability
  BY DEF InputFits
<1>5. HasFields(input, {"address", "options", "stability"})
  BY DEF IsInput
<1> HIDE DEF both, n
<1>6. /\ new.options = both /\ new.address = input.address /\ new.stability = input.stability
      /\ DOMAIN new = DOMAIN input
  BY <1>5, Zenon DEF HasFields
<1> HIDE DEF new, is, should
<1>7. IsInput(new)
  BY <1>3, <1>5, <1>6 DEF IsInput, HasFields
<1>8. \A j \in 1..n : local[j][1] \in DecoderOptions
  BY <1>2 DEF ToSet
<1>9. ASSUME NEW j \in 1..Len(both)
      PROVE  IF j <= more + n THEN both[j][1] \in DecoderOptions ELSE both[j] = should[j - (more + n)]
  <2>1. CASE j <= n
    BY <1>2, <1>3, <1>4, <1>8, <2>1
  <2>2. CASE j > n
    <3> DEFINE i == j - n
    <3>1. i \in 1..Len(is) /\ j = i + n
      BY <1>2, <1>3, <2>2
    <3>2. both[j] = is[i]
      BY <1>3, <3>1
    <3>3. IF i <= more THEN is[i][1] \in DecoderOptions ELSE is[i] = should[i - more]
      BY <1>2, <1>4, <3>1
    <3>4. (j <= more + n <=> i <= more) /\ j - (more + n) = i - more
      BY <1>2
    <3> HIDE DEF i
    <3> QED
      BY <3>2, <3>3, <3>4
  <2> QED
    BY <1>2, <2>1, <2>2
<1>10. Len(both) - Len(should) = more + n /\ more + n >= 0
  BY <1>2, <1>3, <1>4
<1> HIDE DEF more
<1>11. InputFits(new, made)
  BY <1>3, <1>4, <1>6, <1>9, <1>10 DEF InputFits, should
<1> QED
  BY <1>7, <1>11 DEF new, both, is

\* A source one input of which got options of a decoder
LEMMA SourceDecoded ==
    ASSUME NEW source, HasFields(source, SourceFields), NEW ff, NEW j,
           NEW local, IsList(local), \A x \in ToSet(local) : x[1] \in DecoderOptions
    PROVE  LET new == [source EXCEPT !.inputs[j].options = local \o source.inputs[j].options]
           IN  /\ DOMAIN new = DOMAIN source /\ new.type = source.type
               /\ new.settings = source.settings /\ new.streams = source.streams
               /\ IsCurrent(source, ff) => IsCurrent(new, ff)
<1> DEFINE inputs == source.inputs
           changed == [inputs[j] EXCEPT !.options = local \o inputs[j].options]
           all == [inputs EXCEPT ![j] = changed]
           new == [source EXCEPT !.inputs = all]
           made == CreateInputs(source.type, source.settings, ff)
<1>1. [source EXCEPT !.inputs[j].options = local \o source.inputs[j].options] = new
  BY Zenon
<1> HIDE DEF all
<1>2. /\ DOMAIN new = DOMAIN source /\ new.type = source.type
      /\ new.settings = source.settings /\ new.streams = source.streams /\ new.inputs = all
  BY Zenon DEF HasFields, SourceFields
<1> HIDE DEF new
<1>3. ASSUME IsCurrent(source, ff) PROVE IsCurrent(new, ff)
  <2>1. /\ source.type \in DOMAIN SourceSettings /\ IsList(inputs)
        /\ \A i \in DOMAIN inputs : IsInput(inputs[i])
        /\ Len(made) = Len(inputs) /\ \A i \in DOMAIN made : InputFits(inputs[i], made[i])
    BY <1>3 DEF IsCurrent, AreInputs, SourceCurrent
  <2>2. IsList(made) /\ \A i \in DOMAIN made : IsInput(made[i])
    BY <2>1, InputsMade DEF AreInputs
  <2>3. DOMAIN made = DOMAIN inputs /\ DOMAIN inputs = 1..Len(inputs) /\ Len(inputs) \in Nat
    BY <2>1, <2>2, ListType
  <2>4. j \in DOMAIN inputs => IsInput(changed) /\ InputFits(changed, made[j])
    BY <2>1, <2>2, <2>3, InputDecoded
  <2> HIDE DEF inputs, changed, made
  <2>5. DOMAIN all = DOMAIN inputs /\ \A i \in DOMAIN inputs : all[i] = IF i = j THEN changed ELSE inputs[i]
    BY DEF all
  <2>6. \A i \in DOMAIN inputs : IsInput(all[i]) /\ InputFits(all[i], made[i])
    BY <2>1, <2>3, <2>4, <2>5
  <2>7. IsList(all) /\ Len(all) = Len(inputs)
    <3>1. all = [i \in 1..Len(inputs) |-> all[i]]
      BY <2>3, <2>5 DEF all
    <3>2. \A i \in 1..Len(inputs) : all[i] \in ToSet(all)
      BY <2>3, <2>5 DEF ToSet
    <3>3. all \in Seq(ToSet(all))
      BY <2>3, <3>1, <3>2
    <3> QED
      BY <2>3, <2>5, <3>3 DEF IsList
  <2>8. SourceCurrent(new, ff)
    BY <1>2, <2>1, <2>3, <2>6, <2>7 DEF SourceCurrent, made
  <2> QED
    BY <1>2, <2>1, <2>5, <2>6, <2>7, <2>8 DEF IsCurrent, AreInputs
<1> QED
  BY <1>1, <1>2, <1>3

\* DecodeInput changes an input of one source only.
LEMMA SourcesDecoded ==
    ASSUME NEW sources, NEW m, IsDecoder(m.decoder), NEW ff,
           \A i \in DOMAIN sources : HasFields(sources[i], SourceFields)
    PROVE  LET new == DecodeInput(sources, m)
           IN  /\ DOMAIN new = DOMAIN sources
               /\ \A i \in DOMAIN sources :
                     /\ i # m.source + 1 => new[i] = sources[i]
                     /\ DOMAIN new[i] = DOMAIN sources[i] /\ new[i].type = sources[i].type
                     /\ IsCurrent(sources[i], ff) => IsCurrent(new[i], ff)
<1> DEFINE local == m.decoder.mapping.local
           k == InputId(sources, m)[1] + 1
           j == InputId(sources, m)[2] + 1
           changed == [sources[k] EXCEPT !.inputs[j].options = local \o sources[k].inputs[j].options]
           new == DecodeInput(sources, m)
<1>1. new = [sources EXCEPT ![k].inputs[j].options = local \o @]
  BY Zenon DEF DecodeInput
<1>2. k = m.source + 1
  BY DEF InputId
<1>3. IsList(local) /\ \A x \in ToSet(local) : x[1] \in DecoderOptions
  BY DEF IsDecoder
<1> HIDE DEF j, k, local, new
<1>4. new = [sources EXCEPT ![k] = changed]
  BY <1>1, Zenon
<1>5. ASSUME NEW i \in DOMAIN sources, i = k
      PROVE  /\ DOMAIN changed = DOMAIN sources[i] /\ changed.type = sources[i].type
             /\ IsCurrent(sources[i], ff) => IsCurrent(changed, ff)
  BY <1>3, <1>5, SourceDecoded
<1> HIDE DEF changed
<1>6. /\ DOMAIN new = DOMAIN sources
      /\ \A i \in DOMAIN sources : new[i] = IF i = k THEN changed ELSE sources[i]
  BY <1>4
<1>7. \A i \in DOMAIN sources :
         /\ i # k => new[i] = sources[i]
         /\ DOMAIN new[i] = DOMAIN sources[i] /\ new[i].type = sources[i].type
         /\ IsCurrent(sources[i], ff) => IsCurrent(new[i], ff)
  BY <1>5, <1>6
<1> QED
  BY <1>2, <1>6, <1>7 DEF new

\* A channel that can be saved uses sources that were probed.
LEMMA UsedCurrent ==
    ASSUME NEW sources, NEW p, NEW ff, IsUpToDate(sources, p, ff), IsProfile(p),
           ValidateProfile(sources, p)
    PROVE  /\ p.video.source = 0 /\ 1 \in DOMAIN sources /\ IsCurrent(sources[1], ff)
           /\ \A type \in Media : p[type].source # -1 => IsCurrent(At(sources, p[type].source), ff)
<1>1. /\ p.video.source \in {-1, 0} /\ p.audio.source \in {-1, 0, 1} /\ DOMAIN sources \subseteq {1, 2}
      /\ 1 \in DOMAIN sources => IsProbed(sources[1], ff)
      /\ p.audio.source = 1 => IsCurrent(sources[2], ff)
  BY DEF IsUpToDate, IsProfile, IsMedia
<1>2. p.video.source + 1 \in DOMAIN sources
  BY DEF ValidateProfile, ValidStream, Within
<1>3. p.video.source = 0 /\ 1 \in DOMAIN sources
  BY <1>1, <1>2
<1>4. DOMAIN sources[1].inputs # {}
  BY <1>3 DEF ValidateProfile, ValidStream, Within, At
<1>5. IsCurrent(sources[1], ff)
  <2>1. DOMAIN <<>> = {}
    OBVIOUS
  <2> QED
    BY <1>1, <1>3, <1>4, <2>1 DEF IsProbed
<1>6. ASSUME NEW type \in Media, p[type].source # -1 PROVE IsCurrent(At(sources, p[type].source), ff)
  <2>1. CASE type = "video"
    BY <1>3, <1>5, <2>1 DEF At
  <2>2. CASE type = "audio"
    <3>1. p.audio.source = 0 \/ p.audio.source = 1
      BY <1>1, <1>6, <2>2
    <3> QED
      BY <1>1, <1>5, <2>2, <3>1 DEF At
  <2> QED
    BY <2>1, <2>2 DEF Media
<1> QED
  BY <1>3, <1>5, <1>6

\* One decoder leaves the sources current.
LEMMA DecodedUpToDate ==
    ASSUME NEW sources, NEW p, NEW ff, IsUpToDate(sources, p, ff), NEW m, IsDecoder(m.decoder),
           1 \in DOMAIN sources, IsCurrent(sources[1], ff)
    PROVE  LET new == DecodeInput(sources, m)
           IN  IsUpToDate(new, p, ff) /\ 1 \in DOMAIN new /\ IsCurrent(new[1], ff)
<1> DEFINE new == DecodeInput(sources, m)
<1>1. \A i \in DOMAIN sources : HasFields(sources[i], SourceFields)
  BY DEF IsUpToDate
<1>2. /\ DOMAIN new = DOMAIN sources
      /\ \A i \in DOMAIN sources :
            /\ DOMAIN new[i] = DOMAIN sources[i] /\ new[i].type = sources[i].type
            /\ IsCurrent(sources[i], ff) => IsCurrent(new[i], ff)
  BY <1>1, SourcesDecoded
<1> HIDE DEF new
<1>3. \A i \in DOMAIN new : HasFields(new[i], SourceFields)
  BY <1>1, <1>2 DEF HasFields
<1>4. IsUpToDate(new, p, ff)
  BY <1>2, <1>3 DEF IsUpToDate, IsProbed
<1> QED
  BY <1>2, <1>4 DEF new

\* So does saving.
LEMMA SavedUpToDate ==
    ASSUME NEW sources, NEW p, NEW ff, IsUpToDate(sources, p, ff), IsProfile(p)
    PROVE  IsUpToDate(CreateInputsOutputs(sources, p).sources, p, ff)
<1> DEFINE v == DecodeInput(sources, p.video)
           a == IF HasAudio(p) THEN DecodeInput(v, p.audio) ELSE v
<1>1. CASE ~ValidateProfile(sources, p)
  <2>1. CreateInputsOutputs(sources, p) =
           [global |-> <<>>, inputs |-> <<>>, outputs |-> <<>>, sources |-> sources]
    BY <1>1 DEF CreateInputsOutputs
  <2> QED
    BY <2>1
<1>2. CASE ValidateProfile(sources, p)
  <2>1. 1 \in DOMAIN sources /\ IsCurrent(sources[1], ff)
    BY <1>2, UsedCurrent
  <2>2. IsDecoder(p.video.decoder) /\ IsDecoder(p.audio.decoder)
    BY DEF IsUpToDate, HasDecoders, Media
  <2>3. IsUpToDate(v, p, ff) /\ 1 \in DOMAIN v /\ IsCurrent(v[1], ff)
    BY <2>1, <2>2, DecodedUpToDate
  <2> HIDE DEF v
  <2>4. IsUpToDate(a, p, ff)
    BY <2>2, <2>3, DecodedUpToDate
  <2>5. InputsOutputs(sources, p).sources = a
    BY DEF InputsOutputs, v
  <2> HIDE DEF a
  <2> QED
    BY <1>2, <2>4, <2>5 DEF CreateInputsOutputs
<1> QED
  BY <1>1, <1>2

\* Type, settings and inputs make a source current.
LEMMA SameSource ==
    ASSUME NEW a, NEW b, a.type = b.type, a.settings = b.settings, a.inputs = b.inputs, NEW ff
    PROVE  (IsCurrent(b, ff) => IsCurrent(a, ff)) /\ (IsProbed(b, ff) => IsProbed(a, ff))
BY DEF IsCurrent, IsProbed, SourceCurrent

\* What is stored of a source is loaded.
LEMMA SourceLoaded ==
    ASSUME NEW s, HasFields(s, SourceFields)
    PROVE  LET i == InitSource(s)
           IN  /\ HasFields(i, SourceFields) /\ i.type = s.type /\ i.settings = s.settings
               /\ i.inputs = s.inputs /\ i.streams = s.streams
<1> DEFINE defaults == [type |-> "", settings |-> Nothing, inputs |-> <<>>, streams |-> <<>>]
           i == Merged(s, defaults)
<1>1. InitSource(s) = i
  BY DEF InitSource
<1> HIDE DEF defaults
<1>2. \A f \in SourceFields : f \in DOMAIN i /\ i[f] = s[f]
  BY MergedFields DEF Merged, HasFields
<1> HIDE DEF i
<1> QED
  BY <1>1, <1>2 DEF HasFields, SourceFields

\* A source there is nothing of
LEMMA NoSource ==
    LET i == InitSource(Nothing)
    IN  HasFields(i, SourceFields) /\ i.type = "" /\ i.inputs = <<>>
<1> DEFINE defaults == [type |-> "", settings |-> Nothing, inputs |-> <<>>, streams |-> <<>>]
           i == Merged(Nothing, defaults)
<1>1. InitSource(Nothing) = i
  BY DEF InitSource
<1>2. DOMAIN Nothing = {}
  BY DEF Nothing
<1>3. DOMAIN defaults = SourceFields /\ defaults.type = "" /\ defaults.inputs = <<>>
  BY DEF SourceFields
<1> HIDE DEF defaults
<1>4. DOMAIN i = SourceFields /\ i.type = "" /\ i.inputs = <<>>
  <2>1. DOMAIN i = SourceFields
    BY <1>2, <1>3, MergedFields
  <2>2. \A f \in SourceFields : i[f] = defaults[f]
    BY <1>2, <1>3 DEF Merged
  <2> QED
    BY <1>3, <2>1, <2>2 DEF SourceFields
<1> QED
  BY <1>1, <1>4 DEF HasFields

\* The fields of a decoder are loaded as they are stored.
LEMMA DecoderLoaded ==
    ASSUME NEW d, IsDecoder(d), NEW coder
    PROVE  IsDecoder(InitCoder(d, coder))
<1> DEFINE defaults == [coder |-> coder, settings |-> Nothing, mapping |-> Nothing]
           c == Merged(d, defaults)
           m == InitMapping(c.mapping)
           q == [c EXCEPT !.mapping = m]
<1>1. InitCoder(d, coder) = q
  BY DEF InitCoder
<1> HIDE DEF defaults
<1>2. \A f \in {"coder", "settings", "mapping"} : f \in DOMAIN c /\ c[f] = d[f]
  BY MergedFields DEF Merged, IsDecoder, HasFields
<1> HIDE DEF c
<1>3. m = Merged(d.mapping, NoMapping)
  BY <1>2 DEF InitMapping, IsDecoder
<1>4. /\ HasFields(m, {"global", "local", "filter"}) /\ "array" \notin DOMAIN m
      /\ m.local = d.mapping.local
  <2>1. DOMAIN NoMapping = {"global", "local", "filter"}
    BY DEF NoMapping
  <2>2. DOMAIN m = DOMAIN d.mapping \cup DOMAIN NoMapping
    BY <1>3, MergedFields
  <2>3. m.local = d.mapping.local
    BY <1>3 DEF Merged, IsDecoder, HasFields
  <2> QED
    BY <2>1, <2>2, <2>3 DEF IsDecoder, HasFields
<1> HIDE DEF m
<1>5. HasFields(q, {"coder", "settings", "mapping"}) /\ q.coder = d.coder /\ q.mapping = m
  BY <1>2, Zenon DEF HasFields
<1> HIDE DEF q
<1> QED
  BY <1>1, <1>4, <1>5 DEF IsDecoder

\* What a decoder is that nothing is stored of
LEMMA NoDecoder == IsDecoder(InitCoder(Nothing, "default"))
<1> DEFINE defaults == [coder |-> "default", settings |-> Nothing, mapping |-> Nothing]
           c == Merged(Nothing, defaults)
           m == InitMapping(c.mapping)
           q == [c EXCEPT !.mapping = m]
<1>1. InitCoder(Nothing, "default") = q
  BY DEF InitCoder
<1>2. DOMAIN Nothing = {}
  BY DEF Nothing
<1>3. /\ DOMAIN defaults = {"coder", "settings", "mapping"} /\ defaults.coder = "default"
      /\ defaults.mapping = Nothing
  OBVIOUS
<1> HIDE DEF defaults
<1>4. DOMAIN c = {"coder", "settings", "mapping"} /\ c.coder = "default" /\ c.mapping = Nothing
  <2>3. DOMAIN c = DOMAIN Nothing \cup DOMAIN defaults
    BY MergedFields, Zenon
  <2>1. DOMAIN c = DOMAIN defaults
    BY <1>2, <2>3
  <2>2. \A f \in DOMAIN defaults : c[f] = defaults[f]
    BY <1>2 DEF Merged
  <2> QED
    BY <1>3, <2>1, <2>2
<1> HIDE DEF c
<1>5. m = Merged(Nothing, NoMapping)
  BY <1>2, <1>4 DEF InitMapping
<1>6. DOMAIN m = {"global", "local", "filter"} /\ m.local = <<>>
  <2>1. DOMAIN NoMapping = {"global", "local", "filter"} /\ NoMapping.local = <<>>
    BY DEF NoMapping
  <2>4. DOMAIN m = DOMAIN Nothing \cup DOMAIN NoMapping
    BY <1>5, MergedFields, Zenon
  <2>2. DOMAIN m = DOMAIN NoMapping
    BY <1>2, <2>4
  <2>3. m.local = NoMapping.local
    BY <1>2, <1>5, <2>1 DEF Merged
  <2> QED
    BY <2>1, <2>2, <2>3
<1> HIDE DEF m
<1>7. HasFields(q, {"coder", "settings", "mapping"}) /\ q.coder = "default" /\ q.mapping = m
  BY <1>4, Zenon DEF HasFields
<1> HIDE DEF q
<1>8. VideoDefault \in ToSet(Decoders.video) /\ VideoDefault.coder = "default"
  BY DecoderRegistry DEF VideoDefault, Decoder
<1>9. IsList(<<>>) /\ ToSet(<<>>) = {}
  BY NoOptions DEF Free
<1> QED
  BY <1>1, <1>6, <1>7, <1>8, <1>9 DEF IsDecoder, HasFields

-----------------------------------------------------------------------------
(* Loading *)

\* The decoder of the video or audio of a profile is loaded as it is stored.
LEMMA MediaLoaded ==
    ASSUME NEW m, HasFields(m, {"source", "decoder"}), IsDecoder(m.decoder)
    PROVE  LET q == InitMedia(m)
           IN  HasFields(q, {"source", "decoder"}) /\ q.source = m.source /\ IsDecoder(q.decoder)
<1> DEFINE defaults == [source |-> -1, stream |-> -1, encoder |-> Nothing,
                        decoder |-> Nothing, filter |-> Nothing]
           i == Merged(m, defaults)
           encoder == InitCoder(i.encoder, "none")
           decoder == InitCoder(i.decoder, "default")
           filter == InitFilter(i.filter)
           q == [i EXCEPT !.encoder = encoder, !.decoder = decoder, !.filter = filter]
<1>1. InitMedia(m) = q
  BY DEF InitMedia
<1> HIDE DEF defaults
<1>2. \A f \in {"source", "decoder"} : f \in DOMAIN i /\ i[f] = m[f]
  BY MergedFields DEF Merged, HasFields
<1>3. IsDecoder(decoder)
  BY <1>2, DecoderLoaded
<1> HIDE DEF i, encoder, decoder, filter
<1>4. HasFields(q, {"source", "decoder"}) /\ q.source = i.source /\ q.decoder = decoder
  BY <1>2, Zenon DEF HasFields
<1> HIDE DEF q
<1> QED
  BY <1>1, <1>2, <1>3, <1>4

\* What the video or audio of a profile is that nothing is stored of
LEMMA NoMedia ==
    LET q == InitMedia(Nothing)
    IN  HasFields(q, {"source", "decoder"}) /\ q.source = -1 /\ IsDecoder(q.decoder)
<1> DEFINE defaults == [source |-> -1, stream |-> -1, encoder |-> Nothing,
                        decoder |-> Nothing, filter |-> Nothing]
           i == Merged(Nothing, defaults)
           encoder == InitCoder(i.encoder, "none")
           decoder == InitCoder(i.decoder, "default")
           filter == InitFilter(i.filter)
           q == [i EXCEPT !.encoder = encoder, !.decoder = decoder, !.filter = filter]
<1>1. InitMedia(Nothing) = q
  BY DEF InitMedia
<1>2. DOMAIN Nothing = {}
  BY DEF Nothing
<1>3. {"source", "decoder"} \subseteq DOMAIN defaults /\ defaults.source = -1 /\ defaults.decoder = Nothing
  OBVIOUS
<1> HIDE DEF defaults
<1>4. DOMAIN i = DOMAIN Nothing \cup DOMAIN defaults
  BY MergedFields, Zenon
<1>5. {"source", "decoder"} \subseteq DOMAIN i /\ i.source = -1 /\ i.decoder = Nothing
  BY <1>2, <1>3, <1>4 DEF Merged
<1>6. IsDecoder(decoder)
  BY <1>5, NoDecoder
<1> HIDE DEF i, encoder, decoder, filter
<1>7. HasFields(q, {"source", "decoder"}) /\ q.source = i.source /\ q.decoder = decoder
  BY <1>5, Zenon DEF HasFields
<1> HIDE DEF q
<1> QED
  BY <1>1, <1>5, <1>6, <1>7

\* Loading keeps decoders, the source of the audio and the choice of the sound.
LEMMA ProfileLoaded ==
    ASSUME NEW p, HasDecoders(p), IsProfile(p)
    PROVE  LET q == InitProfile(p)
           IN  /\ HasDecoders(q) /\ q.audio.source = p.audio.source
               /\ q.custom.selected = p.custom.selected
<1> DEFINE defaults == [video |-> Nothing, audio |-> Nothing, custom |-> Nothing]
           i == Merged(p, defaults)
           audio == InitMedia(i.audio)
           video == InitMedia(i.video)
           chosen == [selected |-> audio.source = 1,
                      stream   |-> IF audio.source = 1 THEN -2 ELSE audio.stream]
           custom == Merged(i.custom, chosen)
           repaired == [video EXCEPT !.filter = RepairTimestamps(@)]
           q == [video |-> repaired, audio |-> audio, custom |-> custom]
<1>1. InitProfile(p) = q
  BY DEF InitProfile
<1> HIDE DEF defaults
<1>2. i.video = p.video /\ i.audio = p.audio /\ i.custom = p.custom
  BY DEF Merged, IsProfile
<1>3. /\ HasFields(p.video, {"source", "decoder"}) /\ IsDecoder(p.video.decoder)
      /\ HasFields(p.audio, {"source", "decoder"}) /\ IsDecoder(p.audio.decoder)
  BY DEF HasDecoders, HasFields, Media, IsProfile, IsMedia
<1>4. /\ HasFields(video, {"source", "decoder"}) /\ IsDecoder(video.decoder)
      /\ HasFields(audio, {"source", "decoder"}) /\ IsDecoder(audio.decoder)
      /\ audio.source = p.audio.source
  BY <1>2, <1>3, MediaLoaded
<1> HIDE DEF chosen
<1>5. custom.selected = p.custom.selected
  BY <1>2 DEF Merged, IsProfile
<1> HIDE DEF video, audio, custom
<1>6. HasFields(repaired, {"decoder"}) /\ repaired.decoder = video.decoder
  BY <1>4, Zenon DEF HasFields
<1> HIDE DEF repaired
<1>7. q.video = repaired /\ q.audio = audio /\ q.custom = custom
  OBVIOUS
<1> HIDE DEF q
<1>8. HasFields(audio, {"decoder"})
  BY <1>4 DEF HasFields
<1> QED
  BY <1>1, <1>4, <1>5, <1>6, <1>7, <1>8 DEF HasDecoders, Media

\* The profile there is nothing of
LEMMA NoProfile ==
    LET q == InitProfile(Nothing) IN HasDecoders(q) /\ q.custom.selected = FALSE
<1> DEFINE defaults == [video |-> Nothing, audio |-> Nothing, custom |-> Nothing]
           i == Merged(Nothing, defaults)
           audio == InitMedia(i.audio)
           video == InitMedia(i.video)
           chosen == [selected |-> audio.source = 1,
                      stream   |-> IF audio.source = 1 THEN -2 ELSE audio.stream]
           custom == Merged(i.custom, chosen)
           repaired == [video EXCEPT !.filter = RepairTimestamps(@)]
           q == [video |-> repaired, audio |-> audio, custom |-> custom]
<1>1. InitProfile(Nothing) = q
  BY DEF InitProfile
<1>2. DOMAIN Nothing = {}
  BY DEF Nothing
<1>3. /\ DOMAIN defaults = {"video", "audio", "custom"} /\ defaults.video = Nothing
      /\ defaults.audio = Nothing /\ defaults.custom = Nothing
  OBVIOUS
<1> HIDE DEF defaults
<1>4. i.video = Nothing /\ i.audio = Nothing /\ i.custom = Nothing
  BY <1>2, <1>3 DEF Merged
<1>5. /\ HasFields(video, {"source", "decoder"}) /\ IsDecoder(video.decoder)
      /\ HasFields(audio, {"source", "decoder"}) /\ IsDecoder(audio.decoder)
      /\ audio.source = -1
  BY <1>4, NoMedia
<1> HIDE DEF audio
<1>6. custom.selected = FALSE
  <2>2. ~(audio.source = 1)
    BY <1>5
  <2>1. "selected" \in DOMAIN chosen /\ chosen.selected = FALSE
    BY <2>2
  <2> HIDE DEF chosen
  <2> QED
    BY <1>2, <1>4, <2>1 DEF Merged
<1> HIDE DEF video, audio, custom
<1>7. HasFields(repaired, {"decoder"}) /\ repaired.decoder = video.decoder
  BY <1>5, Zenon DEF HasFields
<1> HIDE DEF repaired
<1>8. q.video = repaired /\ q.audio = audio /\ q.custom = custom
  OBVIOUS
<1> HIDE DEF q
<1>9. HasFields(audio, {"decoder"})
  BY <1>5 DEF HasFields
<1> QED
  BY <1>1, <1>5, <1>6, <1>7, <1>8, <1>9 DEF HasDecoders, Media

\* A profile in which neither decoders nor the choice of the sound changed.
SameDecoders(q, p) ==
    /\ DOMAIN q = DOMAIN p /\ q.custom = p.custom
    /\ \A type \in Media : /\ DOMAIN q[type] = DOMAIN p[type] /\ q[type].decoder = p[type].decoder
                           /\ q[type].source = p[type].source

\* So it still has decoders.
LEMMA DecodersKept ==
    ASSUME NEW p, NEW q, SameDecoders(q, p), HasDecoders(p)
    PROVE  HasDecoders(q)
BY DEF SameDecoders, HasDecoders, HasFields

\* The old settings of aresample are not those of a decoder.
LEMMA ResampledDecoders ==
    ASSUME NEW p, IsProfile(p), HasDecoders(p)
    PROVE  SameDecoders(Resampled(p), p)
<1>1. CASE p.audio.encoder.coder \in {"copy", "none"}
  BY <1>1 DEF Resampled, SameDecoders
<1>2. CASE p.audio.encoder.coder \notin {"copy", "none"}
  <2> DEFINE s == p.audio.encoder.settings
             old == {"layout", "sampling"}
             some == [f \in old |-> s[f]]
             graph == Resample(some)
             filter == [settings |-> [aresample |-> [settings |-> some, graph |-> graph]], graph |-> graph]
             rest == [f \in DOMAIN s \ old |-> s[f]]
             q == [p EXCEPT !.audio.filter = filter, !.audio.encoder.settings = rest]
  <2>1. Resampled(p) = q
    BY <1>2 DEF Resampled
  <2> HIDE DEF filter, rest
  <2>2. /\ {"video", "audio", "custom"} \subseteq DOMAIN p
        /\ {"source", "encoder", "decoder"} \subseteq DOMAIN p.audio
    BY DEF IsProfile, IsMedia, HasDecoders, HasFields, Media
  <2>3. DOMAIN q = DOMAIN p /\ q.custom = p.custom /\ q.video = p.video
    BY <2>2, Zenon
  <2>4. DOMAIN q.audio = DOMAIN p.audio /\ q.audio.source = p.audio.source /\ q.audio.decoder = p.audio.decoder
    BY <2>2, Zenon
  <2> HIDE DEF q
  <2> QED
    BY <2>1, <2>3, <2>4 DEF SameDecoders, Media
<1> QED
  BY <1>1, <1>2

\* A channel is loaded as up to date as it is stored.
LEMMA LoadedUpToDate ==
    ASSUME NEW meta, NEW ff, IsUpToDate(meta.sources, meta.profile, ff), IsProfile(meta.profile)
    PROVE  LET d == InitIngestMetadata(meta) IN IsUpToDate(d.sources, d.profile, ff)
<1> DEFINE d == InitIngestMetadata(meta)
           p == InitProfile(meta.profile)
<1>1. HasDecoders(meta.profile) /\ \A i \in DOMAIN meta.sources : HasFields(meta.sources[i], SourceFields)
  BY DEF IsUpToDate
<1>2. IsProfile(p)
  BY InitProfileFits, ProfileStored
<1>3. /\ HasDecoders(p) /\ p.audio.source = meta.profile.audio.source
      /\ p.custom.selected = meta.profile.custom.selected
  BY <1>1, ProfileLoaded
<1>4. d.profile = p \/ d.profile = Resampled(p)
  BY DEF InitIngestMetadata
<1>5. /\ DOMAIN d.sources = DOMAIN meta.sources
      /\ \A i \in DOMAIN meta.sources : d.sources[i] = InitSource(meta.sources[i])
  BY DEF InitIngestMetadata
<1> HIDE DEF p, d
<1>6. /\ HasDecoders(d.profile) /\ d.profile.audio.source = meta.profile.audio.source
      /\ d.profile.custom.selected = meta.profile.custom.selected
  <2>1. SameDecoders(Resampled(p), p)
    BY <1>2, <1>3, ResampledDecoders
  <2>2. HasDecoders(Resampled(p))
    BY <1>3, <2>1, DecodersKept
  <2> QED
    BY <1>3, <1>4, <2>1, <2>2 DEF SameDecoders, Media
<1>7. ASSUME NEW i \in DOMAIN meta.sources
      PROVE  /\ HasFields(d.sources[i], SourceFields) /\ d.sources[i].type = meta.sources[i].type
             /\ IsCurrent(meta.sources[i], ff) => IsCurrent(d.sources[i], ff)
             /\ IsProbed(meta.sources[i], ff) => IsProbed(d.sources[i], ff)
  BY <1>1, <1>5, SourceLoaded, SameSource
<1>8. IsUpToDate(d.sources, d.profile, ff)
  BY <1>5, <1>6, <1>7 DEF IsUpToDate
<1> QED
  BY <1>8 DEF d

-----------------------------------------------------------------------------
(* What is kept of the pages: CurrentInv is the inductive invariant. *)

\* What is edited of a channel
ProfileUpToDate(p, ff) ==
    /\ IsUpToDate(p.data.sources, p.data.profile, ff) /\ HasDecoders(p.profile)
    /\ HasFields(p.sources.video, SourceFields) /\ HasFields(p.sources.audio, SourceFields)
    /\ IsProbed(p.sources.video, ff)
    /\ p.profile.custom.selected =>
          /\ p.sources.audio.type # "noaudio"
          /\ p.astatus # "none" => IsCurrent(p.sources.audio, ff)
WizardUpToDate(p, ff) ==
    /\ HasDecoders(p.profile) /\ p.profile.custom.selected = FALSE
    /\ HasFields(p.sources.video, SourceFields) /\ HasFields(p.sources.audio, SourceFields)
    /\ IsProbed(p.sources.video, ff)
PageUpToDate(p, ff) ==
    /\ p.view = "edit" => IsUpToDate(p.data.sources, p.data.profile, ff)
    /\ p.view = "profile" => ProfileUpToDate(p, ff)
    /\ p.view = "wizard" => WizardUpToDate(p, ff)
CoreUpToDate ==
    LET stored == InitIngestMetadata(core.meta) IN IsUpToDate(stored.sources, stored.profile, env)
CurrentInv ==
    /\ CoreUpToDate /\ env.sources \subseteq DOMAIN SourceSettings
    /\ PageUpToDate(page, env) /\ InputsCurrent

\* A page on which nothing of that changed
LEMMA SameUpToDate ==
    ASSUME NEW a, NEW b, NEW ff, ProfileUpToDate(b, ff), a.data = b.data, a.sources = b.sources,
           a.astatus = b.astatus, HasDecoders(a.profile),
           a.profile.custom.selected = b.profile.custom.selected
    PROVE  ProfileUpToDate(a, ff)
BY DEF ProfileUpToDate

\* An encoder, a decoder or the filters of one part are set.
LEMMA PartUpToDate ==
    ASSUME NEW p, ProfilePage(p), NEW ff, ProfileUpToDate(p, ff), NEW type \in {"video", "audio"},
           NEW part \in {"encoder", "decoder", "filter"}, NEW x, part = "decoder" => IsDecoder(x)
    PROVE  ProfileUpToDate([p EXCEPT !.profile[type][part] = x], ff)
<1> DEFINE q == [p EXCEPT !.profile[type][part] = x]
<1>1. /\ {"profile", "data", "sources", "astatus"} \subseteq DOMAIN p
      /\ {"video", "audio", "custom"} \subseteq DOMAIN p.profile
  BY DEF ProfilePage, ProfileFields, IsProfile
<1>2. HasDecoders(p.profile)
  BY DEF ProfileUpToDate
<1>3. q.data = p.data /\ q.sources = p.sources /\ q.astatus = p.astatus
  BY <1>1, Zenon
<1>4. q.profile.custom = p.profile.custom
  BY <1>1, Zenon
<1>5. \A t \in Media : t # type => q.profile[t] = p.profile[t]
  BY <1>1, Zenon DEF Media
<1>6. DOMAIN q.profile[type] = DOMAIN p.profile[type]
  BY <1>1, Zenon
<1>7. part # "decoder" => q.profile[type].decoder = p.profile[type].decoder
  BY <1>1, <1>2, Zenon DEF HasDecoders, HasFields, Media
<1>8. part = "decoder" => q.profile[type].decoder = x
  BY <1>1, <1>2, Zenon DEF HasDecoders, HasFields, Media
<1> HIDE DEF q
<1>9. HasDecoders(q.profile)
  BY <1>2, <1>5, <1>6, <1>7, <1>8 DEF HasDecoders, HasFields
<1>10. ProfileUpToDate(q, ff)
  BY <1>3, <1>4, <1>9, SameUpToDate
<1> QED
  BY <1>10 DEF q

\* Mounting keeps the decoders.
LEMMA MountsUpToDate ==
    ASSUME NEW p, ProfilePage(p), ProfileUpToDate(p, env), NEW type \in {"video", "audio"}
    PROVE  /\ ProfileUpToDate(MountEncoder(p, type), env)
           /\ ProfileUpToDate(MountFilterSelect(p, type), env)
           /\ type = "video" => ProfileUpToDate(MountDecoder(p, type), env)
<1>1. ASSUME NEW x PROVE /\ ProfileUpToDate([p EXCEPT !.profile[type]["encoder"] = x], env)
                         /\ ProfileUpToDate([p EXCEPT !.profile[type]["filter"] = x], env)
  BY PartUpToDate
<1>2. ASSUME type = "video" PROVE ProfileUpToDate(MountDecoder(p, type), env)
  <2> DEFINE x == Handed(p.profile[type].decoder, Decoders[type], StreamUsed(p, type), env)
  <2>1. IsDecoder(p.profile[type].decoder)
    BY <1>2 DEF ProfileUpToDate, HasDecoders, Media
  <2>2. Decoders[type] = Decoders.video
    BY <1>2
  <2>3. IsDecoder(x)
    BY <2>1, <2>2, HandedDecodes
  <2>4. MountDecoder(p, type) = [p EXCEPT !.profile[type]["decoder"] = x]
    BY Zenon DEF MountDecoder
  <2> HIDE DEF x
  <2>5. ProfileUpToDate([p EXCEPT !.profile[type]["decoder"] = x], env)
    BY <2>3, PartUpToDate
  <2> QED
    BY <2>4, <2>5
<1> QED
  BY <1>1, <1>2, Zenon DEF MountEncoder, MountFilterSelect

\* Rendering keeps the page up to date: only decoders of a video are mounted.
LEMMA RenderedUpToDate ==
    ASSUME NEW q, ProfilePage(q), ProfileUpToDate(q, env), NEW before
    PROVE  ProfileUpToDate(Rendered(before, q), env)
<1> DEFINE new == Mounted(q) \ before
           Is(type, what) == \E m \in new : m[1] = type /\ m[2] = what
           Coded(p, type) ==
               LET d == IF Is(type, "decoder") THEN MountDecoder(p, type) ELSE p
                   e == IF Is(type, "encoder") THEN MountEncoder(d, type) ELSE d
               IN  IF Is(type, "filters") THEN MountFilterSelect(e, type) ELSE e
<1>0. ~Is("audio", "decoder")
  <2> SUFFICES ASSUME NEW m \in new, m[1] = "audio", m[2] = "decoder" PROVE FALSE
    OBVIOUS
  <2>5. ASSUME NEW t, NEW c, NEW o PROVE m # <<t, "encoder", c, o>> /\ m # <<t, "filters", c, o>>
    OBVIOUS
  <2>1. \A t : m # <<t, "encoder", q.profile[t].encoder.coder, OwnAudio(q)>>
    BY <2>5, Zenon
  <2>2. \A t : m # <<t, "filters", "", OwnAudio(q)>>
    BY <2>5, Zenon
  <2>3. \E t \in {"video", "audio"} :
           DecoderOnPage(q, t) /\ m = <<t, "decoder", q.profile[t].decoder.coder, OwnAudio(q)>>
    BY <2>1, <2>2, Zenon DEF Mounted
  <2>4. DecoderOnPage(q, "audio")
    BY <2>3
  <2> QED
    BY <2>4 DEF DecoderOnPage, DecoderShown
<1> HIDE DEF Is
<1>1. ASSUME NEW p, ProfilePage(p), ProfileUpToDate(p, env), NEW type \in {"video", "audio"}
      PROVE  ProfilePage(Coded(p, type)) /\ ProfileUpToDate(Coded(p, type), env)
  <2> DEFINE d == IF Is(type, "decoder") THEN MountDecoder(p, type) ELSE p
             e == IF Is(type, "encoder") THEN MountEncoder(d, type) ELSE d
             f == IF Is(type, "filters") THEN MountFilterSelect(e, type) ELSE e
  <2>1. ProfilePage(d) /\ ProfileUpToDate(d, env)
    BY <1>0, <1>1, MountsTyped, MountsUpToDate
  <2> HIDE DEF d
  <2>2. ProfilePage(e) /\ ProfileUpToDate(e, env)
    BY <2>1, MountsTyped, MountsUpToDate
  <2> HIDE DEF e
  <2>3. ProfilePage(f) /\ ProfileUpToDate(f, env)
    BY <2>2, MountsTyped, MountsUpToDate
  <2> QED
    BY <2>3 DEF d, e
<1> HIDE DEF Coded
<1>2. ProfileUpToDate(Coded(Coded(q, "video"), "audio"), env)
  BY <1>1
<1> QED
  BY <1>2 DEF Coded, Is, Rendered

\* Preselecting a stream keeps decoders.
LEMMA PreselectDecoders ==
    ASSUME NEW m, HasFields(m, {"decoder"}), NEW streams, NEW type, NEW codecs, NEW registry, NEW available
    PROVE  LET a == Preselect(m, streams, type, codecs, registry, available)
           IN  HasFields(a, {"decoder"}) /\ a.decoder = m.decoder
<1> DEFINE coder == IF First(streams, type) = -1 THEN "none"
                    ELSE PreselectCoder(registry, At(streams, First(streams, type)), codecs, available)
           a == [m EXCEPT !.stream = First(streams, type), !.encoder.coder = coder]
<1>1. Preselect(m, streams, type, codecs, registry, available) = a
  BY Zenon DEF Preselect
<1> HIDE DEF coder
<1>2. DOMAIN a = DOMAIN m /\ a.decoder = m.decoder
  BY Zenon DEF HasFields
<1> HIDE DEF a
<1> QED
  BY <1>1, <1>2 DEF HasFields

\* Another source keeps the decoder.
LEMMA SourceSetDecoders ==
    ASSUME NEW m, HasFields(m, {"decoder"}), NEW x
    PROVE  LET a == [m EXCEPT !.source = x] IN HasFields(a, {"decoder"}) /\ a.decoder = m.decoder
BY DEF HasFields

\* So does preselecting a profile, which may only end the choice of another sound.
LEMMA PreselectedDecoders ==
    ASSUME NEW p, IsProfile(p), HasDecoders(p), NEW streams, NEW encoders, NEW sound
    PROVE  LET q == PreselectProfile(streams, p, encoders, sound)
           IN  HasDecoders(q) /\ (q.custom.selected = p.custom.selected \/ q.custom.selected = FALSE)
<1> DEFINE preselected == Preselect(p.video, streams, "video", <<"h264">>, Encoders.video, encoders.video)
           source == IF preselected.stream = -1 THEN preselected.source ELSE 0
           v == IF VideoPlausible(streams, p.video) THEN p.video
                ELSE PreselectVideo(p.video, streams, encoders)
           a == PreselectAudio(p.audio, streams, encoders)
           audio == [a EXCEPT !.source = IF a.stream >= 0 THEN 0 ELSE a.source]
           custom == [selected |-> FALSE, stream |-> a.stream]
<1>1. /\ HasFields(p.video, {"decoder"}) /\ IsDecoder(p.video.decoder)
      /\ HasFields(p.audio, {"decoder"}) /\ IsDecoder(p.audio.decoder)
  BY DEF HasDecoders, Media
<1>2. HasFields(preselected, {"decoder"}) /\ preselected.decoder = p.video.decoder
  BY <1>1, PreselectDecoders
<1>3. PreselectVideo(p.video, streams, encoders) = [preselected EXCEPT !.source = source]
  BY DEF PreselectVideo
<1> HIDE DEF preselected, source
<1>4. HasFields(v, {"decoder"}) /\ IsDecoder(v.decoder)
  BY <1>1, <1>2, <1>3, SourceSetDecoders
<1>5. HasFields(a, {"decoder"}) /\ a.decoder = p.audio.decoder
  BY <1>1, PreselectDecoders DEF PreselectAudio
<1>6. PreselectProfile(streams, p, encoders, sound) =
         IF ~sound \/ AudioPlausible(streams, p.audio) THEN [p EXCEPT !.video = v]
         ELSE [video |-> v, audio |-> audio, custom |-> custom]
  BY DEF PreselectProfile
<1> HIDE DEF v, a
<1>7. HasFields(audio, {"decoder"}) /\ audio.decoder = p.audio.decoder
  BY <1>5, SourceSetDecoders
<1>8. custom.selected = FALSE
  OBVIOUS
<1> HIDE DEF audio, custom
<1> DEFINE one == [p EXCEPT !.video = v]
           both == [video |-> v, audio |-> audio, custom |-> custom]
<1>9. one.video = v /\ one.audio = p.audio /\ one.custom = p.custom
  BY Zenon DEF IsProfile
<1>10. both.video = v /\ both.audio = audio /\ both.custom = custom
  OBVIOUS
<1> HIDE DEF one, both
<1>11. HasDecoders(one) /\ one.custom.selected = p.custom.selected
  BY <1>1, <1>4, <1>9 DEF HasDecoders, Media
<1>12. HasDecoders(both) /\ both.custom.selected = FALSE
  BY <1>1, <1>4, <1>7, <1>8, <1>10 DEF HasDecoders, Media
<1> QED
  BY <1>6, <1>11, <1>12 DEF one, both

\* And the audio of another source.
LEMMA AudioDecoders ==
    ASSUME NEW p, IsProfile(p), HasDecoders(p), NEW streams, NEW encoders
    PROVE  LET q == PreselectAudioProfile(streams, p, encoders)
           IN  HasDecoders(q) /\ q.custom = p.custom
<1> DEFINE a == IF AudioPlausible(streams, p.audio) THEN p.audio
                ELSE PreselectAudio(p.audio, streams, encoders)
           audio == [a EXCEPT !.source = 1]
           q == [p EXCEPT !.audio = audio]
<1>1. /\ HasFields(p.video, {"decoder"}) /\ IsDecoder(p.video.decoder)
      /\ HasFields(p.audio, {"decoder"}) /\ IsDecoder(p.audio.decoder)
  BY DEF HasDecoders, Media
<1>2. HasFields(a, {"decoder"}) /\ a.decoder = p.audio.decoder
  BY <1>1, PreselectDecoders DEF PreselectAudio
<1>3. PreselectAudioProfile(streams, p, encoders) = q
  BY DEF PreselectAudioProfile
<1> HIDE DEF a
<1>4. HasFields(audio, {"decoder"}) /\ audio.decoder = p.audio.decoder
  BY <1>2, SourceSetDecoders
<1> HIDE DEF audio
<1>5. q.video = p.video /\ q.audio = audio /\ q.custom = p.custom
  BY Zenon DEF IsProfile
<1> HIDE DEF q
<1> QED
  BY <1>1, <1>3, <1>4, <1>5 DEF HasDecoders, Media

\* A step that leaves the Core alone, and the page as up to date as it was
Steady == UNCHANGED <<env, core>> /\ PageUpToDate(page', env)

LEMMA SteadyKeeps ==
    ASSUME CurrentInv, Steady
    PROVE  CurrentInv'
<1>1. CoreUpToDate' /\ (env.sources \subseteq DOMAIN SourceSettings)'
  BY DEF CurrentInv, Steady, CoreUpToDate
<1>2. InputsCurrent'
  BY DEF CurrentInv, Steady, InputsCurrent, Saved
<1>3. PageUpToDate(page, env)'
  BY DEF Steady
<1> QED
  BY <1>1, <1>2, <1>3 DEF CurrentInv

\* What a page of a profile has to be
LEMMA ProfileSteady ==
    ASSUME NEW q, ProfilePage(q), ProfileUpToDate(q, env), page' = q, UNCHANGED <<env, core>>
    PROVE  Steady
BY DEF Steady, PageUpToDate, ProfilePage

LEMMA ShownSteady ==
    ASSUME NEW q, ProfilePage(q), ProfileUpToDate(q, env), NEW before, page' = Rendered(before, q),
           UNCHANGED <<env, core>>
    PROVE  Steady
BY RenderedTyped, RenderedUpToDate, ProfileSteady

\* A probe makes the inputs of the settings.
LEMMA FreshCurrent ==
    ASSUME NEW source, source.type \in DOMAIN SourceSettings, NEW ff,
           source.inputs = CreateInputs(source.type, source.settings, ff)
    PROVE  IsCurrent(source, ff)
<1> DEFINE made == CreateInputs(source.type, source.settings, ff)
<1>1. AreInputs(made)
  BY InputsMade
<1>2. ASSUME NEW i \in DOMAIN made PROVE InputFits(made[i], made[i])
  <2>1. IsList(made[i].options)
    BY <1>1 DEF AreInputs, IsInput
  <2> DEFINE o == made[i].options
  <2> HIDE DEF o
  <2>2. Len(o) \in Nat /\ DOMAIN o = 1..Len(o)
    BY <2>1, ListType DEF o
  <2>3. \A j \in DOMAIN o : IF j <= Len(o) - Len(o) THEN o[j][1] \in DecoderOptions
                            ELSE o[j] = o[j - (Len(o) - Len(o))]
    BY <2>2
  <2> QED
    BY <2>2, <2>3 DEF InputFits, o
<1> HIDE DEF made
<1>3. SourceCurrent(source, ff)
  BY <1>2 DEF SourceCurrent, made
<1> QED
  BY <1>1, <1>3 DEF IsCurrent, made

\* The video source was probed, or described by hand: its inputs are those of its settings.
LEMMA ProbedVideoUpToDate ==
    ASSUME NEW p, ProfilePage(p), ProfileUpToDate(p, env), NEW type, NEW settings, NEW inputs,
           NEW streams, IsCurrent(ProbedSource(p.sources.video, type, settings, inputs, streams), env)
    PROVE  ProfileUpToDate(ProbedVideo(p, type, settings, inputs, streams), env)
<1> DEFINE first == p.sources.audio.type = ""
           hasAudio == "audio" \in Types(streams)
           muted == ~hasAudio /\ p.sources.audio.type \in {"", "videoaudio"}
           audioType == IF hasAudio /\ first THEN "videoaudio"
                        ELSE IF muted THEN "noaudio" ELSE p.sources.audio.type
           pre == PreselectProfile(streams, p.profile, env.encoders, first)
           custom == [selected |-> FALSE, stream |-> -1]
           silent == [pre EXCEPT !.audio.source = -1, !.audio.stream = -1, !.custom = custom]
           profile == IF muted THEN silent ELSE pre
           pseudo == (p.pseudo \cup {"noaudio", "sdp"} \cup {"videoaudio"})
                     \ (IF hasAudio THEN {} ELSE {"videoaudio"})
           video == ProbedSource(p.sources.video, type, settings, inputs, streams)
           old == AudioSource(p.sources)
           audio == [old EXCEPT !.type = audioType]
           sources == [video |-> video, audio |-> audio]
           asked == IF muted THEN "none" ELSE IF first THEN "video"
                    ELSE IF p.past.asked = "video" /\ First(streams, "audio") # p.profile.audio.stream
                         THEN "other" ELSE p.past.asked
           vstatus == AnalyzeStreams("video", streams)
           astatus == IF audioType = "noaudio" THEN "success" ELSE "none"
           q == [p EXCEPT !.profile = profile, !.pseudo = pseudo, !.sources = sources,
                          !.past.asked = asked, !.vstatus = vstatus, !.astatus = astatus]
<1>1. ProbedVideo(p, type, settings, inputs, streams) = q
  BY Zenon DEF ProbedVideo
<1>2. /\ IsProfile(p.profile) /\ HasDecoders(p.profile)
      /\ p.profile.custom.selected => p.sources.audio.type # "noaudio"
      /\ p.profile.custom.selected \in BOOLEAN
  BY DEF ProfilePage, ProfileUpToDate, IsProfile
<1> HIDE DEF first
<1>13. IsProfile(pre)
  BY <1>2, ProfilePreselected
<1>14. /\ HasDecoders(pre)
       /\ (pre.custom.selected = p.profile.custom.selected \/ pre.custom.selected = FALSE)
  BY <1>2, PreselectedDecoders
<1> HIDE DEF pre
<1>3. /\ HasDecoders(pre) /\ IsProfile(pre)
      /\ (pre.custom.selected = p.profile.custom.selected \/ pre.custom.selected = FALSE)
  BY <1>13, <1>14
<1>4. HasDecoders(silent) /\ silent.custom.selected = FALSE
  <2>1. custom.selected = FALSE
    OBVIOUS
  <2> HIDE DEF custom
  <2>2. /\ {"video", "audio", "custom"} \subseteq DOMAIN pre
        /\ {"source", "stream", "decoder"} \subseteq DOMAIN pre.audio
    BY <1>3 DEF IsProfile, IsMedia, HasDecoders, HasFields, Media
  <2>3. silent.video = pre.video /\ silent.custom = custom
    BY <2>2, Zenon
  <2>4. DOMAIN silent.audio = DOMAIN pre.audio /\ silent.audio.decoder = pre.audio.decoder
    BY <2>2, Zenon
  <2> HIDE DEF silent
  <2> QED
    BY <1>3, <2>1, <2>3, <2>4 DEF HasDecoders, HasFields, Media
<1> HIDE DEF silent
<1>5. HasDecoders(profile) /\ (profile.custom.selected => p.profile.custom.selected /\ ~muted)
  BY <1>2, <1>3, <1>4
<1>6. profile.custom.selected => audioType # "noaudio" /\ astatus = "none"
  BY <1>2, <1>5
<1>7. /\ HasFields(video, SourceFields) /\ HasFields(audio, SourceFields)
      /\ audio.type = audioType
  <2>1. HasFields(video, SourceFields)
    BY DEF ProbedSource, HasFields, SourceFields
  <2>2. HasFields(old, SourceFields)
    BY SourceLoaded DEF AudioSource, ProfileUpToDate
  <2> HIDE DEF old, audioType
  <2>3. DOMAIN audio = DOMAIN old /\ audio.type = audioType
    BY <2>2, Zenon DEF HasFields, SourceFields
  <2> QED
    BY <2>1, <2>2, <2>3 DEF HasFields
<1>8. IsProbed(video, env)
  BY DEF IsProbed
<1> HIDE DEF video, audio
<1>9. sources.video = video /\ sources.audio = audio
  OBVIOUS
<1> HIDE DEF profile, pseudo, sources, asked, vstatus, astatus, audioType
<1>10. ProfileFields \subseteq DOMAIN p
  BY DEF ProfilePage
<1>11. q.profile = profile /\ q.sources = sources /\ q.astatus = astatus /\ q.data = p.data
  BY <1>10, Zenon DEF ProfileFields
<1> HIDE DEF q
<1>12. ProfileUpToDate(q, env)
  BY <1>5, <1>6, <1>7, <1>8, <1>9, <1>11 DEF ProfileUpToDate
<1> QED
  BY <1>1, <1>12

\* So was the audio source.
LEMMA ProbedAudioUpToDate ==
    ASSUME NEW p, ProfilePage(p), ProfileUpToDate(p, env), NEW type, NEW settings, NEW inputs,
           NEW streams, IsCurrent(ProbedSource(p.sources.audio, type, settings, inputs, streams), env)
    PROVE  ProfileUpToDate(ProbedAudio(p, type, settings, inputs, streams), env)
<1> DEFINE profile == PreselectAudioProfile(streams, p.profile, env.encoders)
           source == ProbedSource(p.sources.audio, type, settings, inputs, streams)
           status == AnalyzeStreams("audio", streams)
           q == [p EXCEPT !.profile = profile, !.sources.audio = source, !.astatus = status]
<1>1. ProbedAudio(p, type, settings, inputs, streams) = q
  BY Zenon DEF ProbedAudio
<1>2. HasDecoders(profile) /\ profile.custom = p.profile.custom
  BY AudioDecoders DEF ProfilePage, ProfileUpToDate
<1>3. HasFields(source, SourceFields)
  BY DEF ProbedSource, HasFields, SourceFields
<1>4. source.type # "noaudio"
  BY DEF IsCurrent, SourceSettings
<1> HIDE DEF profile, source, status
<1>5. ProfileFields \subseteq DOMAIN p /\ {"video", "audio"} \subseteq DOMAIN p.sources
  BY DEF ProfilePage, IsPair
<1>6. q.profile = profile /\ q.data = p.data
  BY <1>5, Zenon DEF ProfileFields
<1>7. q.sources = [p.sources EXCEPT !.audio = source]
  BY <1>5, Zenon DEF ProfileFields
<1> HIDE DEF q
<1>8. q.sources.video = p.sources.video /\ q.sources.audio = source
  BY <1>5, <1>7
<1>9. IsCurrent(source, env)
  BY DEF source
<1>10. ProfileUpToDate(q, env)
  BY <1>2, <1>3, <1>4, <1>6, <1>8, <1>9 DEF ProfileUpToDate
<1> QED
  BY <1>1, <1>10

\* ProbeVideo, ProbeAudio and Hint
LEMMA ProbesSteady ==
    ASSUME TypeInv, CurrentInv, NEW type, NEW settings, NEW streams,
           \/ ProbeVideo(type, settings, streams) \/ ProbeAudio(settings, streams)
           \/ Hint(type)
    PROVE  Steady
<1>0. page.view = "profile" /\ ProfilePage(page) /\ ProfileUpToDate(page, env)
  BY PageOf DEF ProbeVideo, ProbeAudio, Hint, CurrentInv, PageUpToDate
<1>1. CASE ProbeVideo(type, settings, streams)
  <2> DEFINE inputs == CreateInputs(type, settings, env)
             source == ProbedSource(page.sources.video, type, settings, inputs, streams)
             q == ProbedVideo(page, type, settings, inputs, streams)
  <2>1. type \in DOMAIN SourceSettings
    <3>1. "sdp" \in DOMAIN SourceSettings
      BY DEF SourceSettings
    <3> QED
      BY <1>1, <3>1 DEF ProbeVideo, CurrentInv
  <2>2. source.type = type /\ source.settings = settings /\ source.inputs = inputs
    BY DEF ProbedSource
  <2>3. page' = Rendered({}, q) /\ UNCHANGED <<env, core>>
    BY <1>1 DEF ProbeVideo
  <2> HIDE DEF source
  <2>4. IsCurrent(source, env)
    BY <2>1, <2>2, FreshCurrent
  <2> HIDE DEF inputs
  <2>5. ProfilePage(q) /\ ProfileUpToDate(q, env)
    BY <1>0, <2>4, ProbedVideoTyped, ProbedVideoUpToDate DEF source
  <2> HIDE DEF q
  <2> QED
    BY <2>3, <2>5, ShownSteady
<1>2. CASE ProbeAudio(settings, streams)
  <2> DEFINE t == page.sources.audio.type
             inputs == CreateInputs(t, settings, env)
             source == ProbedSource(page.sources.audio, t, settings, inputs, streams)
             q == ProbedAudio(page, t, settings, inputs, streams)
  <2>1. t \in DOMAIN SourceSettings
    BY <1>2 DEF ProbeAudio, CurrentInv
  <2>2. source.type = t /\ source.settings = settings /\ source.inputs = inputs
    BY DEF ProbedSource
  <2>3. page' = Rendered({}, q) /\ UNCHANGED <<env, core>>
    BY <1>2 DEF ProbeAudio
  <2> HIDE DEF source
  <2>4. IsCurrent(source, env)
    BY <2>1, <2>2, FreshCurrent
  <2> HIDE DEF inputs, t
  <2>5. ProfilePage(q) /\ ProfileUpToDate(q, env)
    BY <1>0, <2>4, ProbedAudioTyped, ProbedAudioUpToDate DEF source
  <2> HIDE DEF q
  <2> QED
    BY <2>3, <2>5, ShownSteady
<1>3. CASE Hint(type)
  <2> DEFINE s == page.sources[type]
             video == << [type |-> "video", codec |-> "h264", index |-> 0, stream |-> 0] >>
             audio == << [type |-> "audio", codec |-> "aac", index |-> 1, stream |-> 0] >>
             v == ProbedVideo(page, s.type, s.settings, s.inputs, video)
             a == ProbedAudio(page, s.type, s.settings, s.inputs, audio)
  <2>1. /\ s.inputs # <<>>
        /\ \/ type = "video" /\ Show(v)
           \/ type = "audio" /\ OwnAudio(page) /\ page.astatus = "error" /\ Show(a)
    BY <1>3, Zenon DEF Hint
  <2>2. IsCurrent(s, env)
    BY <1>0, <2>1 DEF ProfileUpToDate, IsProbed, OwnAudio
  <2> HIDE DEF s, video, audio
  <2>3. IsCurrent(ProbedSource(page.sources.video, s.type, s.settings, s.inputs, video), env)
    BY <2>2, SameSource DEF ProbedSource
  <2>4. IsCurrent(ProbedSource(page.sources.audio, s.type, s.settings, s.inputs, audio), env)
    BY <2>2, SameSource DEF ProbedSource
  <2>5. ProfilePage(v) /\ ProfilePage(a) /\ ProfileUpToDate(v, env) /\ ProfileUpToDate(a, env)
    BY <1>0, <2>3, <2>4, ProbedVideoTyped, ProbedAudioTyped, ProbedVideoUpToDate, ProbedAudioUpToDate
  <2> HIDE DEF v, a
  <2> QED
    BY <2>1, <2>5, ShownSteady DEF Show
<1> QED
  BY <1>1, <1>2, <1>3

-----------------------------------------------------------------------------
(* The steps of the profile *)

\* The page of the profile, of which nothing that matters here changed
LEMMA EventSteady ==
    ASSUME NEW q, ProfilePage(q), ProfileUpToDate(q, env), Show(q)
    PROVE  Steady
BY ShownSteady DEF Show

\* ChangeVideoSource, NextStep and BackStep
LEMMA StepsSteady ==
    ASSUME TypeInv, CurrentInv, ChangeVideoSource \/ NextStep \/ BackStep
    PROVE  Steady
<1>0. ProfilePage(page) /\ ProfileUpToDate(page, env)
  BY PageOf DEF ChangeVideoSource, NextStep, BackStep, CurrentInv, PageUpToDate
<1>1. ASSUME NEW x \in Statuses
      PROVE  LET q == [page EXCEPT !.vstatus = x] IN ProfilePage(q) /\ ProfileUpToDate(q, env)
  <2> DEFINE q == [page EXCEPT !.vstatus = x]
  <2>1. ProfilePage(q)
    BY <1>0, <1>1 DEF ProfilePage, ProfileFields
  <2>2. /\ q.data = page.data /\ q.sources = page.sources /\ q.astatus = page.astatus
        /\ q.profile = page.profile
    BY <1>0 DEF ProfilePage, ProfileFields
  <2> HIDE DEF q
  <2>3. ProfileUpToDate(q, env)
    BY <1>0, <2>2 DEF ProfileUpToDate
  <2> QED
    BY <2>1, <2>3 DEF q
<1>2. ASSUME NEW x \in {0, 1}
      PROVE  LET q == [page EXCEPT !.step = x] IN ProfilePage(q) /\ ProfileUpToDate(q, env)
  <2> DEFINE q == [page EXCEPT !.step = x]
  <2>1. ProfilePage(q)
    BY <1>0, <1>2 DEF ProfilePage, ProfileFields
  <2>2. /\ q.data = page.data /\ q.sources = page.sources /\ q.astatus = page.astatus
        /\ q.profile = page.profile
    BY <1>0 DEF ProfilePage, ProfileFields
  <2> HIDE DEF q
  <2>3. ProfileUpToDate(q, env)
    BY <1>0, <2>2 DEF ProfileUpToDate
  <2> QED
    BY <2>1, <2>3 DEF q
<1>3. CASE ChangeVideoSource
  BY <1>1, <1>3, EventSteady DEF ChangeVideoSource, Statuses
<1>4. CASE NextStep
  BY <1>2, <1>4, EventSteady DEF NextStep
<1>5. CASE BackStep
  BY <1>2, <1>5, EventSteady DEF BackStep
<1> QED
  BY <1>3, <1>4, <1>5

\* Another audio source has to be probed again.
LEMMA SelectedUpToDate ==
    ASSUME NEW p, ProfilePage(p), NEW ff, ProfileUpToDate(p, ff), NEW type
    PROVE  ProfileUpToDate(SelectedAudio(p, type), ff)
<1> DEFINE i == First(p.sources.video.streams, "audio")
           own == type \notin {"noaudio", "videoaudio"}
           asked == IF own THEN "own" ELSE IF type = "noaudio" THEN "none" ELSE "video"
           custom == [selected |-> own,
                      stream |-> IF own THEN -2 ELSE IF type = "noaudio" THEN -1 ELSE i]
           source == IF own THEN 1 ELSE IF type = "noaudio" THEN -1 ELSE 0
           stream == IF type = "videoaudio" THEN i ELSE -1
           s == [p EXCEPT !.sources.audio.type = type, !.past.asked = asked,
                          !.profile.custom = custom, !.profile.audio.source = source,
                          !.profile.audio.stream = stream]
           q == [s EXCEPT !.astatus = "none"]
<1>1. SelectedAudio(p, type) = q
  BY Zenon DEF SelectedAudio, SelectedAudio_KeepsStatus
<1>2. custom.selected => type # "noaudio"
  OBVIOUS
<1> HIDE DEF asked, custom, source, stream
<1>3. /\ ProfileFields \subseteq DOMAIN p
      /\ {"video", "audio"} \subseteq DOMAIN p.sources
      /\ {"video", "audio", "custom"} \subseteq DOMAIN p.profile
      /\ HasFields(p.sources.audio, SourceFields) /\ "type" \in DOMAIN p.sources.audio
      /\ HasFields(p.profile.audio, {"decoder"}) /\ "decoder" \in DOMAIN p.profile.audio
      /\ HasDecoders(p.profile)
  BY DEF ProfilePage, IsPair, IsProfile, ProfileUpToDate, HasFields, SourceFields, HasDecoders, Media
<1>4. s.data = p.data /\ DOMAIN s = DOMAIN p
  BY <1>3, Zenon DEF ProfileFields
<1>5. s.sources.video = p.sources.video
  BY <1>3, Zenon DEF ProfileFields
<1>6. DOMAIN s.sources.audio = DOMAIN p.sources.audio /\ s.sources.audio.type = type
  BY <1>3, Zenon DEF ProfileFields
<1>7. s.profile.video = p.profile.video /\ s.profile.custom = custom
  BY <1>3, Zenon DEF ProfileFields
<1>8. DOMAIN s.profile.audio = DOMAIN p.profile.audio
  BY <1>3, Zenon DEF ProfileFields
<1>9. s.profile.audio.decoder = p.profile.audio.decoder
  BY <1>3, Zenon DEF ProfileFields
<1> HIDE DEF s
<1>10. /\ q.data = s.data /\ q.sources = s.sources /\ q.profile = s.profile
       /\ q.astatus = "none"
  BY <1>3, <1>4 DEF ProfileFields
<1> HIDE DEF q
<1>11. HasDecoders(q.profile)
  BY <1>3, <1>7, <1>8, <1>9, <1>10 DEF HasDecoders, HasFields, Media
<1>12. HasFields(q.sources.audio, SourceFields) /\ q.sources.video = p.sources.video
  BY <1>3, <1>5, <1>6, <1>10 DEF HasFields
<1>13. q.profile.custom.selected => q.sources.audio.type # "noaudio"
  BY <1>2, <1>6, <1>7, <1>10
<1>14. ProfileUpToDate(q, ff)
  BY <1>4, <1>10, <1>11, <1>12, <1>13 DEF ProfileUpToDate
<1> QED
  BY <1>1, <1>14

\* Another stream of the same source
LEMMA StreamUpToDate ==
    ASSUME NEW p, ProfilePage(p), NEW ff, ProfileUpToDate(p, ff), NEW type \in {"video", "audio"},
           NEW i, NEW asked, NEW chosen
    PROVE  ProfileUpToDate([p EXCEPT !.profile[type].stream = i, !.past.asked = asked,
                                     !.profile.custom.stream = chosen], ff)
<1> DEFINE q == [p EXCEPT !.profile[type].stream = i, !.past.asked = asked,
                          !.profile.custom.stream = chosen]
<1>1. /\ ProfileFields \subseteq DOMAIN p
      /\ {"video", "audio", "custom"} \subseteq DOMAIN p.profile
      /\ "selected" \in DOMAIN p.profile.custom
      /\ "decoder" \in DOMAIN p.profile.video /\ "decoder" \in DOMAIN p.profile.audio
  BY DEF ProfilePage, IsProfile, ProfileUpToDate, HasDecoders, HasFields, Media
<1>2. HasDecoders(p.profile)
  BY DEF ProfileUpToDate
<1>3. DOMAIN q.profile = DOMAIN p.profile /\ type # "custom"
  BY <1>1, Zenon DEF ProfileFields
<1>4. q.profile.custom.selected = p.profile.custom.selected
  BY <1>1, <1>3, Zenon DEF ProfileFields
<1>5. DOMAIN q.profile.video = DOMAIN p.profile.video /\ q.profile.video.decoder = p.profile.video.decoder
  <2>1. CASE type = "video"
    BY <1>1, <2>1, Zenon DEF ProfileFields
  <2>2. CASE type = "audio"
    BY <1>1, <2>2, Zenon DEF ProfileFields
  <2> QED
    BY <2>1, <2>2
<1>6. DOMAIN q.profile.audio = DOMAIN p.profile.audio /\ q.profile.audio.decoder = p.profile.audio.decoder
  <2>1. CASE type = "video"
    BY <1>1, <2>1, Zenon DEF ProfileFields
  <2>2. CASE type = "audio"
    BY <1>1, <2>2, Zenon DEF ProfileFields
  <2> QED
    BY <2>1, <2>2
<1>7. q.data = p.data /\ q.astatus = p.astatus /\ q.sources = p.sources
  BY <1>1, Zenon DEF ProfileFields
<1> HIDE DEF q
<1>8. HasDecoders(q.profile)
  BY <1>2, <1>5, <1>6 DEF HasDecoders, HasFields, Media
<1>9. ProfileUpToDate(q, ff)
  BY <1>4, <1>7, <1>8, SameUpToDate
<1> QED
  BY <1>9 DEF q

\* SelectAudio and SelectStream
LEMMA SelectsSteady ==
    ASSUME TypeInv, CurrentInv, NEW type, NEW t \in {"video", "audio"}, NEW i,
           SelectAudio(type) \/ SelectStream(t, i)
    PROVE  Steady
<1>0. ProfilePage(page) /\ ProfileUpToDate(page, env)
  BY PageOf DEF SelectAudio, SelectStream, CurrentInv, PageUpToDate
<1>1. CASE SelectAudio(type)
  <2>1. ProfilePage(SelectedAudio(page, type)) /\ ProfileUpToDate(SelectedAudio(page, type), env)
    BY <1>0, SelectedTyped, SelectedUpToDate
  <2> QED
    BY <1>1, <2>1, EventSteady DEF SelectAudio
<1>2. CASE SelectStream(t, i)
  <2> DEFINE asked == IF t = "audio" /\ page.past.asked = "other" THEN "video" ELSE page.past.asked
             chosen == IF t = "audio" /\ ~OwnAudio(page) THEN i ELSE page.profile.custom.stream
             q == [page EXCEPT !.profile[t].stream = i, !.past.asked = asked,
                               !.profile.custom.stream = chosen]
  <2>2. asked \in Kinds
    BY <1>0 DEF ProfilePage, IsPast, Kinds
  <2>3. Show(q)
    <3>1. Show([page EXCEPT !.profile[t].stream = i,
                         !.past.asked = IF t = "audio" /\ @ = "other" THEN "video" ELSE @,
                         !.profile.custom.stream =
                            IF t = "audio" /\ ~OwnAudio(page) THEN i ELSE @])
      BY <1>2, Zenon DEF SelectStream
    <3>2. [page EXCEPT !.profile[t].stream = i,
                         !.past.asked = IF t = "audio" /\ @ = "other" THEN "video" ELSE @,
                         !.profile.custom.stream =
                            IF t = "audio" /\ ~OwnAudio(page) THEN i ELSE @] = q
      OBVIOUS
    <3> QED
      BY <3>1, <3>2
  <2> HIDE DEF asked, chosen
  <2>4. ProfilePage(q) /\ ProfileUpToDate(q, env)
    BY <1>0, <2>2, StreamTyped, StreamUpToDate
  <2> HIDE DEF q
  <2> QED
    BY <2>3, <2>4, EventSteady
<1> QED
  BY <1>1, <1>2

\* ChangeEncoder, ChangeDecoder, ChangeKeyFrames and ChangeFilterSettings
LEMMA CodersSteady ==
    ASSUME TypeInv, CurrentInv, NEW type \in {"video", "audio"}, NEW coder, NEW gop, NEW f, NEW s,
           \/ ChangeEncoder(type, coder) \/ ChangeDecoder(coder) \/ ChangeKeyFrames(gop)
           \/ ChangeFilterSettings(type, f, s)
    PROVE  Steady
<1>0. ProfilePage(page) /\ ProfileUpToDate(page, env)
  BY PageOf DEF ChangeEncoder, ChangeDecoder, ChangeKeyFrames, ChangeFilterSettings, CurrentInv, PageUpToDate
<1>1. ASSUME NEW t \in {"video", "audio"}, NEW part \in {"encoder", "decoder", "filter"}, NEW x,
             Show([page EXCEPT !.profile[t][part] = x]), part = "decoder" => IsDecoder(x)
      PROVE  Steady
  <2>1. /\ ProfilePage([page EXCEPT !.profile[t][part] = x])
        /\ ProfileUpToDate([page EXCEPT !.profile[t][part] = x], env)
    BY <1>0, <1>1, PartSet, PartUpToDate
  <2> QED
    BY <1>1, <2>1, EventSteady
<1>2. CASE ChangeEncoder(type, coder)
  <2> DEFINE x == WithDefaults(Get(Encoders[type], coder), StreamUsed(page, type), env)
  <2>1. Show([page EXCEPT !.profile[type].encoder = x])
    BY <1>2, Zenon DEF ChangeEncoder
  <2> HIDE DEF x
  <2> QED
    BY <2>1, <1>1
<1>3. CASE ChangeDecoder(coder)
  <2> DEFINE x == WithDefaults(Get(Decoders.video, coder), StreamUsed(page, "video"), env)
  <2>1. Show([page EXCEPT !.profile.video.decoder = x])
    BY <1>3, Zenon DEF ChangeDecoder
  <2>2. IsDecoder(x)
    BY <1>3, DefaultsDecode DEF ChangeDecoder
  <2> HIDE DEF x
  <2> QED
    BY <2>1, <2>2, <1>1
<1>4. CASE ChangeKeyFrames(gop)
  <2> DEFINE x == WithKeyFrames(page.profile.video.encoder, gop, StreamUsed(page, "video"), env)
  <2>1. Show([page EXCEPT !.profile.video.encoder = x])
    BY <1>4, Zenon DEF ChangeKeyFrames
  <2> HIDE DEF x
  <2> QED
    BY <2>1, <1>1
<1>5. CASE ChangeFilterSettings(type, f, s)
  <2> DEFINE x == ChangeFilter(page.profile[type].filter, type, f, s)
  <2>1. Show([page EXCEPT !.profile[type].filter = x])
    BY <1>5, Zenon DEF ChangeFilterSettings
  <2> HIDE DEF x
  <2> QED
    BY <2>1, <1>1
<1> QED
  BY <1>2, <1>3, <1>4, <1>5

-----------------------------------------------------------------------------
(* The steps of the page itself *)

\* A page on which a channel can be saved
LEMMA EditSteady ==
    ASSUME page'.view = "edit", IsUpToDate(page'.data.sources, page'.data.profile, env),
           UNCHANGED <<env, core>>
    PROVE  Steady
BY DEF Steady, PageUpToDate

\* An empty page
LEMMA EmptySteady ==
    ASSUME page' = Closed \/ page' = Stuck, UNCHANGED <<env, core>>
    PROVE  Steady
BY DEF Steady, PageUpToDate, Closed, Stuck

\* Cleaning up a profile sets the sources.
LEMMA CleanedDecoders ==
    ASSUME NEW p, IsProfile(p), HasDecoders(p)
    PROVE  LET q == CleanupProfile(p)
           IN  /\ HasDecoders(q) /\ q.custom = p.custom
               /\ q.audio.source = 1 => p.custom.selected
<1> DEFINE video == IF p.video.stream = -1 THEN -1 ELSE 0
           audio == IF p.audio.stream = -1 THEN -1 ELSE IF p.custom.selected THEN 1 ELSE 0
           q == [p EXCEPT !.video.source = video, !.audio.source = audio]
<1>1. CleanupProfile(p) = q
  BY Zenon DEF CleanupProfile
<1>2. audio = 1 => p.custom.selected
  OBVIOUS
<1> HIDE DEF video, audio
<1>3. /\ {"video", "audio", "custom"} \subseteq DOMAIN p
      /\ {"source", "decoder"} \subseteq DOMAIN p.video
      /\ {"source", "decoder"} \subseteq DOMAIN p.audio
  BY DEF IsProfile, IsMedia, HasDecoders, HasFields, Media
<1>4. q.custom = p.custom
  BY <1>3, Zenon
<1>5. DOMAIN q.video = DOMAIN p.video /\ q.video.decoder = p.video.decoder
  BY <1>3, Zenon
<1>6. DOMAIN q.audio = DOMAIN p.audio /\ q.audio.decoder = p.audio.decoder
  BY <1>3, Zenon
<1>7. q.audio.source = audio
  BY <1>3, Zenon
<1> HIDE DEF q
<1>8. HasDecoders(q)
  BY <1>5, <1>6 DEF HasDecoders, HasFields, Media
<1> QED
  BY <1>1, <1>2, <1>4, <1>7, <1>8

\* Both sources and a profile that is cleaned up
LEMMA BothUpToDate ==
    ASSUME NEW video, HasFields(video, SourceFields), NEW audio, HasFields(audio, SourceFields),
           NEW p, IsProfile(p), HasDecoders(p), NEW ff, IsProbed(video, ff),
           p.custom.selected => IsCurrent(audio, ff) /\ audio.type # "noaudio"
    PROVE  IsUpToDate(<<video, audio>>, CleanupProfile(p), ff)
<1> DEFINE q == CleanupProfile(p)
           sources == <<video, audio>>
<1>1. HasDecoders(q) /\ q.custom = p.custom /\ (q.audio.source = 1 => p.custom.selected)
  BY CleanedDecoders
<1>2. DOMAIN sources = {1, 2} /\ sources[1] = video /\ sources[2] = audio
  OBVIOUS
<1> HIDE DEF q, sources
<1>3. IsUpToDate(sources, q, ff)
  BY <1>1, <1>2 DEF IsUpToDate
<1> QED
  BY <1>3 DEF q, sources

\* The profile is done: sound of its own was probed.
LEMMA FinishSteady ==
    ASSUME TypeInv, CurrentInv, Finish
    PROVE  Steady
<1> DEFINE sources == <<page.sources.video, page.sources.audio>>
           profile == CleanupProfile(page.profile)
           complete == ValidateProfile(sources, profile)
           streams == CreateOutputStreams(sources, profile)
           data == [page.data EXCEPT !.sources = sources, !.profile = profile, !.streams = streams]
<1>1. ProfilePage(page) /\ ProfileUpToDate(page, env)
  BY PageOf DEF Finish, CurrentInv, PageUpToDate
<1>2. /\ page' = [view |-> "edit", pseudo |-> page.pseudo, past |-> page.past,
                  complete |-> complete, data |-> data]
      /\ UNCHANGED <<env, core>>
  BY Zenon DEF Finish
<1>3. page.profile.custom.selected => page.astatus = "success"
  BY DEF Finish, FinishPossible, OwnAudio
<1>4. IsUpToDate(sources, profile, env)
  BY <1>1, <1>3, BothUpToDate DEF ProfileUpToDate, ProfilePage
<1> HIDE DEF sources, profile, streams, complete
<1>5. {"sources", "profile"} \subseteq DOMAIN page.data
  BY <1>1 DEF ProfilePage, IsData
<1>6. data.sources = sources /\ data.profile = profile
  BY <1>5
<1> HIDE DEF data
<1>7. page'.view = "edit" /\ page'.data = data
  BY <1>2
<1> QED
  BY <1>2, <1>4, <1>6, <1>7, EditSteady

\* The profile is abandoned: filters are no decoders.
LEMMA AbortSteady ==
    ASSUME TypeInv, CurrentInv, Abort
    PROVE  Steady
<1> DEFINE video == page.profile.video.filter.settings
           audio == page.profile.audio.filter.settings
           old == page.data.profile
           data == [page.data EXCEPT !.profile.video.filter.settings = video,
                                     !.profile.audio.filter.settings = audio]
<1>1. ProfilePage(page) /\ ProfileUpToDate(page, env)
  BY PageOf DEF Abort, CurrentInv, PageUpToDate
<1>2. page'.view = "edit" /\ page'.data = data /\ UNCHANGED <<env, core>>
  <2>1. Abandoned(page) = data
    BY Zenon DEF Abandoned
  <2> HIDE DEF data
  <2> QED
    BY <2>1 DEF Abort
<1>3. IsUpToDate(page.data.sources, old, env)
  BY <1>1 DEF ProfileUpToDate
<1>4. /\ {"sources", "profile"} \subseteq DOMAIN page.data
      /\ {"video", "audio", "custom"} \subseteq DOMAIN page.data.profile
      /\ {"source", "decoder"} \subseteq DOMAIN page.data.profile.video
      /\ {"source", "decoder"} \subseteq DOMAIN page.data.profile.audio
  BY <1>1, <1>3 DEF ProfilePage, IsData, IsProfile, IsMedia, IsUpToDate, HasDecoders, HasFields, Media
<1> HIDE DEF video, audio, old
<1>5. data.sources = page.data.sources /\ data.profile.custom = page.data.profile.custom
  BY <1>4, Zenon
<1>6. DOMAIN data.profile.video = DOMAIN page.data.profile.video
      /\ data.profile.video.decoder = page.data.profile.video.decoder
  BY <1>4, Zenon
<1>7. DOMAIN data.profile.audio = DOMAIN page.data.profile.audio
      /\ data.profile.audio.decoder = page.data.profile.audio.decoder
  BY <1>4, Zenon
<1>8. data.profile.audio.source = page.data.profile.audio.source
  BY <1>4, Zenon
<1> HIDE DEF data
<1>9. HasDecoders(data.profile)
  BY <1>3, <1>6, <1>7 DEF IsUpToDate, HasDecoders, HasFields, Media, old
<1>10. IsUpToDate(data.sources, data.profile, env)
  BY <1>3, <1>5, <1>8, <1>9 DEF IsUpToDate, old
<1> QED
  BY <1>2, <1>10, EditSteady

\* A profile is opened: nothing was probed yet.
LEMMA OpenedUpToDate ==
    ASSUME NEW p, EditPage(p), IsUpToDate(p.data.sources, p.data.profile, env), NEW step \in {0, 1}
    PROVE  ProfileUpToDate(OpenProfile(p, step), env)
<1> DEFINE data == p.data
           Nth(i) == IF Within(data.sources, i) THEN InitSource(At(data.sources, i))
                     ELSE InitSource(Nothing)
           hasAudio == "audio" \in Types(Nth(0).streams)
           pair == [video |-> Nth(0), audio |-> Nth(1)]
           pseudo == IF hasAudio THEN p.pseudo \cup {"videoaudio"} ELSE p.pseudo \ {"videoaudio"}
           profile == InitProfile(data.profile)
           q == [view |-> "profile", data |-> data, complete |-> p.complete, past |-> p.past,
                 sources |-> pair,
                 profile |-> profile, before |-> p.past,
                 vstatus |-> "none", astatus |-> "none", step |-> step,
                 pseudo |-> pseudo]
<1>1. OpenProfile(p, step) = Rendered({}, q)
  BY Zenon DEF OpenProfile
<1>2. IsProfile(data.profile) /\ HasDecoders(data.profile)
  BY DEF EditPage, IsData, IsUpToDate
<1>3. HasDecoders(profile) /\ profile.custom.selected = data.profile.custom.selected
  BY <1>2, ProfileLoaded
<1>4. ASSUME NEW i \in {0, 1}, i + 1 \in DOMAIN data.sources
      PROVE  /\ HasFields(Nth(i), SourceFields) /\ Nth(i).type = data.sources[i + 1].type
             /\ IsProbed(data.sources[i + 1], env) => IsProbed(Nth(i), env)
  <2> DEFINE s == data.sources[i + 1]
  <2>1. Nth(i) = InitSource(s)
    BY <1>4 DEF Within, At
  <2>2. HasFields(s, SourceFields)
    BY <1>4 DEF IsUpToDate
  <2> HIDE DEF s, Nth
  <2>3. /\ HasFields(Nth(i), SourceFields) /\ Nth(i).type = s.type /\ Nth(i).settings = s.settings
        /\ Nth(i).inputs = s.inputs
    BY <2>1, <2>2, SourceLoaded
  <2>4. IsProbed(s, env) => IsProbed(Nth(i), env)
    BY <2>3, SameSource
  <2> QED
    BY <2>3, <2>4 DEF s
<1>5. ASSUME NEW i \in {0, 1}, i + 1 \notin DOMAIN data.sources
      PROVE  HasFields(Nth(i), SourceFields) /\ Nth(i).type = "" /\ Nth(i).inputs = <<>>
  <2>1. Nth(i) = InitSource(Nothing)
    BY <1>5 DEF Within
  <2> HIDE DEF Nth
  <2> QED
    BY <2>1, NoSource
<1> HIDE DEF Nth
<1>6. IsProbed(Nth(0), env)
  <2>1. CASE 0 + 1 \in DOMAIN data.sources
    <3>1. IsProbed(data.sources[0 + 1], env)
      BY <2>1 DEF IsUpToDate
    <3> QED
      BY <1>4, <2>1, <3>1
  <2>2. CASE 0 + 1 \notin DOMAIN data.sources
    BY <1>5, <2>2 DEF IsProbed
  <2> QED
    BY <2>1, <2>2
<1>7. profile.custom.selected => Nth(1).type # "noaudio"
  <2>1. CASE 1 + 1 \in DOMAIN data.sources
    <3>1. data.profile.custom.selected => data.sources[1 + 1].type # "noaudio"
      BY <2>1 DEF IsUpToDate
    <3> QED
      BY <1>3, <1>4, <2>1, <3>1
  <2>2. CASE 1 + 1 \notin DOMAIN data.sources
    BY <1>5, <2>2
  <2> QED
    BY <2>1, <2>2
<1>8. HasFields(Nth(0), SourceFields) /\ HasFields(Nth(1), SourceFields)
  BY <1>4, <1>5
<1>9. ProfilePage(q)
  <2>1. IsPair(pair)
    BY <1>8 DEF IsPair, IsSource, HasFields, SourceFields
  <2>2. IsProfile(profile)
    BY <1>2, ProfileStored, InitProfileFits
  <2>3. pseudo \subseteq Pseudo
    BY DEF EditPage, Pseudo
  <2> HIDE DEF pair, pseudo, profile, hasAudio
  <2> QED
    BY <2>1, <2>2, <2>3 DEF ProfilePage, ProfileFields, EditPage, Statuses
<1>10. ProfileUpToDate(q, env)
  <2> HIDE DEF pseudo, profile, hasAudio
  <2> QED
    BY <1>3, <1>6, <1>7, <1>8 DEF ProfileUpToDate
<1> HIDE DEF q
<1> QED
  BY <1>1, <1>9, <1>10, RenderedUpToDate

\* Open, Leave, Edit, Reload and SaveThrows
LEMMA PagesSteady ==
    ASSUME TypeInv, CurrentInv,
           Open \/ Leave \/ (\E step \in {0, 1} : Edit(step)) \/ Reload \/ SaveThrows
    PROVE  Steady
<1>0. ASSUME NEW p, EditPage(p), IsUpToDate(p.data.sources, p.data.profile, env),
             NEW step \in {0, 1}, page' = OpenProfile(p, step), UNCHANGED <<env, core>>
      PROVE  Steady
  <2>1. ProfilePage(OpenProfile(p, step)) /\ ProfileUpToDate(OpenProfile(p, step), env)
    BY <1>0, OpenedTyped, OpenedUpToDate
  <2> QED
    BY <1>0, <2>1, ProfileSteady
<1>1. CASE Open
  <2> DEFINE p == Loaded(InitIngestMetadata(core.meta))
  <2>1. EditPage(p) /\ IsUpToDate(p.data.sources, p.data.profile, env)
    BY LoadedTyped DEF TypeInv, CurrentInv, CoreUpToDate, Loaded
  <2>2. page' = (IF p.data.sources = <<>> THEN OpenProfile(p, 0) ELSE p) /\ UNCHANGED <<env, core>>
    BY <1>1, Zenon DEF Open
  <2> HIDE DEF p
  <2>3. CASE page' = p
    BY <2>1, <2>2, <2>3, EditSteady DEF EditPage
  <2>4. CASE page' = OpenProfile(p, 0)
    BY <1>0, <2>1, <2>2, <2>4
  <2> QED
    BY <2>2, <2>3, <2>4
<1>2. CASE Leave
  BY <1>2, EmptySteady DEF Leave
<1>3. CASE \E step \in {0, 1} : Edit(step)
  <2>1. PICK step \in {0, 1} : Edit(step)
    BY <1>3
  <2>2. EditPage(page) /\ IsUpToDate(page.data.sources, page.data.profile, env)
    BY <2>1, PageOf DEF Edit, CurrentInv, PageUpToDate
  <2> QED
    BY <1>0, <2>1, <2>2 DEF Edit
<1>4. CASE Reload
  BY <1>4, EmptySteady DEF Reload
<1>5. CASE SaveThrows
  BY <1>5, EmptySteady DEF SaveThrows
<1> QED
  BY <1>1, <1>2, <1>3, <1>4, <1>5

\* ChangeControl and SaveFails
LEMMA ControlsSteady ==
    ASSUME TypeInv, CurrentInv, NEW control, ChangeControl(control) \/ SaveFails
    PROVE  Steady
<1>0. EditPage(page) /\ IsUpToDate(page.data.sources, page.data.profile, env)
  BY PageOf DEF ChangeControl, SaveFails, SavePossible, CurrentInv, PageUpToDate
<1>1. /\ {"view", "data"} \subseteq DOMAIN page /\ page.view = "edit"
      /\ {"sources", "profile"} \subseteq DOMAIN page.data
  BY <1>0 DEF EditPage, IsData
<1>2. CASE ChangeControl(control)
  <2> DEFINE q == [page EXCEPT !.data.control = control]
  <2>1. page' = q /\ UNCHANGED <<env, core>>
    BY <1>2, Zenon DEF ChangeControl
  <2>2. q.view = page.view
    BY <1>1, Zenon
  <2>3. q.data.sources = page.data.sources /\ q.data.profile = page.data.profile
    BY <1>1, Zenon
  <2> HIDE DEF q
  <2> QED
    BY <1>0, <1>1, <2>1, <2>2, <2>3, EditSteady
<1>3. CASE SaveFails
  <2> DEFINE io == CreateInputsOutputs(page.data.sources, page.data.profile)
             new == io.sources
             hls == UsedControl(page.data.control, io.inputs)
             q == [page EXCEPT !.data.sources = new, !.data.control = hls]
  <2>1. page' = q /\ UNCHANGED <<env, core>>
    BY <1>3, Zenon DEF SaveFails
  <2>2. IsUpToDate(new, page.data.profile, env)
    BY <1>0, SavedUpToDate DEF EditPage, IsData
  <2> HIDE DEF new, hls
  <2>3. q.view = page.view
    BY <1>1, Zenon
  <2>4. q.data.sources = new /\ q.data.profile = page.data.profile
    BY <1>1, Zenon
  <2> HIDE DEF q
  <2> QED
    BY <1>1, <2>1, <2>2, <2>3, <2>4, EditSteady
<1> QED
  BY <1>2, <1>3

\* A save of either page: what reaches the Core is current.
LEMMA SavedCurrent ==
    ASSUME CurrentInv, UNCHANGED env, page' = Closed, NEW meta,
           IsUpToDate(meta.sources, meta.profile, env), IsProfile(meta.profile),
           ValidateProfile(meta.sources, meta.profile),
           core'.meta = meta \/ core'.meta = core.meta, core'.whole => core'.meta = meta
    PROVE  CurrentInv'
<1>1. CoreUpToDate'
  <2>1. CASE core'.meta = meta
    <3> DEFINE d == InitIngestMetadata(meta)
    <3>1. IsUpToDate(d.sources, d.profile, env)
      BY LoadedUpToDate
    <3> QED
      BY <2>1, <3>1 DEF CoreUpToDate
  <2>2. CASE core'.meta = core.meta
    BY <2>2 DEF CurrentInv, CoreUpToDate
  <2> QED
    BY <2>1, <2>2
<1>2. InputsCurrent'
  <2>1. \A type \in Media : meta.profile[type].source # -1 =>
           SourceCurrent(At(meta.sources, meta.profile[type].source), env)
    BY UsedCurrent DEF IsCurrent
  <2>2. \A type \in { t \in {"video", "audio"} : meta.profile[t].source # -1 } :
           SourceCurrent(At(meta.sources, meta.profile[type].source), env)
    BY <2>1 DEF Media
  <2>3. core'.whole =>
           \A type \in { t \in {"video", "audio"} : core'.meta.profile[t].source # -1 } :
              SourceCurrent(At(core'.meta.sources, core'.meta.profile[type].source), env)
    BY <2>2
  <2> QED
    BY <2>3 DEF InputsCurrent
<1>3. PageUpToDate(page, env)'
  BY DEF PageUpToDate, Closed
<1>4. (env.sources \subseteq DOMAIN SourceSettings)'
  BY DEF CurrentInv
<1> QED
  BY <1>1, <1>2, <1>3, <1>4 DEF CurrentInv

\* handleDone of the page
LEMMA SaveCurrent ==
    ASSUME TypeInv, CurrentInv, NEW done \in SUBSET Calls, Save(done)
    PROVE  CurrentInv'
<1> DEFINE io == CreateInputsOutputs(page.data.sources, page.data.profile)
           control == UsedControl(page.data.control, io.inputs)
           new == io.sources
           meta == [page.data EXCEPT !.sources = new, !.control = control]
           made == IngestProcess(io.global, io.inputs, io.outputs[1], page.data.control, env.servers)
<1>1. EditPage(page) /\ IsUpToDate(page.data.sources, page.data.profile, env)
  BY PageOf DEF Save, SavePossible, CurrentInv, PageUpToDate
<1>2. page' = Closed /\ env' = env /\ io.inputs # <<>>
  BY Zenon DEF Save
<1>3. core' = [core EXCEPT
           !.ingest = made,
           !.meta = IF "metadata" \in done THEN meta ELSE @,
           !.snapshot = IF "snapshot" \in done THEN SnapshotProcess(control) ELSE @,
           !.preview = IF "preview" \in done THEN PreviewProcess(control) ELSE @,
           !.past = IF "metadata" \in done THEN page.past ELSE @,
           !.asked = page.past.asked, !.by = "editor", !.whole = (done = Calls)]
  BY Zenon DEF Save, SavedIn
<1>4. /\ SameStreams(new, page.data.sources)
      /\ ValidateProfile(page.data.sources, page.data.profile)
  BY <1>1, <1>2, SavedSources DEF EditPage, IsData
<1>5. IsUpToDate(new, page.data.profile, env)
  BY <1>1, SavedUpToDate DEF EditPage, IsData
<1> HIDE DEF io, control, new, made
<1>6. meta.sources = new /\ meta.profile = page.data.profile
  BY <1>1 DEF EditPage, IsData
<1> HIDE DEF meta
<1>7. DOMAIN core = CoreFields
  BY DEF TypeInv, CoreTyped
<1>8. /\ core'.meta = IF "metadata" \in done THEN meta ELSE core.meta
      /\ core'.whole = (done = Calls)
  BY <1>3, <1>7, Zenon DEF CoreFields
<1>9. /\ core'.meta = meta \/ core'.meta = core.meta
      /\ core'.whole => core'.meta = meta
  BY <1>8 DEF Calls
<1>10. /\ IsProfile(meta.profile) /\ ValidateProfile(meta.sources, meta.profile)
       /\ IsUpToDate(meta.sources, meta.profile, env)
  BY <1>1, <1>4, <1>5, <1>6, StillValid DEF EditPage, IsData
<1> QED
  BY <1>2, <1>9, <1>10, SavedCurrent

\* handleDone of the wizard
LEMMA WizardSaveCurrent ==
    ASSUME TypeInv, CurrentInv, NEW done \in SUBSET {"metadata", "snapshot"}, WizardSave(done)
    PROVE  CurrentInv'
<1> DEFINE sources == <<page.sources.video, page.sources.audio>>
           profile == CleanupProfile(page.profile)
           io == CreateInputsOutputs(sources, profile)
           control == UsedControl(DefaultControl, io.inputs)
           new == io.sources
           streams == CreateOutputStreams(sources, profile)
           meta == [version |-> "1.2.0", sources |-> new, profile |-> profile,
                    streams |-> streams, control |-> control]
           past == [asked |-> IF page.asked = "own" THEN "other" ELSE page.asked,
                    abandoned |-> FALSE]
           made == IngestProcess(io.global, io.inputs, io.outputs[1], DefaultControl, env.servers)
<1>1. WizardPage(page) /\ WizardUpToDate(page, env)
  BY PageOf DEF WizardSave, At1, CurrentInv, PageUpToDate
<1>2. page' = Closed /\ env' = env /\ io.inputs # <<>>
  BY Zenon DEF WizardSave
<1>3. core' = [core EXCEPT
                 !.ingest = made,
                 !.meta = IF "metadata" \in done THEN meta ELSE @,
                 !.snapshot = IF "snapshot" \in done THEN SnapshotProcess(control) ELSE @,
                 !.past = IF "metadata" \in done THEN past ELSE @,
                 !.asked = page.asked, !.by = "wizard",
                 !.whole = (done = {"metadata", "snapshot"})]
  BY Zenon DEF WizardSave
<1>4. AreSources(sources) /\ IsProfile(profile)
  BY <1>1, BothSources, CleanedFits DEF WizardPage
<1>5. IsUpToDate(sources, profile, env)
  BY <1>1, BothUpToDate DEF WizardUpToDate, WizardPage
<1> HIDE DEF sources, profile
<1>6. SameStreams(new, sources) /\ ValidateProfile(sources, profile)
  BY <1>2, <1>4, SavedSources
<1>7. IsUpToDate(new, profile, env)
  BY <1>4, <1>5, SavedUpToDate
<1> HIDE DEF io, new, made, streams, past
<1>8. meta.sources = new /\ meta.profile = profile
  OBVIOUS
<1> HIDE DEF meta
<1>9. DOMAIN core = CoreFields
  BY DEF TypeInv, CoreTyped
<1>10. /\ core'.meta = IF "metadata" \in done THEN meta ELSE core.meta
       /\ core'.whole = (done = {"metadata", "snapshot"})
  BY <1>3, <1>9, Zenon DEF CoreFields
<1>11. /\ core'.meta = meta \/ core'.meta = core.meta
       /\ core'.whole => core'.meta = meta
  BY <1>10
<1>12. /\ IsProfile(meta.profile) /\ ValidateProfile(meta.sources, meta.profile)
       /\ IsUpToDate(meta.sources, meta.profile, env)
  BY <1>4, <1>6, <1>7, <1>8, StillValid
<1> QED
  BY <1>2, <1>11, <1>12, SavedCurrent

-----------------------------------------------------------------------------
(* The steps of the wizard *)

\* A page of the wizard
LEMMA WizardSteady ==
    ASSUME NEW q, q.view = "wizard", WizardUpToDate(q, env), Turn(q) \/ Set(q)
    PROVE  Steady
BY DEF Turn, Set, Steady, PageUpToDate

\* A page of the wizard on which decoders and sources stayed
LEMMA SameWizard ==
    ASSUME NEW a, NEW b, NEW ff, WizardUpToDate(b, ff), a.sources = b.sources,
           HasDecoders(a.profile), a.profile.custom = b.profile.custom
    PROVE  WizardUpToDate(a, ff)
BY DEF WizardUpToDate

\* Only where the wizard is
LEMMA MovesSteady ==
    ASSUME TypeInv, CurrentInv, NEW t,
           \/ ChooseType(t) \/ BackToSettings \/ BackToResult \/ BackToAudio \/ BackToMeta
           \/ ToLicense \/ WizardAbort \/ AbortBack
    PROVE  Steady
<1>1. page.view = "wizard"
  BY DEF ChooseType, BackToSettings, BackToResult, BackToAudio, BackToMeta, ToLicense,
         WizardAbort, AbortBack, At1
<1>2. WizardPage(page) /\ WizardUpToDate(page, env)
  BY <1>1, PageOf DEF CurrentInv, PageUpToDate
<1>3. \E x, y : \/ Turn([page EXCEPT !.step = x])
                \/ Turn([page EXCEPT !.back = x, !.step = y])
                \/ Turn([page EXCEPT !.sourceid = x, !.step = y])
  BY Zenon DEF ChooseType, BackToSettings, BackToResult, BackToAudio, BackToMeta, ToLicense,
         WizardAbort, AbortBack
<1>4. WizardFields \subseteq DOMAIN page
  BY <1>2 DEF WizardPage, WizardFields
<1>5. ASSUME NEW q, \A f \in WizardFields : q[f] = page[f], Turn(q)
      PROVE  Steady
  <2>1. q.view = "wizard" /\ q.sources = page.sources /\ q.profile = page.profile
    BY <1>1, <1>5 DEF WizardFields
  <2>2. WizardUpToDate(q, env)
    BY <1>2, <2>1 DEF WizardUpToDate
  <2> QED
    BY <1>5, <2>1, <2>2, WizardSteady
<1>6. PICK x, y : \/ Turn([page EXCEPT !.step = x])
                  \/ Turn([page EXCEPT !.back = x, !.step = y])
                  \/ Turn([page EXCEPT !.sourceid = x, !.step = y])
  BY <1>3
<1>7. \A f \in WizardFields : /\ [page EXCEPT !.step = x][f] = page[f]
                              /\ [page EXCEPT !.back = x, !.step = y][f] = page[f]
                              /\ [page EXCEPT !.sourceid = x, !.step = y][f] = page[f]
  BY <1>4 DEF WizardFields
<1> QED
  BY <1>5, <1>6, <1>7

\* The wizard begins with nothing.
LEMMA WizardOpenSteady ==
    ASSUME WizardOpen
    PROVE  Steady
<1> DEFINE none == InitSource(Nothing)
           pair == [video |-> none, audio |-> none]
           profile == InitProfile(Nothing)
           q == [view |-> "wizard", step |-> "TYPE", back |-> "TYPE", sourceid |-> "",
                 status |-> "none", asked |-> "none", touched |-> FALSE,
                 sources |-> pair, profile |-> profile]
<1>1. Turn(q)
  BY DEF WizardOpen
<1>2. HasFields(none, SourceFields) /\ none.inputs = <<>>
  BY NoSource
<1>3. HasDecoders(profile) /\ profile.custom.selected = FALSE
  BY NoProfile
<1> HIDE DEF none, profile
<1>4. /\ q.view = "wizard" /\ q.sources.video = none /\ q.sources.audio = none
      /\ q.profile = profile
  OBVIOUS
<1> HIDE DEF q
<1>5. WizardUpToDate(q, env)
  BY <1>2, <1>3, <1>4 DEF WizardUpToDate, IsProbed
<1> QED
  BY <1>1, <1>4, <1>5, WizardSteady

\* A probe of the wizard
LEMMA WizardProbeSteady ==
    ASSUME TypeInv, CurrentInv, NEW stored, NEW streams, page.sourceid \in WizardTypes,
           WizardProbe(stored, streams)
    PROVE  Steady
<1> DEFINE type == SourceType(page.sourceid)
           settings == WizardSource(page.sourceid, stored).settings
           source == Source(type, settings, streams)
           profile == IF AnalyzeStreams("video", streams) = "success"
                      THEN PreselectProfile(streams, page.profile, env.encoders, TRUE)
                      ELSE page.profile
           status == ProbeStatus("video", streams, profile)
           step == IF status = "success" THEN "VIDEO RESULT" ELSE "VIDEO SETTINGS"
           q == [page EXCEPT !.sources.video = source, !.profile = profile, !.status = status,
                             !.step = step]
<1>1. WizardPage(page) /\ WizardUpToDate(page, env) /\ page.view = "wizard"
  BY PageOf DEF WizardProbe, At1, CurrentInv, PageUpToDate
<1>2. Set(q)
  BY Zenon DEF WizardProbe, VideoAnswered
<1>3. type \in DOMAIN SourceSettings
  BY DEF WizardTypes, SourceType, SourceSettings
<1> HIDE DEF type, settings
<1>4. HasFields(source, SourceFields) /\ IsProbed(source, env)
  <2>1. /\ HasFields(source, SourceFields) /\ source.type = type /\ source.settings = settings
        /\ source.inputs = CreateInputs(type, settings, env)
    BY DEF Source, HasFields, SourceFields
  <2> HIDE DEF source
  <2> QED
    BY <1>3, <2>1, FreshCurrent DEF IsProbed
<1>5. HasDecoders(profile) /\ profile.custom.selected = FALSE
  <2> DEFINE pre == PreselectProfile(streams, page.profile, env.encoders, TRUE)
  <2>1. HasDecoders(pre) /\ (pre.custom.selected = page.profile.custom.selected \/ pre.custom.selected = FALSE)
    BY <1>1, PreselectedDecoders DEF WizardPage, WizardUpToDate
  <2> HIDE DEF pre
  <2>2. profile = pre \/ profile = page.profile
    BY DEF pre
  <2> HIDE DEF profile
  <2> QED
    BY <1>1, <2>1, <2>2 DEF WizardUpToDate
<1> HIDE DEF source, profile, status, step
<1>6. WizardFields \subseteq DOMAIN page /\ {"video", "audio"} \subseteq DOMAIN page.sources
  BY <1>1 DEF WizardPage, WizardFields, IsPair
<1>7. q.view = page.view /\ q.profile = profile
  BY <1>6, Zenon DEF WizardFields
<1>8. q.sources = [page.sources EXCEPT !.video = source]
  BY <1>6, Zenon DEF WizardFields
<1> HIDE DEF q
<1>9. q.sources.video = source /\ q.sources.audio = page.sources.audio
  BY <1>6, <1>8
<1>10. WizardUpToDate(q, env)
  BY <1>1, <1>4, <1>5, <1>7, <1>9 DEF WizardUpToDate
<1> QED
  BY <1>1, <1>2, <1>7, <1>10, WizardSteady

\* The video source is forgotten.
LEMMA BackToTypeSteady ==
    ASSUME TypeInv, CurrentInv, BackToType
    PROVE  Steady
<1> DEFINE source == InitSource(Nothing)
           q == [page EXCEPT !.status = "none", !.step = "TYPE", !.sources.video = source]
<1>1. WizardPage(page) /\ WizardUpToDate(page, env) /\ page.view = "wizard"
  BY PageOf DEF BackToType, At1, CurrentInv, PageUpToDate
<1>2. Turn(q)
  BY Zenon DEF BackToType
<1>3. HasFields(source, SourceFields) /\ IsProbed(source, env)
  BY NoSource DEF IsProbed
<1> HIDE DEF source
<1>4. WizardFields \subseteq DOMAIN page /\ {"video", "audio"} \subseteq DOMAIN page.sources
  BY <1>1 DEF WizardPage, WizardFields, IsPair
<1>5. q.view = page.view /\ q.profile = page.profile
  BY <1>4, Zenon DEF WizardFields
<1>6. q.sources = [page.sources EXCEPT !.video = source]
  BY <1>4, Zenon DEF WizardFields
<1> HIDE DEF q
<1>7. q.sources.video = source /\ q.sources.audio = page.sources.audio
  BY <1>4, <1>6
<1>8. WizardUpToDate(q, env)
  BY <1>1, <1>3, <1>5, <1>7 DEF WizardUpToDate
<1> QED
  BY <1>1, <1>2, <1>5, <1>8, WizardSteady

\* The stream, or a part, of the video or audio
LEMMA WizardPartDecoders ==
    ASSUME NEW p, WizardPage(p), NEW ff, WizardUpToDate(p, ff), NEW type \in {"video", "audio"},
           NEW part, part # "decoder", NEW x
    PROVE  LET q == [p EXCEPT !.profile[type][part] = x] IN q.view = p.view /\ WizardUpToDate(q, ff)
<1> DEFINE q == [p EXCEPT !.profile[type][part] = x]
<1>1. /\ WizardFields \subseteq DOMAIN p
      /\ {"video", "audio", "custom"} \subseteq DOMAIN p.profile /\ type # "custom"
      /\ HasDecoders(p.profile) /\ "decoder" \in DOMAIN p.profile[type]
  BY DEF WizardPage, WizardFields, IsProfile, WizardUpToDate, HasDecoders, HasFields, Media
<1>2. q.view = p.view /\ q.sources = p.sources
  BY <1>1, Zenon DEF WizardFields
<1>3. \A t \in DOMAIN p.profile : t # type => q.profile[t] = p.profile[t]
  BY <1>1, Zenon DEF WizardFields
<1>4. DOMAIN q.profile[type] = DOMAIN p.profile[type]
  BY <1>1, Zenon DEF WizardFields
<1>5. q.profile[type].decoder = p.profile[type].decoder
  BY <1>1, Zenon DEF WizardFields
<1> HIDE DEF q
<1>6. q.profile.custom = p.profile.custom
  BY <1>1, <1>3
<1>7. HasDecoders(q.profile)
  BY <1>1, <1>3, <1>4, <1>5 DEF HasDecoders, HasFields, Media
<1>8. WizardUpToDate(q, ff)
  BY <1>2, <1>6, <1>7, SameWizard
<1> QED
  BY <1>2, <1>8 DEF q

\* WizardSelect, WizardEncoder and WizardDecoder
LEMMA WizardSelectsSteady ==
    ASSUME TypeInv, CurrentInv, NEW type \in {"video", "audio"}, NEW i, NEW coder,
           \/ WizardSelect(type, i) \/ WizardEncoder(coder) \/ WizardDecoder(coder)
    PROVE  Steady
<1>1. WizardPage(page) /\ WizardUpToDate(page, env) /\ page.view = "wizard"
  BY PageOf DEF WizardSelect, WizardEncoder, WizardDecoder, At1, CurrentInv, PageUpToDate
<1>2. CASE WizardSelect(type, i)
  <2> DEFINE touched == page.touched \/ type = "audio"
             s == [page EXCEPT !.profile[type]["stream"] = i]
             q == [s EXCEPT !.touched = touched]
             r == [page EXCEPT !.profile[type].stream = i, !.touched = touched]
  <2>1. Set(r)
    BY <1>2, Zenon DEF WizardSelect
  <2> HIDE DEF touched
  <2>2. r = q
    OBVIOUS
  <2>3. s.view = "wizard" /\ WizardUpToDate(s, env) /\ DOMAIN s = DOMAIN page
    BY <1>1, WizardPartDecoders
  <2> HIDE DEF s, r
  <2>4. q.view = s.view /\ q.sources = s.sources /\ q.profile = s.profile
    BY <1>1, <2>3 DEF WizardPage
  <2> HIDE DEF q
  <2>5. WizardUpToDate(q, env)
    BY <2>3, <2>4 DEF WizardUpToDate
  <2> QED
    BY <2>1, <2>2, <2>3, <2>4, <2>5, WizardSteady
<1>3. CASE WizardEncoder(coder)
  <2> DEFINE e == [page.profile.video.encoder EXCEPT !.coder = coder]
             q == [page EXCEPT !.profile["video"]["encoder"] = e]
  <2>1. [page EXCEPT !.profile.video.encoder.coder = coder] = q
    BY Zenon
  <2>2. Set(q)
    BY <1>3, <2>1, Zenon DEF WizardEncoder
  <2> HIDE DEF e
  <2>3. q.view = "wizard" /\ WizardUpToDate(q, env)
    BY <1>1, WizardPartDecoders
  <2> HIDE DEF q
  <2> QED
    BY <2>2, <2>3, WizardSteady
<1>4. CASE WizardDecoder(coder)
  <2> DEFINE d == page.profile.video.decoder
             new == [d EXCEPT !.coder = coder]
             q == [page EXCEPT !.profile.video.decoder.coder = coder]
  <2>1. Set(q)
    BY <1>4, Zenon DEF WizardDecoder
  <2>2. /\ WizardFields \subseteq DOMAIN page
        /\ {"video", "audio", "custom"} \subseteq DOMAIN page.profile
        /\ HasDecoders(page.profile) /\ "decoder" \in DOMAIN page.profile.video
        /\ HasFields(page.profile.audio, {"decoder"})
    BY <1>1 DEF WizardPage, WizardFields, IsProfile, WizardUpToDate, HasDecoders, HasFields, Media
  <2>3. q.view = page.view /\ q.sources = page.sources
    BY <2>2, Zenon DEF WizardFields
  <2>4. q.profile.audio = page.profile.audio /\ q.profile.custom = page.profile.custom
    BY <2>2, Zenon DEF WizardFields
  <2>5. DOMAIN q.profile.video = DOMAIN page.profile.video /\ q.profile.video.decoder = new
    BY <2>2, Zenon DEF WizardFields
  <2> HIDE DEF q
  <2>6. IsDecoder(d)
    BY <2>2 DEF HasDecoders, Media
  <2>7. \E c \in ToSet(Decoders.video) : c.coder = coder
    BY <1>4 DEF WizardDecoder, DecoderList, GetCodersForCodec
  <2> HIDE DEF d
  <2>8. DOMAIN new = DOMAIN d /\ new.coder = coder /\ new.mapping = d.mapping
    BY <2>6 DEF IsDecoder, HasFields
  <2> HIDE DEF new
  <2>9. IsDecoder(new)
    BY <2>6, <2>7, <2>8 DEF IsDecoder, HasFields
  <2>10. HasDecoders(q.profile)
    BY <2>2, <2>4, <2>5, <2>9 DEF HasDecoders, HasFields, Media
  <2>11. WizardUpToDate(q, env)
    BY <1>1, <2>3, <2>4, <2>10, SameWizard
  <2> QED
    BY <1>1, <2>1, <2>3, <2>11, WizardSteady
<1> QED
  BY <1>2, <1>3, <1>4

\* The options of a coder, for the encoder and for the decoder
LEMMA CoderDecodes ==
    ASSUME NEW m, HasFields(m, {"encoder", "decoder"}), IsDecoder(m.decoder), NEW stream
    PROVE  /\ \A registry :
                 LET a == WithCoder(m, "encoder", registry, stream)
                 IN  HasFields(a, {"encoder", "decoder"}) /\ a.decoder = m.decoder
           /\ LET a == WithCoder(m, "decoder", Decoders.video, stream)
              IN  HasFields(a, {"decoder"}) /\ IsDecoder(a.decoder)
<1>1. ASSUME NEW registry
      PROVE  LET a == WithCoder(m, "encoder", registry, stream)
             IN  HasFields(a, {"encoder", "decoder"}) /\ a.decoder = m.decoder
  <2> DEFINE d == Defaults(Get(registry, m["encoder"].coder), stream, env.ffmpeg)
             settings == d.settings
             mapping == d.mapping
             a == [m EXCEPT !["encoder"].settings = settings, !["encoder"].mapping = mapping]
  <2>1. WithCoder(m, "encoder", registry, stream) = a
    BY Zenon DEF WithCoder
  <2> HIDE DEF settings, mapping
  <2>2. DOMAIN a = DOMAIN m /\ a.decoder = m.decoder
    BY Zenon DEF HasFields
  <2> HIDE DEF a
  <2> QED
    BY <2>1, <2>2 DEF HasFields
<1>2. LET a == WithCoder(m, "decoder", Decoders.video, stream)
      IN  HasFields(a, {"decoder"}) /\ IsDecoder(a.decoder)
  <2> DEFINE old == m.decoder
             c == Get(Decoders.video, old.coder)
             settings == c.defaults
             mapping == CreateMapping(c, c.defaults, stream, env.ffmpeg)
             new == [old EXCEPT !.settings = settings, !.mapping = mapping]
             a == [m EXCEPT !.decoder = new]
  <2>1. WithCoder(m, "decoder", Decoders.video, stream) = a
    <3> DEFINE d == Defaults(c, stream, env.ffmpeg)
    <3>1. d.settings = settings /\ d.mapping = mapping
      BY DEF Defaults
    <3>2. WithCoder(m, "decoder", Decoders.video, stream) =
             [m EXCEPT !["decoder"].settings = d.settings, !["decoder"].mapping = d.mapping]
      BY Zenon DEF WithCoder
    <3> HIDE DEF d, settings, mapping
    <3> QED
      BY <3>1, <3>2
  <2>2. c \in ToSet(Decoders.video) /\ c.coder = old.coder
    BY DecoderFound DEF IsDecoder
  <2> HIDE DEF c, settings
  <2>3. DOMAIN new = DOMAIN old /\ new.coder = old.coder /\ new.mapping = mapping
    BY Zenon DEF IsDecoder, HasFields
  <2> HIDE DEF new, old
  <2>4. HasFields(new, {"coder", "settings", "mapping"})
    BY <2>3 DEF IsDecoder, HasFields, old
  <2>5. IsDecoder(new)
    BY <2>2, <2>3, <2>4, DecoderMade
  <2>6. DOMAIN a = DOMAIN m /\ a.decoder = new
    BY DEF HasFields
  <2> HIDE DEF a
  <2> QED
    BY <2>1, <2>5, <2>6 DEF HasFields
<1> QED
  BY <1>1, <1>2

\* A source the wizard describes
LEMMA DescribedSource ==
    ASSUME NEW type, NEW settings, NEW streams
    PROVE  HasFields(Source(type, settings, streams), SourceFields)
BY DEF Source, HasFields, SourceFields

\* handleNext of VIDEO RESULT
LEMMA VideoChosenSteady ==
    ASSUME TypeInv, CurrentInv, VideoChosen
    PROVE  Steady
<1> DEFINE streams == page.sources.video.streams
           e == WithCoder(page.profile.video, "encoder", Encoders.video, NoStream)
           m == WithCoder(e, "decoder", Decoders.video, NoStream)
           sound == First(streams, "audio") # -1
           source == IF sound THEN 0 ELSE 1
           stream == IF sound THEN At(streams, First(streams, "audio")).stream
                     ELSE page.profile.audio.stream
           audio == IF sound THEN page.sources.audio ELSE Silence
           q == [page EXCEPT !.step = "AUDIO SETTINGS", !.touched = FALSE,
                   !.profile.video = m, !.profile.audio.source = source,
                   !.profile.audio.stream = stream, !.sources.audio = audio]
<1>1. WizardPage(page) /\ WizardUpToDate(page, env) /\ page.view = "wizard"
  BY PageOf DEF VideoChosen, At1, CurrentInv, PageUpToDate
<1>2. Turn(q)
  BY Zenon DEF VideoChosen
<1>3. HasFields(m, {"decoder"}) /\ IsDecoder(m.decoder)
  <2>1. HasFields(page.profile.video, {"encoder", "decoder"}) /\ IsDecoder(page.profile.video.decoder)
    BY <1>1 DEF WizardPage, IsProfile, IsMedia, WizardUpToDate, HasDecoders, HasFields, Media
  <2>2. HasFields(e, {"encoder", "decoder"}) /\ IsDecoder(e.decoder)
    BY <2>1, CoderDecodes
  <2> HIDE DEF e
  <2> QED
    BY <2>2, CoderDecodes
<1>4. HasFields(audio, SourceFields)
  BY <1>1, DescribedSource DEF Silence, WizardUpToDate
<1> HIDE DEF m, e, sound, source, stream, audio
<1>5. /\ WizardFields \subseteq DOMAIN page /\ {"video", "audio"} \subseteq DOMAIN page.sources
      /\ {"video", "audio", "custom"} \subseteq DOMAIN page.profile
      /\ {"source", "stream", "decoder"} \subseteq DOMAIN page.profile.audio
  BY <1>1 DEF WizardPage, WizardFields, IsPair, IsProfile, IsMedia, WizardUpToDate, HasDecoders,
              HasFields, Media
<1>6. q.view = page.view /\ q.sources = [page.sources EXCEPT !.audio = audio]
  BY <1>5, Zenon DEF WizardFields
<1>7. q.profile.video = m /\ q.profile.custom = page.profile.custom
  BY <1>5, Zenon DEF WizardFields
<1>8. DOMAIN q.profile.audio = DOMAIN page.profile.audio
      /\ q.profile.audio.decoder = page.profile.audio.decoder
  BY <1>5, Zenon DEF WizardFields
<1> HIDE DEF q
<1>9. q.sources.video = page.sources.video /\ q.sources.audio = audio
  BY <1>5, <1>6
<1>10. HasDecoders(q.profile)
  BY <1>1, <1>3, <1>7, <1>8 DEF WizardUpToDate, HasDecoders, HasFields, Media
<1>11. WizardUpToDate(q, env)
  BY <1>1, <1>4, <1>7, <1>9, <1>10 DEF WizardUpToDate
<1> QED
  BY <1>1, <1>2, <1>6, <1>11, WizardSteady

\* Another sound
LEMMA WizardAudioSteady ==
    ASSUME TypeInv, CurrentInv, NEW kind \in {"video", "alsa", "silence", "none"},
           WizardAudio(kind)
    PROVE  Steady
<1> DEFINE source == CASE kind = "silence" -> Silence
                       [] kind = "alsa" -> Source("alsa", [device |-> "1,0"], <<>>)
                       [] OTHER -> InitSource(Nothing)
           number == CASE kind = "video" -> 0
                       [] kind \in {"silence", "alsa"} -> 1
                       [] OTHER -> -1
           q == [page EXCEPT !.touched = TRUE, !.sources.audio = source,
                             !.profile.audio.source = number]
<1>1. WizardPage(page) /\ WizardUpToDate(page, env) /\ page.view = "wizard"
  BY PageOf DEF WizardAudio, At1, CurrentInv, PageUpToDate
<1>2. Set(q)
  BY Zenon DEF WizardAudio
<1>3. HasFields(source, SourceFields)
  <2>1. /\ HasFields(Silence, SourceFields) /\ HasFields(InitSource(Nothing), SourceFields)
        /\ HasFields(Source("alsa", [device |-> "1,0"], <<>>), SourceFields)
    BY DescribedSource, NoSource DEF Silence
  <2> QED
    BY <2>1
<1> HIDE DEF source, number
<1>4. /\ WizardFields \subseteq DOMAIN page /\ {"video", "audio"} \subseteq DOMAIN page.sources
      /\ {"video", "audio", "custom"} \subseteq DOMAIN page.profile
      /\ {"source", "stream", "decoder"} \subseteq DOMAIN page.profile.audio
  BY <1>1 DEF WizardPage, WizardFields, IsPair, IsProfile, IsMedia, WizardUpToDate, HasDecoders,
              HasFields, Media
<1>5. q.view = page.view /\ q.sources = [page.sources EXCEPT !.audio = source]
  BY <1>4, Zenon DEF WizardFields
<1>6. q.profile.video = page.profile.video /\ q.profile.custom = page.profile.custom
  BY <1>4, Zenon DEF WizardFields
<1>7. DOMAIN q.profile.audio = DOMAIN page.profile.audio
      /\ q.profile.audio.decoder = page.profile.audio.decoder
  BY <1>4, Zenon DEF WizardFields
<1> HIDE DEF q
<1>8. q.sources.video = page.sources.video /\ q.sources.audio = source
  BY <1>4, <1>5
<1>9. HasDecoders(q.profile)
  BY <1>1, <1>6, <1>7 DEF WizardUpToDate, HasDecoders, HasFields, Media
<1>10. WizardUpToDate(q, env)
  BY <1>1, <1>3, <1>6, <1>8, <1>9 DEF WizardUpToDate
<1> QED
  BY <1>1, <1>2, <1>5, <1>10, WizardSteady

\* handleNext of AUDIO RESULT sets the encoder only.
LEMMA AudioResultUpToDate ==
    ASSUME NEW p, WizardPage(p), NEW ff, WizardUpToDate(p, ff)
    PROVE  LET q == AudioResult(p) IN q.view = p.view /\ WizardUpToDate(q, ff)
<1> DEFINE m == p.profile.audio
           stream == IF m.source = 0 THEN At(p.sources.video.streams, m.stream)
                     ELSE At(p.sources.audio.streams, m.stream)
           coder == Get(Encoders.audio, IF stream.codec \in {"aac", "mp3"} THEN "copy" ELSE "aac")
           d == Defaults(coder, stream, env.ffmpeg)
           encoder == [coder |-> m.encoder.coder, settings |-> d.settings, mapping |-> d.mapping]
           asked == IF m.source = 1 THEN "own" ELSE IF p.touched THEN "other" ELSE "video"
           silent == [p EXCEPT !.profile.audio.stream = -1, !.asked = "none", !.step = "META"]
           q == [p EXCEPT !.profile.audio.encoder = encoder, !.asked = asked, !.step = "META"]
<1>1. AudioResult(p) = IF m.source = -1 THEN silent ELSE q
  BY Zenon DEF AudioResult
<1> HIDE DEF encoder, asked
<1>2. /\ WizardFields \subseteq DOMAIN p
      /\ {"video", "audio", "custom"} \subseteq DOMAIN p.profile
      /\ {"source", "stream", "decoder"} \subseteq DOMAIN p.profile.audio
      /\ HasDecoders(p.profile)
  BY DEF WizardPage, WizardFields, IsProfile, IsMedia, WizardUpToDate, HasDecoders, HasFields, Media
<1>3. ASSUME NEW r, r.sources = p.sources, r.profile.video = p.profile.video,
             r.profile.custom = p.profile.custom,
             DOMAIN r.profile.audio = DOMAIN p.profile.audio,
             r.profile.audio.decoder = p.profile.audio.decoder
      PROVE  WizardUpToDate(r, ff)
  <2>1. HasDecoders(r.profile)
    BY <1>2, <1>3 DEF HasDecoders, HasFields, Media
  <2> QED
    BY <1>3, <2>1, SameWizard
<1>4. silent.view = p.view /\ WizardUpToDate(silent, ff)
  <2>1. silent.view = p.view /\ silent.sources = p.sources
    BY <1>2, Zenon DEF WizardFields
  <2>2. silent.profile.video = p.profile.video /\ silent.profile.custom = p.profile.custom
    BY <1>2, Zenon DEF WizardFields
  <2>3. DOMAIN silent.profile.audio = DOMAIN p.profile.audio
        /\ silent.profile.audio.decoder = p.profile.audio.decoder
    BY <1>2, Zenon DEF WizardFields
  <2> HIDE DEF silent
  <2> QED
    BY <1>3, <2>1, <2>2, <2>3
<1>5. q.view = p.view /\ WizardUpToDate(q, ff)
  <2>1. q.view = p.view /\ q.sources = p.sources
    BY <1>2, Zenon DEF WizardFields
  <2>2. q.profile.video = p.profile.video /\ q.profile.custom = p.profile.custom
    BY <1>2, Zenon DEF WizardFields
  <2>3. DOMAIN q.profile.audio = DOMAIN p.profile.audio
        /\ q.profile.audio.decoder = p.profile.audio.decoder
    BY <1>2, Zenon DEF WizardFields
  <2> HIDE DEF q
  <2> QED
    BY <1>3, <2>1, <2>2, <2>3
<1> HIDE DEF silent, q
<1> QED
  BY <1>1, <1>4, <1>5

\* AudioChosen and AudioProbed
LEMMA AudioSteady ==
    ASSUME TypeInv, CurrentInv, NEW streams, AudioChosen \/ AudioProbed(streams)
    PROVE  Steady
<1>1. WizardPage(page) /\ WizardUpToDate(page, env) /\ page.view = "wizard"
  BY PageOf DEF AudioChosen, AudioProbed, At1, CurrentInv, PageUpToDate
<1>2. CASE AudioChosen
  <2>1. (page' = Stuck /\ UNCHANGED <<env, core>>) \/ Turn(AudioResult(page))
    BY <1>2 DEF AudioChosen, Turn
  <2> QED
    BY <1>1, <2>1, AudioResultUpToDate, EmptySteady, WizardSteady
<1>3. CASE AudioProbed(streams)
  <2> DEFINE found == AnalyzeStreams("audio", streams) = "success"
             profile == IF found THEN PreselectAudioProfile(streams, page.profile, env.encoders)
                        ELSE page.profile
             status == ProbeStatus("audio", streams, profile)
             q == [page EXCEPT !.sources.audio.streams = streams, !.profile = profile,
                               !.status = status]
  <2>1. Set(IF status = "success" THEN AudioResult(q) ELSE q)
    BY <1>3, Zenon DEF AudioProbed
  <2>2. HasDecoders(profile) /\ IsProfile(profile) /\ profile.custom = page.profile.custom
    BY <1>1, AudioProfilePreselected, AudioDecoders DEF WizardPage, WizardUpToDate
  <2> HIDE DEF profile, status
  <2>3. /\ WizardFields \subseteq DOMAIN page /\ {"video", "audio"} \subseteq DOMAIN page.sources
        /\ {"inputs", "streams"} \subseteq DOMAIN page.sources.audio
    BY <1>1 DEF WizardPage, WizardFields, IsPair, IsSource
  <2>4. DOMAIN q = DOMAIN page /\ q.view = page.view /\ q.asked = page.asked /\ q.profile = profile
    BY <2>3, Zenon DEF WizardFields
  <2>5. DOMAIN q.sources = DOMAIN page.sources /\ q.sources.video = page.sources.video
    BY <2>3, Zenon DEF WizardFields
  <2>6. DOMAIN q.sources.audio = DOMAIN page.sources.audio
    BY <2>3, Zenon DEF WizardFields
  <2> HIDE DEF q
  <2>7. IsPair(q.sources)
    BY <1>1, <2>5, <2>6 DEF WizardPage, IsPair, IsSource
  <2>8. WizardPage(q)
    BY <1>1, <2>2, <2>4, <2>7, WizardSet DEF WizardPage
  <2>9. WizardUpToDate(q, env)
    BY <1>1, <2>2, <2>4, <2>5, <2>6 DEF WizardUpToDate, HasFields
  <2>10. CASE Set(q)
    BY <1>1, <2>4, <2>9, <2>10, WizardSteady
  <2>11. CASE Set(AudioResult(q))
    BY <1>1, <2>4, <2>8, <2>9, <2>11, AudioResultUpToDate, WizardSteady
  <2> QED
    BY <2>1, <2>10, <2>11
<1> QED
  BY <1>2, <1>3

\* The step "DONE" is empty.
LEMMA WizardSaveFailsSteady ==
    ASSUME WizardSaveFails
    PROVE  Steady
BY EmptySteady DEF WizardSaveFails

-----------------------------------------------------------------------------
(* The theorem *)

\* The channel is loaded as it is stored.
LEMMA CurrentInit == Init => CurrentInv
<1> SUFFICES ASSUME Init PROVE CurrentInv
  OBVIOUS
<1>1. PICK start \in Starts : env = start.env /\ core = start.core
  BY DEF Init
<1>2. CoreUpToDate /\ env.sources \subseteq DOMAIN SourceSettings
  BY <1>1, SourcesAssumption DEF CoreUpToDate
<1>3. PageUpToDate(page, env)
  BY DEF Init, PageUpToDate, Closed
<1>4. InputsCurrent
  BY <1>1, StartsAssumption DEF InputsCurrent, Saved
<1> QED
  BY <1>2, <1>3, <1>4 DEF CurrentInv

\* Every step keeps it.
LEMMA CurrentStep == TypeInv /\ CurrentInv /\ [Next]_vars => CurrentInv'
<1> SUFFICES ASSUME TypeInv, CurrentInv, [Next]_vars PROVE CurrentInv'
  OBVIOUS
<1>1. CASE EditNext
  BY <1>1, PagesSteady, ControlsSteady, SaveCurrent, SteadyKeeps, Zenon DEF EditNext
<1>2. CASE ProfileNext
  BY <1>2, ProbesSteady, StepsSteady, SelectsSteady, CodersSteady, FinishSteady, AbortSteady,
     SteadyKeeps, Zenon DEF ProfileNext
<1>3. CASE WizardNext
  BY <1>3, WizardOpenSteady, MovesSteady, WizardProbeSteady, WizardSelectsSteady,
     VideoChosenSteady, AudioSteady, WizardAudioSteady, BackToTypeSteady, WizardSaveCurrent,
     WizardSaveFailsSteady, SteadyKeeps, Zenon DEF WizardNext
<1>4. CASE Reload
  BY <1>4, PagesSteady, SteadyKeeps
<1>5. CASE UNCHANGED vars
  <2>1. Steady
    BY <1>5 DEF vars, Steady, CurrentInv
  <2> QED
    BY <2>1, SteadyKeeps
<1> QED
  BY <1>1, <1>2, <1>3, <1>4, <1>5 DEF Next

(* The process reads what the settings of its sources say, however often the  *)
(* channel was edited, abandoned, saved and loaded: saving puts nothing but    *)
(* options of decoders before those of a source, and changes the stored       *)
(* inputs in place (the probes, handleSourceDone, createInputsOutputs).       *)
THEOREM InputsStayCurrent == Spec => []InputsCurrent
<1>1. TypeInv /\ CurrentInv /\ [Next]_vars => (TypeInv /\ CurrentInv)'
  BY TypeStep, CurrentStep
<1>2. Init => TypeInv /\ CurrentInv
  BY TypeInit, CurrentInit
<1>3. TypeInv /\ CurrentInv => InputsCurrent
  BY DEF CurrentInv
<1> QED
  BY <1>1, <1>2, <1>3, PTL DEF Spec
=============================================================================
