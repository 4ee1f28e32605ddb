------------------------------ MODULE Ingest -------------------------------
(* The processes a channel is made of, as the web interface describes them to
   the Core: ui/src/utils/restreamer.js (UpsertIngest, UpsertIngestSnapshot,
   UpsertIngestPreview) and the settings they depend on (ui/src/misc/controls).
   A file of the channel is [fs, where, ext]: "root" is <id>.<ext>, "flat" is
   <id>_*.<ext>, "dir" is <id>/**.<ext>. Titles, bit rates, delays of the limits
   and the order of the options of a muxer are left out. *)
EXTENDS Integers, Sequences, FiniteSets, FiniteSetsExt

-----------------------------------------------------------------------------
(* Controls *)

AtLeast(a, b) == IF a < b THEN b ELSE a
AtMost(a, b) == IF a > b THEN b ELSE a
Ceiling(a, b) == (a + b - 1) \div b

\* applyDVRSettings: the rewind window sets everything it depends on.
ApplyDVRSettings(hls, maxHours) ==
    IF ~hls.dvr.enabled THEN hls
    ELSE LET hours == AtMost(168, AtLeast(1, maxHours))
             duration == AtMost(30, AtLeast(1, hls.segmentDuration))
         IN  [hls EXCEPT !.storage = "diskfs", !.cleanup = TRUE,
                         !.segmentDuration = duration,
                         !.listSize = Ceiling(hours * 3600, duration),
                         !.dvr = [enabled |-> TRUE, hours |-> hours]]

\* handleChange of the HLS control, for the choices of a user
ChangeHLS(hls, what, maxHours) ==
    ApplyDVRSettings(
        CASE what = "dvr" -> [hls EXCEPT !.dvr = [enabled |-> ~@.enabled, hours |-> maxHours]]
          [] what = "master_playlist" -> [hls EXCEPT !.master_playlist = ~@]
          [] what = "storage" -> [hls EXCEPT !.storage = IF @ = "memfs" THEN "diskfs" ELSE "memfs"]
          [] what = "version" -> [hls EXCEPT !.version = IF @ = 3 THEN 7 ELSE 3],
        maxHours)

\* The settings of the HLS control have all fields, and numbers where numbers are
\* expected (init of the control, parseInt in UpsertIngest).
HLSFields == {"lhls", "segmentDuration", "listSize", "cleanup", "version", "storage",
              "master_playlist", "dvr"}
IsHLS(hls) ==
    /\ HLSFields \subseteq DOMAIN hls /\ DOMAIN hls.dvr = {"enabled", "hours"}
    /\ hls.segmentDuration \in Nat /\ hls.listSize \in Int
    /\ hls.dvr.enabled \in BOOLEAN /\ hls.dvr.hours \in Int
IsControl(control) == "hls" \in DOMAIN control /\ IsHLS(control.hls)

ChangeProcess(process) == [process EXCEPT !.reconnect = ~@]
ChangeRTMP(rtmp) == [rtmp EXCEPT !.enable = ~@]
ChangeSRT(srt) == [srt EXCEPT !.enable = ~@]
ChangeSnapshot(snapshot) == [snapshot EXCEPT !.enable = ~@]
ChangePreview(preview) == [preview EXCEPT !.enable = ~@]

DefaultControl ==
    [hls |-> [lhls |-> FALSE, segmentDuration |-> 2, listSize |-> 6, cleanup |-> TRUE,
              version |-> 3, storage |-> "memfs", master_playlist |-> TRUE,
              dvr |-> [enabled |-> FALSE, hours |-> 4]],
     process  |-> [autostart |-> TRUE, reconnect |-> TRUE],
     rtmp     |-> [enable |-> FALSE],
     srt      |-> [enable |-> FALSE],
     snapshot |-> [enable |-> TRUE],
     preview  |-> [enable |-> FALSE]]

-----------------------------------------------------------------------------
(* UpsertIngest *)

\* getIngestRTSPStability: the strictest of the inputs
IngestStability(inputs) ==
    LET asked == { inputs[i].stability : i \in DOMAIN inputs }
    IN  IF "strict" \in asked THEN "strict"
        ELSE IF "stable" \in asked THEN "stable" ELSE "standard"

DecoderErrorMode(stability) ==
    CASE stability = "strict" -> "explode"
      [] stability = "stable" -> "careful"
      [] OTHER -> "ignore_err"

\* getHLSSegmentCleanupAge; the real segments of a rewind window are longer than asked
SegmentCleanupAge(hls) ==
    IF hls.dvr.enabled \/ hls.listSize <= 0 THEN 0 ELSE hls.segmentDuration * (hls.listSize + 6)

\* 1.5: the window in hours is turned into a number of segments.
DVRControl(control) ==
    LET hls == control.hls
        hours == AtMost(168, AtLeast(1, hls.dvr.hours))
        duration == AtMost(30, AtLeast(1, hls.segmentDuration))
    IN  IF ~hls.dvr.enabled THEN control
        ELSE [control EXCEPT !.hls =
                [@ EXCEPT !.storage = "diskfs", !.cleanup = TRUE,
                          !.segmentDuration = duration,
                          !.listSize = Ceiling(hours * 3600, duration),
                          !.dvr = [enabled |-> TRUE, hours |-> hours]]]

SegmentExt(hls) == IF ~hls.lhls /\ hls.version = 7 THEN "mp4" ELSE "ts"
SegmentFile(hls) == [fs |-> hls.storage, ext |-> SegmentExt(hls),
                     where |-> IF hls.storage = "diskfs" THEN "dir" ELSE "flat"]
PlaylistFile(hls) == [fs |-> hls.storage, ext |-> "m3u8",
                      where |-> IF hls.master_playlist THEN "flat" ELSE "root"]
MasterFile(hls) == [fs |-> hls.storage, ext |-> "m3u8", where |-> "root"]
InitFile(hls) == [fs |-> hls.storage, ext |-> "mp4", where |-> "root"]

\* The files ffmpeg writes for these settings (address, hls_segment_filename,
\* master_pl_name, hls_fmp4_init_filename).
IngestFiles(hls) ==
    {SegmentFile(hls), PlaylistFile(hls)}
    \cup (IF hls.master_playlist THEN {MasterFile(hls)} ELSE {})
    \cup (IF hls.version = 7 THEN {InitFile(hls)} ELSE {})

\* files listed by the playlist and kept on purpose when they leave it
DeleteThreshold == 4

Rule(file, files, age) == [file |-> file, max_files |-> files, max_age |-> age]

\* 4: everything is purged with the process; playlists and segments are limited.
\* No rule is given with cleanup switched off.
PurgeRules(hls) ==
    { Rule([fs |-> hls.storage, where |-> f[1], ext |-> f[2]], 0, 0) :
      f \in { <<"root", "m3u8">>, <<"root", "mp4">>, <<"flat", "m3u8">>, <<"flat", "ts">>,
              <<"flat", "mp4">>, <<"dir", "ts">>, <<"dir", "mp4">> } }
ListAge(hls) == IF hls.listSize > 0 THEN hls.segmentDuration * (hls.listSize + 6) ELSE 0
\* mutant: as many files as the list has
ListFiles_Exact(hls) == IF hls.listSize > 0 THEN hls.listSize ELSE 0
ListFiles(hls) == IF hls.listSize > 0 THEN hls.listSize + 6 ELSE 0

CleanupRules(hls) ==
    IF ~hls.cleanup THEN {}
    ELSE PurgeRules(hls)
         \cup {Rule(PlaylistFile(hls), 0, ListAge(hls)),
               Rule(SegmentFile(hls), ListFiles(hls), SegmentCleanupAge(hls))}
         \cup (IF hls.master_playlist THEN {Rule(MasterFile(hls), 0, ListAge(hls))} ELSE {})
         \cup (IF ~hls.lhls /\ hls.version = 7 THEN {Rule(InitFile(hls), 0, ListAge(hls))} ELSE {})

\* 1.2, 1.3: the first input is the channel's own stream on a server of the Core,
\* which is there anyhow, behind the playout or not.
ReadsItself(inputs, server) ==
    LET address == inputs[1].address
    IN  <<server, "itself">> = IF address[1] = "playout" THEN address[2] ELSE address

\* One output feeds the playlist and the servers of the Core, through the tee muxer.
Targets(control, inputs, servers) ==
    {"hls"} \cup { server \in {"rtmp", "srt"} \cap servers :
                  control[server].enable /\ ~ReadsItself(inputs, server) }

\* The control settings are changed in place, so they are saved as changed.
UsedControl(control, inputs) ==
    [DVRControl(control) EXCEPT !.rtmp.enable = @ \/ ReadsItself(inputs, "rtmp"),
                                !.srt.enable = @ \/ ReadsItself(inputs, "srt")]

\* output: the options made of the profile
IngestProcess(global, inputs, output, asked, servers) ==
    LET control == UsedControl(asked, inputs)
        stability == IngestStability(inputs)
    IN  [global    |-> global,
         input     |-> inputs,
         output    |-> output,
         errors    |-> DecoderErrorMode(stability),
         xerror    |-> stability = "strict",
         reconnect |-> stability = "strict" \/ control.process.reconnect,
         targets   |-> Targets(asked, inputs, servers),
         hls       |-> control.hls,
         files     |-> IngestFiles(control.hls),
         rules     |-> CleanupRules(control.hls)]

-----------------------------------------------------------------------------
(* The processes that read the playlist of the channel *)

SnapshotProcess(control) ==
    [input     |-> MasterFile(control.hls),
     file      |-> [fs |-> "memfs", where |-> "root", ext |-> "jpg"],
     autostart |-> control.snapshot.enable /\ control.process.autostart,
     reconnect |-> control.snapshot.enable]

PreviewProcess(control) ==
    [input     |-> MasterFile(control.hls),
     file      |-> [fs |-> "memfs", where |-> "flat", ext |-> "ts"],
     autostart |-> control.preview.enable /\ control.process.autostart,
     reconnect |-> control.preview.enable /\ control.process.reconnect]
=============================================================================
