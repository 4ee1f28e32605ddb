------------------------------ MODULE Coders_proof ------------------------------
(* Lemmas about lists of options and the coders of the registries, which the theorems
   about the page of a channel and those of a publication rest on. *)
EXTENDS EncodingSelect, FiniteSetTheorems, SequenceTheorems, WellFoundedInduction, TLAPS

-----------------------------------------------------------------------------
(* Lists of options *)

\* A sequence is a list of its elements.
LEMMA ListDef ==
    ASSUME NEW S, NEW s \in Seq(S)
    PROVE  IsList(s) /\ Len(s) \in Nat /\ DOMAIN s = 1..Len(s) /\ ToSet(s) \subseteq S
<1>1. DOMAIN s = 1..Len(s) /\ Len(s) \in Nat /\ \A i \in 1..Len(s) : s[i] \in S
  OBVIOUS
<1>2. \A i \in 1..Len(s) : s[i] \in ToSet(s)
  BY <1>1 DEF ToSet
<1>3. s = [i \in 1..Len(s) |-> s[i]]
  OBVIOUS
<1>4. s \in Seq(ToSet(s))
  BY <1>1, <1>2, <1>3
<1> QED
  BY <1>1, <1>4 DEF IsList, ToSet

\* A list has a length, and its positions are those up to it.
LEMMA ListType == ASSUME NEW s, IsList(s)
                  PROVE  Len(s) \in Nat /\ DOMAIN s = 1..Len(s)
BY DEF IsList

\* Two lists make a list of the elements of both, the second of which is its end.
LEMMA Concatenation ==
    ASSUME NEW a, NEW b, IsList(a), IsList(b)
    PROVE  /\ IsList(a \o b) /\ ToSet(a \o b) = ToSet(a) \cup ToSet(b)
           /\ Len(a \o b) = Len(a) + Len(b)
           /\ SubSeq(a \o b, Len(a) + 1, Len(a \o b)) = b
<1> DEFINE S == ToSet(a) \cup ToSet(b)
           c == a \o b
<1>1. a \in Seq(S) /\ b \in Seq(S)
  BY DEF IsList
<1>2. \A x \in S : (\E i \in 1..Len(a) : x = a[i]) \/ (\E i \in 1..Len(b) : x = b[i])
  BY DEF IsList, ToSet
<1> HIDE DEF S
<1>3. /\ c \in Seq(S) /\ Len(c) = Len(a) + Len(b)
      /\ \A i \in 1..Len(a) : c[i] = a[i]
      /\ \A i \in 1..Len(b) : c[i + Len(a)] = b[i]
      /\ Len(a) \in Nat /\ Len(b) \in Nat
  BY <1>1
<1> HIDE DEF c
<1>4. ASSUME NEW x \in S PROVE \E i \in 1..Len(c) : x = c[i]
  <2>1. CASE \E i \in 1..Len(a) : x = a[i]
    BY <1>3, <2>1
  <2>2. CASE \E i \in 1..Len(b) : x = b[i]
    <3> PICK i \in 1..Len(b) : x = b[i]
      BY <2>2
    <3>1. i + Len(a) \in 1..Len(c)
      BY <1>3
    <3>2. x = c[i + Len(a)]
      BY <1>3
    <3> QED
      BY <3>1, <3>2
  <2> QED
    BY <1>2, <2>1, <2>2
<1>5. ToSet(c) = S
  <2>1. DOMAIN c = 1..Len(c) /\ \A i \in 1..Len(c) : c[i] \in S
    BY <1>3
  <2> QED
    BY <1>4, <2>1 DEF ToSet
<1>6. SubSeq(c, Len(a) + 1, Len(c)) = b
  <2> DEFINE d == SubSeq(c, Len(a) + 1, Len(c))
  <2>1. d \in Seq(S) /\ Len(d) = Len(b)
    BY <1>3
  <2>2. \A i \in 1..Len(b) : d[i] = c[Len(a) + i]
    BY <1>3
  <2> HIDE DEF d
  <2>3. \A i \in 1..Len(b) : d[i] = b[i]
    BY <1>3, <2>2
  <2>4. d = b
    BY <1>1, <2>1, <2>3
  <2> QED
    BY <2>4 DEF d
<1> QED
  BY <1>3, <1>5, <1>6 DEF IsList, S, c

\* No options speak of no coder.
LEMMA NoOptions == Free(<<>>) /\ ToSet(<<>>) = {}
BY DEF Free, IsList, ToSet

\* One option is a list; it is free unless it is one of a coder.
LEMMA OneOption ==
    ASSUME NEW n, NEW v
    PROVE  /\ IsList(<< <<n, v>> >>) /\ ToSet(<< <<n, v>> >>) = {<<n, v>>}
           /\ Len(<< <<n, v>> >>) = 1
           /\ n \notin Reserved => Free(<< <<n, v>> >>)
<1> DEFINE x == <<n, v>>
           o == <<x>>
<1>1. x[1] = n
  OBVIOUS
<1> HIDE DEF x
<1>2. o \in Seq({x}) /\ Len(o) = 1 /\ o[1] = x
  OBVIOUS
<1>3. ToSet(o) = {x}
  BY <1>2 DEF ToSet
<1> QED
  BY <1>1, <1>2, <1>3 DEF IsList, Free, x

\* Free options stay free when they are put together.
LEMMA FreeConcat == ASSUME NEW a, NEW b, Free(a), Free(b) PROVE Free(a \o b)
BY Concatenation DEF Free

\* The values of an option in two lists.
LEMMA Named ==
    ASSUME NEW a, NEW b, IsList(a), IsList(b), NEW name
    PROVE  OptionsNamed(a \o b, name) = OptionsNamed(a, name) \cup OptionsNamed(b, name)
<1>1. ASSUME NEW o, IsList(o)
      PROVE  OptionsNamed(o, name) = { x[2] : x \in { y \in ToSet(o) : y[1] = name } }
  BY <1>1 DEF OptionsNamed, ToSet
<1>2. IsList(a \o b) /\ ToSet(a \o b) = ToSet(a) \cup ToSet(b)
  BY Concatenation
<1>3. OptionsNamed(a \o b, name) = { x[2] : x \in { y \in ToSet(a) \cup ToSet(b) : y[1] = name } }
  BY <1>1, <1>2
<1> QED
  BY <1>1, <1>3

\* Free options give no coder any value.
LEMMA NamedFree ==
    ASSUME NEW o, Free(o), NEW name \in Reserved
    PROVE  OptionsNamed(o, name) = {}
BY DEF OptionsNamed, Free, ToSet

\* The value one option gives to its name.
LEMMA NamedOne ==
    ASSUME NEW n, NEW v, NEW name
    PROVE  OptionsNamed(<< <<n, v>> >>, name) = IF n = name THEN {v} ELSE {}
BY DEF OptionsNamed

\* The least of some natural numbers.
LEMMA Least ==
    ASSUME NEW T, T \subseteq Nat, T # {}
    PROVE  LET l == CHOOSE i \in T : \A j \in T : i <= j IN l \in T
<1>1. PICK x \in T : \A y \in T : <<y, x>> \notin OpToRel(<, Nat)
  BY NatLessThanWellFounded, WFMin
<1>2. \A y \in T : ~(y < x)
  BY <1>1 DEF OpToRel
<1>3. \A y \in T : x <= y
  BY <1>2
<1> QED
  BY <1>3

-----------------------------------------------------------------------------
(* The coders *)

Groups == {"rate", "gop", "gop as set", "keyint", "keyint of a second", "fps_mode", "profile",
           "profile as set", "adts"}
Grouped(c) == c.groups \in Seq(Groups) /\ Len(c.groups) <= 5
Headed(c, type) ==
    c.first = IF c.coder = "none" THEN << <<OffOption(type), "">> >>
              ELSE << <<CodecOption(type), c.coder>> >>
\* What a coder is called, and what ffmpeg makes with it.
Makes(c) ==
    /\ c.coder # "null" /\ (c.codec = "copy" <=> c.coder = "copy")
    /\ c.coder = "none" => c.codec = "none"
    /\ \/ c.coder \in {"copy", "none"}
       \/ c.codec \in DOMAIN EncoderCodecs /\ c.coder \in EncoderCodecs[c.codec]

\* The video encoders, as a set.
LEMMA VideoRegistry ==
    ToSet(Encoders.video) =
        {VideoCopy, VideoNone, X264, H264VideoToolbox, H264NVENC, H264OMX, H264V4L2M2M, H264VAAPI,
         X265, HEVCVAAPI, HEVCVideoToolbox, HEVCNVENC, VP9VPX, VP9VAAPI, AV1AOM, AV1Rav1e,
         AV1NVENC, VideoRaw}
BY DEF Encoders, ToSet

\* The audio encoders, as a set.
LEMMA AudioRegistry ==
    ToSet(Encoders.audio) =
        {AudioCopy, AudioNone, AAC, AACAudioToolbox, AACFDK, MP3, Opus, Libopus, Vorbis, Libvorbis}
BY DEF Encoders, ToSet

Proper(c, type, coder, codec) ==
    c.coder = coder /\ c.codec = codec /\ Grouped(c) /\ Headed(c, type)

\* The coders that leave a type out are what a coder has to be.
LEMMA NoneCoders == Proper(VideoNone, "video", "none", "none") /\ Proper(AudioNone, "audio", "none", "none")
<1>1. /\ VideoNone.coder = "none" /\ VideoNone.codec = "none" /\ VideoNone.groups = <<>>
      /\ AudioNone.coder = "none" /\ AudioNone.codec = "none" /\ AudioNone.groups = <<>>
  BY DEF VideoNone, AudioNone, Video, Audio
<1>2. VideoNone.first = << <<"-vn", "">> >> /\ AudioNone.first = << <<"-an", "">> >>
  BY DEF VideoNone, AudioNone, Video, Audio
<1>3. Headed(VideoNone, "video") /\ Headed(AudioNone, "audio")
  BY <1>1, <1>2 DEF Headed, OffOption
<1>4. Grouped(VideoNone) /\ Grouped(AudioNone)
  BY <1>1 DEF Grouped
<1> QED
  BY <1>1, <1>3, <1>4 DEF Proper

\* Every video encoder has few groups of options, begins with its own choice and makes its codec.
LEMMA VideoCoders == \A c \in ToSet(Encoders.video) : Grouped(c) /\ Headed(c, "video") /\ Makes(c)
<1> USE DEF Video, Vaapi, Proper, Grouped, Groups, Headed, CodecOption, OffOption
<1>1. Proper(VideoCopy, "video", "copy", "copy") BY DEF VideoCopy
<1>2. Proper(VideoNone, "video", "none", "none")
  BY NoneCoders
<1>3. Proper(X264, "video", "libx264", "h264") BY DEF X264
<1>4. Proper(H264VideoToolbox, "video", "h264_videotoolbox", "h264") BY DEF H264VideoToolbox
<1>5. Proper(H264NVENC, "video", "h264_nvenc", "h264") BY DEF H264NVENC
<1>6. Proper(H264OMX, "video", "h264_omx", "h264") BY DEF H264OMX
<1>7. Proper(H264V4L2M2M, "video", "h264_v4l2m2m", "h264") BY DEF H264V4L2M2M
<1>8. Proper(H264VAAPI, "video", "h264_vaapi", "h264") BY DEF H264VAAPI
<1>9. Proper(X265, "video", "libx265", "hevc") BY DEF X265
<1>10. Proper(HEVCVAAPI, "video", "hevc_vaapi", "hevc") BY DEF HEVCVAAPI
<1>11. Proper(HEVCVideoToolbox, "video", "hevc_videotoolbox", "hevc") BY DEF HEVCVideoToolbox
<1>12. Proper(HEVCNVENC, "video", "hevc_nvenc", "hevc") BY DEF HEVCNVENC
<1>13. Proper(VP9VPX, "video", "libvpx-vp9", "vp9") BY DEF VP9VPX
<1>14. Proper(VP9VAAPI, "video", "vp9_vaapi", "vp9") BY DEF VP9VAAPI
<1>15. Proper(AV1AOM, "video", "libaom-av1", "av1") BY DEF AV1AOM
<1>16. Proper(AV1Rav1e, "video", "librav1e", "av1") BY DEF AV1Rav1e
<1>17. Proper(AV1NVENC, "video", "av1_nvenc", "av1") BY DEF AV1NVENC
<1>18. Proper(VideoRaw, "video", "rawvideo", "rawvideo") BY DEF VideoRaw
<1> HIDE DEF Video, Vaapi, Grouped, Groups, Headed, CodecOption, OffOption
<1> QED
  BY VideoRegistry, <1>1, <1>2, <1>3, <1>4, <1>5, <1>6, <1>7, <1>8, <1>9, <1>10, <1>11,
     <1>12, <1>13, <1>14, <1>15, <1>16, <1>17, <1>18 DEF Makes, EncoderCodecs

\* So does every audio encoder.
LEMMA AudioCoders == \A c \in ToSet(Encoders.audio) : Grouped(c) /\ Headed(c, "audio") /\ Makes(c)
<1> USE DEF Audio, VsyncDrop, Proper, Grouped, Groups, Headed, CodecOption, OffOption
<1>1. Proper(AudioCopy, "audio", "copy", "copy") BY DEF AudioCopy
<1>2. Proper(AudioNone, "audio", "none", "none")
  BY NoneCoders
<1>3. Proper(AAC, "audio", "aac", "aac") BY DEF AAC
<1>4. Proper(AACAudioToolbox, "audio", "aac_at", "aac") BY DEF AACAudioToolbox
<1>5. Proper(AACFDK, "audio", "libfdk_aac", "aac") BY DEF AACFDK
<1>6. Proper(MP3, "audio", "libmp3lame", "mp3") BY DEF MP3
<1>7. Proper(Opus, "audio", "opus", "opus") BY DEF Opus
<1>8. Proper(Libopus, "audio", "libopus", "opus") BY DEF Libopus
<1>9. Proper(Vorbis, "audio", "vorbis", "vorbis") BY DEF Vorbis
<1>10. Proper(Libvorbis, "audio", "libvorbis", "vorbis") BY DEF Libvorbis
<1> HIDE DEF Audio, VsyncDrop, Grouped, Groups, Headed, CodecOption, OffOption
<1> QED
  BY AudioRegistry, <1>1, <1>2, <1>3, <1>4, <1>5, <1>6, <1>7, <1>8, <1>9, <1>10 DEF Makes,
     EncoderCodecs

\* A coder of ffmpeg is for one codec.
LEMMA OneCodec ==
    \A c, d \in DOMAIN EncoderCodecs :
        \A x : x \in EncoderCodecs[c] /\ x \in EncoderCodecs[d] => c = d
BY DEF EncoderCodecs

\* So does every encoder of a type.
LEMMA Coder ==
    ASSUME NEW type \in Media, NEW c \in ToSet(Encoders[type])
    PROVE  Grouped(c) /\ Headed(c, type) /\ Makes(c) /\ c # NoCoder
BY VideoCoders, AudioCoders DEF Media, Makes, NoCoder

\* Coders of a name are for the same codec.
LEMMA SameCodec ==
    ASSUME NEW type \in Media, NEW c \in ToSet(Encoders[type]), NEW d \in ToSet(Encoders[type]),
           c.coder = d.coder
    PROVE  c.codec = d.codec
BY Coder, OneCodec DEF Makes

\* A coder that is found by its name is of the registry, and has that name.
LEMMA Found ==
    ASSUME NEW type \in Media, NEW coder, Get(Encoders[type], coder) # NoCoder
    PROVE  /\ Get(Encoders[type], coder) \in ToSet(Encoders[type])
           /\ Get(Encoders[type], coder).coder = coder
BY DEF Get

\* A coder of the registry is found by its name, or one that makes the same.
LEMMA Known ==
    ASSUME NEW type \in Media, NEW c \in ToSet(Encoders[type])
    PROVE  /\ Get(Encoders[type], c.coder) \in ToSet(Encoders[type])
           /\ Get(Encoders[type], c.coder).coder = c.coder
           /\ Get(Encoders[type], c.coder).codec = c.codec
           /\ Get(Encoders[type], c.coder) # NoCoder
<1> DEFINE d == Get(Encoders[type], c.coder)
<1>1. d \in ToSet(Encoders[type]) /\ d.coder = c.coder
  BY DEF Get
<1> HIDE DEF d
<1>2. d.codec = c.codec /\ d # NoCoder
  BY <1>1, SameCodec, Coder
<1> QED
  BY <1>1, <1>2 DEF d

\* The registries are lists.
LEMMA RegistryDomain == \A type \in Media : DOMAIN Encoders[type] \subseteq Nat
<1>1. DOMAIN Encoders["video"] = 1..18
  BY DEF Encoders
<1>2. DOMAIN Encoders["audio"] = 1..10
  BY DEF Encoders
<1> QED
  BY <1>1, <1>2 DEF Media

\* A coder that is found for a codec makes it, and ffmpeg has it.
LEMMA FoundForCodec ==
    ASSUME NEW type \in Media, NEW codec, NEW available,
           GetCoderForCodec(Encoders[type], codec, available) # NoCoder
    PROVE  LET c == GetCoderForCodec(Encoders[type], codec, available)
           IN  c \in ToSet(Encoders[type]) /\ c.codec = codec /\ c.coder \in available
<1> DEFINE r == Encoders[type]
           fits == { i \in DOMAIN r : r[i].codec = codec /\ r[i].coder \in available }
           l == CHOOSE i \in fits : \A j \in fits : i <= j
<1>1. fits \subseteq Nat /\ fits # {}
  BY RegistryDomain DEF GetCoderForCodec
<1>2. l \in fits
  BY <1>1, Least
<1>3. GetCoderForCodec(r, codec, available) = r[l]
  BY <1>1 DEF GetCoderForCodec
<1> HIDE DEF l
<1> QED
  BY <1>2, <1>3 DEF ToSet

\* createMapping lists at most five groups of options: what FlattenSeq makes of them can
\* be written out.
LEMMA WrittenOut ==
    ASSUME NEW s, NEW n \in 1..5
    PROVE  \E w : w = [i \in 1..n |-> IF i = 1 THEN s[i] ELSE w[i - 1] \o s[i]]
<1> DEFINE two == s[1] \o s[2]
           three == two \o s[3]
           four == three \o s[4]
           five == four \o s[5]
<1> HIDE DEF two, three, four, five
<1> DEFINE w == [i \in 1..n |-> IF i = 1 THEN s[1] ELSE IF i = 2 THEN two
                                ELSE IF i = 3 THEN three ELSE IF i = 4 THEN four ELSE five]
<1>1. /\ w[1] = s[1] /\ (n >= 2 => w[2] = two) /\ (n >= 3 => w[3] = three)
      /\ (n >= 4 => w[4] = four) /\ (n >= 5 => w[5] = five)
  OBVIOUS
<1>2. w = [i \in 1..n |-> w[i]]
  OBVIOUS
<1> HIDE DEF w
<1>4. \A i \in 1..n : w[i] = IF i = 1 THEN s[i] ELSE w[i - 1] \o s[i]
  <2> TAKE i \in 1..n
  <2>1. CASE i = 1
    BY <1>1, <2>1
  <2>2. CASE i = 2
    <3>1. i - 1 = 1 /\ n >= 2
      BY <2>2
    <3>2. w[i] = two /\ w[i - 1] = s[1]
      BY <1>1, <2>2, <3>1
    <3> QED
      BY <2>2, <3>2 DEF two
  <2>3. CASE i = 3
    <3>1. i - 1 = 2 /\ n >= 3
      BY <2>3
    <3>2. w[i] = three /\ w[i - 1] = two
      BY <1>1, <2>3, <3>1
    <3> QED
      BY <2>3, <3>2 DEF three
  <2>4. CASE i = 4
    <3>1. i - 1 = 3 /\ n >= 4
      BY <2>4
    <3>2. w[i] = four /\ w[i - 1] = three
      BY <1>1, <2>4, <3>1
    <3> QED
      BY <2>4, <3>2 DEF four
  <2>5. CASE i = 5
    <3>1. i - 1 = 4 /\ n >= 5
      BY <2>5
    <3>2. w[i] = five /\ w[i - 1] = four
      BY <1>1, <2>5, <3>1
    <3> QED
      BY <2>5, <3>2 DEF five
  <2> QED
    BY <2>1, <2>2, <2>3, <2>4, <2>5
<1>3. w = [i \in 1..n |-> IF i = 1 THEN s[i] ELSE w[i - 1] \o s[i]]
  BY <1>4, <1>2, Zenon
<1> QED
  BY <1>3

\* A list of elements of a set
Of(o, O) == IsList(o) /\ ToSet(o) \subseteq O

\* A few lists of some elements are a list of these elements together.
LEMMA Joined ==
    ASSUME NEW T, NEW s \in Seq(T), Len(s) <= 5, NEW O, \A i \in 1..Len(s) : Of(s[i], O)
    PROVE  Of(FlattenSeq(s), O)
<1> DEFINE n == Len(s)
           f == CHOOSE g : g = [i \in 1..n |-> IF i = 1 THEN s[i] ELSE g[i - 1] \o s[i]]
<1>0. n \in Nat /\ n <= 5
  OBVIOUS
<1>1. CASE n = 0
  <2>1. FlattenSeq(s) = s /\ s = <<>>
    BY <1>1 DEF FlattenSeq
  <2> QED
    BY <2>1, NoOptions DEF Of, Free
<1>2. CASE n # 0
  <2> HIDE DEF f, n
  <2>1. n \in 1..5
    BY <1>0, <1>2
  <2>2. f = [i \in 1..n |-> IF i = 1 THEN s[i] ELSE f[i - 1] \o s[i]]
    BY <2>1, WrittenOut, Zenon DEF f
  <2>3. FlattenSeq(s) = f[n]
    BY <1>2 DEF FlattenSeq, f, n
  <2>5. \A i \in 1..n : Of(s[i], O)
    BY DEF n
  <2>4. \A i \in 1..n : f[i] = IF i = 1 THEN s[i] ELSE f[i - 1] \o s[i]
    BY <2>2, Zenon
  <2>6. Of(f[1], O)
    BY <2>4, <2>5, <2>1
  <2>7. ASSUME NEW i \in 2..5, i <= n, Of(f[i - 1], O) PROVE Of(f[i], O)
    <3>0. i \in 1..n /\ i # 1
      BY <2>1, <2>7
    <3>1. f[i] = f[i - 1] \o s[i] /\ Of(s[i], O)
      BY <2>4, <2>5, <3>0
    <3> DEFINE a == f[i - 1]
               b == s[i]
    <3> HIDE DEF a, b
    <3>2. Of(a \o b, O)
      BY <3>1, <2>7, Concatenation DEF Of, a, b
    <3> QED
      BY <3>1, <3>2 DEF a, b
  <2>8. n >= 2 => Of(f[2], O)
    BY <2>6, <2>7
  <2>9. n >= 3 => Of(f[3], O)
    BY <2>7, <2>8, <2>1
  <2>10. n >= 4 => Of(f[4], O)
    BY <2>7, <2>9, <2>1
  <2>11. n >= 5 => Of(f[5], O)
    BY <2>7, <2>10, <2>1
  <2> QED
    BY <2>1, <2>3, <2>6, <2>8, <2>9, <2>10, <2>11
<1> QED
  BY <1>1, <1>2

\* Options of an encoder that neither choose one nor a format.
Plain(o) == Free(o) /\ \A x \in ToSet(o) : x[1] # "-f"

\* A few lists of plain options are plain together.
LEMMA Flattened ==
    ASSUME NEW T, NEW s \in Seq(T), Len(s) <= 5, \A i \in 1..Len(s) : Plain(s[i])
    PROVE  Plain(FlattenSeq(s))
<1> DEFINE O == UNION { ToSet(s[i]) : i \in 1..Len(s) }
<1>1. \A i \in 1..Len(s) : Of(s[i], O)
  BY DEF Of, Plain, Free
<1>2. \A x \in O : x[1] \notin Reserved /\ x[1] # "-f"
  BY DEF Plain, Free
<1> HIDE DEF O
<1>3. Of(FlattenSeq(s), O)
  BY <1>1, Joined
<1> QED
  BY <1>2, <1>3 DEF Of, Plain, Free

(* The options of the settings of a coder choose neither a coder nor a format (Encoders/*.js
   createMapping). *)
LEMMA OptionOfGroup ==
    ASSUME NEW g \in Groups, NEW s, NEW stream, NEW ff
    PROVE  Plain(Options(g, s, stream, ff))
<1>1. \/ Options(g, s, stream, ff) = <<>>
      \/ \E n \in {"-r", "-g", "-keyint_min", "-fps_mode", "-profile:v", "-bsf:a"} :
            \E v : Options(g, s, stream, ff) = << <<n, v>> >>
  BY DEF Groups, Options
<1>2. ASSUME NEW n \in {"-r", "-g", "-keyint_min", "-fps_mode", "-profile:v", "-bsf:a"}, NEW v
      PROVE  Plain(<< <<n, v>> >>)
  <2> DEFINE x == <<n, v>>
             o == <<x>>
  <2>1. n \notin Reserved /\ n # "-f" /\ x[1] = n
    BY DEF Reserved
  <2>2. Free(o) /\ ToSet(o) = {x}
    BY <2>1, OneOption
  <2> HIDE DEF x, o
  <2>3. Plain(o)
    BY <2>1, <2>2 DEF Plain
  <2> QED
    BY <2>3 DEF o, x
<1>3. Plain(<<>>)
  BY NoOptions DEF Plain
<1> QED
  BY <1>1, <1>2, <1>3

\* Options that choose an encoder of a type, or none, and say nothing of the other type or a format.
Chooses(local, type, coder) ==
    /\ IsList(local) /\ OptionsNamed(local, "-f") = {}
    /\ \A t \in Media \ {type} : /\ OptionsNamed(local, CodecOption(t)) = {}
                                 /\ OptionsNamed(local, OffOption(t)) = {}
    /\ IF coder = "none" THEN OptionsNamed(local, OffOption(type)) # {}
       ELSE /\ OptionsNamed(local, CodecOption(type)) = {coder}
            /\ OptionsNamed(local, OffOption(type)) = {}

\* The options that choose a coder or leave a type out.
LEMMA OptionNames ==
    /\ CodecOption("video") = "-codec:v" /\ CodecOption("audio") = "-codec:a"
    /\ OffOption("video") = "-vn" /\ OffOption("audio") = "-an"
    /\ \A type \in Media : CodecOption(type) \in Reserved /\ OffOption(type) \in Reserved
BY DEF CodecOption, OffOption, Reserved, Media

\* The options a coder makes of any settings choose this coder, or leave the type out (createMapping).
LEMMA MappingChooses ==
    ASSUME NEW type \in Media, NEW c \in ToSet(Encoders[type]), NEW s, NEW stream, NEW ff
    PROVE  /\ Chooses(CreateMapping(c, s, stream, ff).local, type, c.coder)
           /\ DOMAIN CreateMapping(c, s, stream, ff) = {"global", "local", "filter"}
<1> DEFINE groups == [i \in DOMAIN c.groups |-> Options(c.groups[i], s, stream, ff)]
           rest == FlattenSeq(groups)
           local == c.first \o rest
           T == { Options(g, s, stream, ff) : g \in Groups }
<1>1. c.groups \in Seq(Groups) /\ Len(c.groups) <= 5 /\ Headed(c, type)
  BY Coder DEF Grouped
<1>2. groups \in Seq(T) /\ Len(groups) = Len(c.groups)
      /\ \A i \in 1..Len(groups) : groups[i] = Options(c.groups[i], s, stream, ff)
  BY <1>1
<1>3. \A i \in 1..Len(groups) : Plain(groups[i])
  <2> TAKE i \in 1..Len(groups)
  <2>1. c.groups[i] \in Groups
    BY <1>1, <1>2
  <2> QED
    BY <1>2, <2>1, OptionOfGroup
<1> HIDE DEF groups, T
<1>4. Plain(rest) /\ Free(rest)
  BY <1>1, <1>2, <1>3, Flattened DEF Plain
<1>5. CreateMapping(c, s, stream, ff) = [global |-> c.global, local |-> local, filter |-> c.filter]
  BY DEF CreateMapping, groups
<1> HIDE DEF rest
<1>6. \E n, v : c.first = << <<n, v>> >> /\ IF c.coder = "none" THEN n = OffOption(type)
                                            ELSE n = CodecOption(type) /\ v = c.coder
  BY <1>1 DEF Headed
<1>7. PICK n, v : c.first = << <<n, v>> >> /\ IF c.coder = "none" THEN n = OffOption(type)
                                            ELSE n = CodecOption(type) /\ v = c.coder
  BY <1>6
<1>8. IsList(c.first) /\ IsList(rest) /\ IsList(local)
  BY <1>4, <1>7, OneOption, Concatenation DEF Free
<1>9. \A name \in Reserved \cup {"-f"} : OptionsNamed(local, name) = IF n = name THEN {v} ELSE {}
  <2> TAKE name \in Reserved \cup {"-f"}
  <2>1. OptionsNamed(local, name) = OptionsNamed(c.first, name) \cup OptionsNamed(rest, name)
    BY <1>8, Named
  <2>2. OptionsNamed(rest, name) = {}
    BY <1>4 DEF Plain, Free, OptionsNamed, ToSet
  <2>3. OptionsNamed(c.first, name) = IF n = name THEN {v} ELSE {}
    BY <1>7, NamedOne
  <2> QED
    BY <2>1, <2>2, <2>3
<1> HIDE DEF local
<1>10. n # "-f" /\ OptionsNamed(local, "-f") = {}
  <2>1. n # "-f"
    BY <1>7 DEF CodecOption, OffOption
  <2> QED
    BY <1>9, <2>1
<1>11. Chooses(local, type, c.coder)
  <2>1. CASE type = "video"
    BY <1>7, <1>8, <1>9, <1>10, OptionNames, <2>1 DEF Chooses, Media
  <2>2. CASE type = "audio"
    BY <1>7, <1>8, <1>9, <1>10, OptionNames, <2>2 DEF Chooses, Media
  <2> QED
    BY <2>1, <2>2 DEF Media
<1> QED
  BY <1>5, <1>11

\* An encoder with the options of its coder.
IsChosen(e, type) == IsEncoder(e, type) /\ Chooses(e.mapping.local, type, e.coder)

\* An encoder with the options of its coder chooses it.
LEMMA ChosenMapping ==
    ASSUME NEW type \in Media, NEW c \in ToSet(Encoders[type]), NEW s, NEW stream, NEW ff, NEW e,
           HasFields(e, {"coder", "settings", "mapping"}), e.coder = c.coder,
           e.mapping = CreateMapping(c, s, stream, ff)
    PROVE  IsChosen(e, type)
<1> DEFINE m == CreateMapping(c, s, stream, ff)
<1>1. Chooses(m.local, type, c.coder) /\ DOMAIN m = {"global", "local", "filter"}
  BY MappingChooses
<1> HIDE DEF m
<1>2. Chooses(e.mapping.local, type, e.coder) /\ DOMAIN e.mapping = {"global", "local", "filter"}
  BY <1>1 DEF m
<1>3. IsEncoder(e, type)
  BY <1>2 DEF IsEncoder, Chooses, HasFields
<1> QED
  BY <1>2, <1>3 DEF IsChosen

\* What a coder hands back when it is mounted chooses it.
LEMMA HandedChooses ==
    ASSUME NEW type \in Media, NEW e, Get(Encoders[type], e.coder) # NoCoder, NEW stream, NEW ff
    PROVE  /\ IsChosen(Handed(e, Encoders[type], stream, ff), type)
           /\ Handed(e, Encoders[type], stream, ff).coder = e.coder
<1> DEFINE c == Get(Encoders[type], e.coder)
           h == Handed(e, Encoders[type], stream, ff)
<1>1. c \in ToSet(Encoders[type]) /\ c.coder = e.coder
  BY Found
<1>2. /\ HasFields(h, {"coder", "settings", "mapping"}) /\ h.coder = e.coder
      /\ h.mapping = CreateMapping(c, h.settings, stream, ff.ffmpeg)
  BY DEF Handed, HasFields
<1> HIDE DEF c, h
<1>3. IsChosen(h, type)
  BY <1>1, <1>2, ChosenMapping
<1> QED
  BY <1>2, <1>3 DEF h

\* A coder with its default settings chooses itself.
LEMMA DefaultsChoose ==
    ASSUME NEW type \in Media, NEW c \in ToSet(Encoders[type]), NEW stream, NEW ff
    PROVE  IsChosen(WithDefaults(c, stream, ff), type) /\ WithDefaults(c, stream, ff).coder = c.coder
<1> DEFINE h == WithDefaults(c, stream, ff)
<1>1. /\ HasFields(h, {"coder", "settings", "mapping"}) /\ h.coder = c.coder
      /\ h.mapping = CreateMapping(c, c.defaults, stream, ff.ffmpeg)
  BY DEF WithDefaults, Defaults, HasFields
<1> HIDE DEF h
<1>2. IsChosen(h, type)
  BY <1>1, ChosenMapping
<1> QED
  BY <1>1, <1>2 DEF h

\* Other key frames leave the choice of the coder.
LEMMA KeyFramesChoose ==
    ASSUME NEW e, IsEncoder(e, "video"), Get(Encoders["video"], e.coder) # NoCoder,
           NEW gop, NEW stream, NEW ff
    PROVE  IsChosen(WithKeyFrames(e, gop, stream, ff), "video")
           /\ WithKeyFrames(e, gop, stream, ff).coder = e.coder
<1> DEFINE h == WithKeyFrames(e, gop, stream, ff)
           c == Get(Encoders["video"], e.coder)
<1>1. c \in ToSet(Encoders["video"]) /\ c.coder = e.coder
  BY Found DEF Media
<1>2. Encoders.video = Encoders["video"]
  OBVIOUS
<1>3. /\ HasFields(h, {"coder", "settings", "mapping"}) /\ h.coder = e.coder
      /\ \E s : h.mapping = CreateMapping(c, s, stream, ff.ffmpeg)
  BY <1>2 DEF WithKeyFrames, IsEncoder, HasFields
<1> HIDE DEF h, c
<1>4. IsChosen(h, "video")
  BY <1>1, <1>3, ChosenMapping DEF Media
<1> QED
  BY <1>3, <1>4 DEF h
==============================================================================
