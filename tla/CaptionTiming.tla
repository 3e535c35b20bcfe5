---------------------------- MODULE CaptionTiming ----------------------------
(***************************************************************************)
(* When captions and pictures change while one block is spoken: the plan   *)
(* of its narration, sentence by sentence (services/narration.py, voice.py), *)
(* the captions made of it (services/subtitles.py, presentation.py), and   *)
(* the pictures shown meanwhile (pipeline.py).  The audio stage measures   *)
(* once, the render stage lays out as often as the project is rendered     *)
(* again with other settings.                                              *)
(*                                                                         *)
(* A text is a sequence of classes of characters: "x" a kanji, "h" a       *)
(* hiragana, "i" a letter of an identifier, "." and "!" the marks that end *)
(* sentences, "," a comma and " " a blank.  Times are in milliseconds at   *)
(* speed 1; a moment inside a sentence is a rational <<n, d>>.             *)
(***************************************************************************)
EXTENDS TextCutting

CONSTANTS Texts,     \* narrations
          SpeechMs,  \* how long a sentence may be spoken; 0: nothing pronounceable
          Pauses,    \* pauses between sentences
          Drifts,    \* measured minus predicted duration of the audio
          Layouts,   \* band height, font size and characters per line
          Images,    \* numbers of pictures a block may have
          Focuses,   \* what each sentence names in the picture; 0: nothing
          MaxEvents, MaxVariants \* bounds of focus_slides: changes of picture, variants

VARIABLES text,   \* tts_text of the block
          audio,  \* duration_ms and narration.json
          video   \* what is rendered

vars == <<text, audio, video>>

Margin == 100        \* prePhonemeLength and postPhonemeLength
MinSlideMs == 2000   \* MIN_SLIDE_MS
MinCueMs == 1200     \* min_cue_ms
Fps == 30            \* output_fps
Least(a, b) == IF a < b THEN a ELSE b
Most(a, b) == IF a < b THEN b ELSE a
\* Python's round: halves go to the even neighbour.
Round(t) ==
  LET q == t[1] \div t[2]  r == t[1] % t[2] IN
  IF 2 * r < t[2] \/ (2 * r = t[2] /\ q % 2 = 0) THEN q ELSE q + 1

-----------------------------------------------------------------------------
(* Cutting texts.                                                          *)

Enders == {".", "!"}

\* "insert!" before a letter or a particle is a name and ends no sentence.
IsIdentifierSuffix(s, k) ==
  /\ s[k] = "!" /\ k > 1 /\ k < Len(s)
  /\ s[k - 1] = "i" /\ s[k + 1] \in {"i", "h"}

\* split_sentences_with_offsets: the pieces tile the text; a blank tail belongs to the last
\* sentence.
Pieces(s) ==
  LET ends == {k \in DOMAIN s : s[k] \in Enders /\ ~IsIdentifierSuffix(s, k)}
      tail == IF ends = {} THEN s ELSE SubSeq(s, Max(ends) + 1, Len(s))
  IN CutAfter(s, IF ends # {} /\ tail # <<>> /\ Blank(tail) THEN ends \ {Max(ends)} ELSE ends)

\* _split_sentences of the captions.
Sentences(s) ==
  SelectSeq(CutAfter(s, {k \in DOMAIN s : s[k] \in Enders}), LAMBDA part : ~Blank(part))

\* Mutation of HardSplit: a long run loses its end.
HardSplitOnce(s, limit) == <<SubSeq(s, 1, limit)>>

\* _hard_split: pieces of at most limit characters, cut behind a hiragana where one is near
\* and no mark follows it.
HardSplit(s, limit) ==
  LET good(a) == {k \in Most(2, limit - 12) + 1 .. limit :
                    s[a + k] = "h" /\ s[a + k + 1] \notin {".", "!", ","}}
      next(a) == a + (IF good(a) # {} THEN Max(good(a)) ELSE limit)
      ends[a \in 0..Len(s)] == IF Len(s) - a > limit THEN {next(a)} \cup ends[next(a)] ELSE {}
  IN CutAfter(s, ends[0])

\* _split_soft: at commas, once half the limit is reached.
SoftSplit(s, limit) ==
  CutAfter(s, FoldLeft(LAMBDA ends, k :
                         IF s[k] = "," /\ k - Max(ends \cup {0}) >= limit \div 2
                         THEN ends \cup {k} ELSE ends,
                       {}, [k \in DOMAIN s |-> k]))

\* As many whole pieces on a line as fit.
Pack(pieces, limit) ==
  FoldLeft(LAMBDA lines, piece :
             IF lines # <<>> /\ Len(Last(lines)) + Len(piece) <= limit
             THEN Append(Front(lines), Last(lines) \o piece) ELSE Append(lines, piece),
           <<>>, pieces)

\* _wrap_japanese.
Wrap(body, limit) ==
  LET s == Strip(body) IN
  IF Len(s) <= limit THEN <<s>>
  ELSE Pack(Within(CutAfter(s, {k \in DOMAIN s : s[k] \in {".", "!", ","}}), limit, HardSplit), limit)

\* chunk_narration.
Chunks(body, limit) ==
  LET soft(s, n) == Within(SoftSplit(s, n), n, HardSplit) IN
  IF Len(body) <= limit THEN <<body>> ELSE Pack(Within(Sentences(body), limit, soft), limit)

-----------------------------------------------------------------------------
(* Laying out captions in the band under the picture.                      *)

\* Characters between the side margins of the frame, and lines in the band.
FrameChars(font) == Most(4, 1760 \div font)
Usable(layout) == Most(1, layout.band - 32)

Lines(body, layout, font) ==
  Wrap(body, Least(Most(8, (layout.chars * layout.font) \div font), FrameChars(font)))

Fits(body, layout, font) == 5 * Len(Lines(body, layout, font)) * font <= 4 * Usable(layout)

\* fit_text_to_band: the largest size that fits, or the smallest there is.
FontFor(body, layout) ==
  LET sizes == {z \in Least(24, layout.font)..layout.font : (layout.font - z) % 2 = 0}
      good == {z \in sizes : Fits(body, layout, z)}
  IN IF good # {} THEN Max(good) ELSE Min(sizes)

\* The layout a block keeps once the smallest of its sizes is chosen.
Shared(layout, font) ==
  [layout EXCEPT !.font = font, !.chars = (layout.chars * layout.font) \div font]

\* How many characters a caption takes: fewer and fewer until all captions fit in full size.
LineChars(layout) == Least(layout.chars, FrameChars(layout.font))
CharsPerCue(body, layout) ==
  LET line == LineChars(layout)
      most == Most(line, Most(1, (4 * Usable(layout)) \div (5 * layout.font)) * line)
      tried == {Most(line, most - k * Most(2, line \div 4)) : k \in 0..most}
      good == {c \in tried : LET chunks == Chunks(body, c) IN
                 \A k \in DOMAIN chunks : FontFor(chunks[k], layout) = layout.font}
  IN IF good # {} THEN Max(good) ELSE line

\* Captions that would flash by are joined to the one before.
Readable(chunks, limit, minimum, At(_)) ==
  LET soon(a, b) == b[1] * a[2] - a[1] * b[2] < minimum * a[2] * b[2] IN
  FoldLeft(LAMBDA acc, chunk :
             [chars |-> acc.chars + Len(chunk),
              chunks |-> IF /\ acc.chunks # <<>>
                            /\ soon(At(acc.chars), At(acc.chars + Len(chunk)))
                            /\ Len(Last(acc.chunks)) + Len(chunk) <= 2 * limit
                         THEN Append(Front(acc.chunks), Last(acc.chunks) \o chunk)
                         ELSE Append(acc.chunks, chunk)],
           [chars |-> 0, chunks |-> <<>>], chunks).chunks

\* Mutation of CueEnd: captions share the time by their lengths.
CueEndByLength(ms, chars, total, t) == Round(<<ms * chars, Most(1, total)>>)

\* A caption ends when its last character is spoken.
CueEnd(ms, chars, total, t) == Round(t)

\* One caption after another, each in the largest size it fits in.
Timed(chunks, total, ms, layout, At(_)) ==
  FoldLeft(LAMBDA acc, chunk :
    LET from == IF acc = <<>> THEN 0 ELSE Last(acc).end
        chars == (IF acc = <<>> THEN 0 ELSE Last(acc).chars) + Len(chunk)
        end == IF Len(acc) + 1 = Len(chunks) THEN ms
               ELSE Least(ms, Most(from + 1, CueEnd(ms, chars, total, At(chars))))
    IN Append(acc, [start |-> from, end |-> Most(from + 1, end), chars |-> chars,
                    lines |-> Lines(chunk, layout, FontFor(chunk, layout))]),
    <<>>, chunks)

\* In the smallest of their sizes.
InOneSize(chunks, font, total, ms, layout, At(_)) ==
  [cues |-> Timed(chunks, total, ms, IF font = layout.font THEN layout ELSE Shared(layout, font), At),
   font |-> font]

SmallestFont(chunks, layout) == Min({FontFor(chunks[k], layout) : k \in DOMAIN chunks})

\* build_band_cues.
Captions(chunks, total, ms, layout, At(_)) ==
  InOneSize(chunks, SmallestFont(chunks, layout), total, ms, layout, At)
CutAndReadable(body, limit, minimum, At(_)) == Readable(Chunks(body, limit), limit, minimum, At)
BandCues(narration, ms, layout, minimum, At(_)) ==
  IF Blank(narration) \/ ms <= 0 THEN [cues |-> <<>>, font |-> layout.font]
  ELSE LET body == Strip(narration) IN
       Captions(CutAndReadable(body, CharsPerCue(body, layout), minimum, At),
                Len(body), ms, layout, At)

-----------------------------------------------------------------------------
(* The narration.                                                          *)

\* _mora_weight, in tenths.
Mora == [x |-> 19, h |-> 10, i |-> 6] @@ ("." :> 3) @@ ("!" :> 3) @@ ("," :> 3) @@ (" " :> 0)
Weight(s) == FoldLeft(LAMBDA w, c : w + Mora[c], 0, s)

\* char_time_fn: exact at the ends of sentences, by weight inside them.
CharTime(spans, ms, offset) ==
  LET later == {k \in DOMAIN spans : offset < spans[k].to}
      span == spans[Min(later)]
      whole == Weight(SubSeq(text, span.from + 1, span.to))
      spoken == Weight(SubSeq(text, span.from + 1, offset))
  IN IF offset <= spans[1].from THEN <<spans[1].start, 1>>
     ELSE IF later = {} THEN <<Least(ms, Last(spans).end), 1>>
     ELSE IF whole = 0 THEN <<span.start, 1>>
     ELSE <<span.start * whole + spoken * (span.end - span.start), whole>>

\* The offsets of each piece.
From(pieces, k) == Len(FlattenSeq(SubSeq(pieces, 1, k - 1)))

\* rescale_spans: onto the duration the encoder produced.
Rescale(spans, predicted, actual) ==
  [k \in DOMAIN spans |->
    [spans[k] EXCEPT !.start = Round(<<@ * actual, predicted>>),
                     !.end = Least(actual, Round(<<@ * actual, predicted>>))]]

\* build_narration_plan: where each sentence starts and ends, given how long each is spoken
\* and the pause behind it; a sentence without sound has no pause, nor has the last one.
Plan(pieces, spoken, pause) ==
  LET lasts(k) == spoken[k] + (IF spoken[k] > 0 /\ k < Len(pieces) THEN pause[k] ELSE 0)
      until[k \in 0..Len(pieces)] == IF k = 0 THEN Margin ELSE until[k - 1] + lasts(k)
  IN [spans |-> [k \in DOMAIN pieces |->
                  [from |-> From(pieces, k), to |-> From(pieces, k + 1),
                   start |-> until[k - 1], end |-> until[k]]],
      ms |-> until[Len(pieces)] + Margin]

NoVideo == [cues |-> <<>>, font |-> 0, mode |-> "none", slides |-> <<>>, shown |-> "none", frames |-> <<>>,
            layout |-> CHOOSE l \in Layouts : TRUE]

Init ==
  /\ text \in Texts
  /\ audio = [ms |-> 0, spans |-> <<>>] /\ video = NoVideo

\* synthesize_block with a plan: something is spoken, and the file is measured.
Speak ==
  /\ audio.ms = 0 /\ ~Blank(text)
  /\ \E spoken \in [DOMAIN Pieces(text) -> SpeechMs],
        pause \in [1..(Len(Pieces(text)) - 1) -> Pauses], d \in Drifts :
       LET plan == Plan(Pieces(text), spoken, pause) IN
       /\ \E k \in DOMAIN spoken : spoken[k] > 0
       /\ audio' = [ms |-> plan.ms + d, spans |-> Rescale(plan.spans, plan.ms, plan.ms + d)]
  /\ UNCHANGED <<text, video>>

\* synthesize_audio: the engine is not there, or a query failed.
SpeakWhole ==
  /\ audio.ms = 0
  /\ \E spoken \in SpeechMs \ {0} : audio' = [ms |-> spoken, spans |-> <<>>]
  /\ UNCHANGED <<text, video>>

-----------------------------------------------------------------------------
(* The render stage.                                                       *)

\* display_spans: the measured ones if they are of these sentences and in order, or times in
\* proportion to the lengths.
Valid(measured, pieces) ==
  /\ Len(measured) = Len(pieces)
  /\ \A k \in DOMAIN measured :
       /\ measured[k].start < measured[k].end /\ measured[k].end <= audio.ms
       /\ k > 1 => measured[k - 1].end <= measured[k].start

\* How much of a text this many pieces are.
Share(pieces, many) ==
  FoldLeft(LAMBDA n, piece : n + Most(1, Len(Strip(piece))), 0, SubSeq(pieces, 1, many))

Estimated(pieces) ==
  FoldLeft(LAMBDA acc, k :
    LET start == IF acc = <<>> THEN 0 ELSE Last(acc).end
        end == IF k = Len(pieces) THEN audio.ms
               ELSE Round(<<audio.ms * Share(pieces, k), Share(pieces, Len(pieces))>>)
    IN IF end <= start THEN acc
       ELSE Append(acc, [from |-> From(pieces, k), to |-> From(pieces, k + 1),
                         start |-> start, end |-> end]),
    <<>>, [k \in DOMAIN pieces |-> k])

SpansOf(pieces) == IF Valid(audio.spans, pieces) THEN audio.spans ELSE Estimated(pieces)
DisplaySpans == SpansOf(Pieces(text))

Said(span) == SubSeq(text, span.from + 1, span.to)

\* sentence_cues: each sentence is laid out in its own interval.
CuesOfSentence(span, layout) ==
  LET ms == span.end - span.start IN
  BandCues(Said(span), ms, layout, 0, LAMBDA o : <<ms * o, Most(1, Len(Strip(Said(span))))>>)

\* The smallest size of all sentences for all captions.
Refitted(body, layout) == Lines(body, layout, FontFor(body, layout))
InTheirIntervals(spans, by, font, layout) ==
  [font |-> font,
   cues |-> FlattenSeq([k \in DOMAIN spans |->
     [c \in DOMAIN by[k].cues |->
       [by[k].cues[c] EXCEPT !.start = @ + spans[k].start, !.end = @ + spans[k].start,
          !.chars = @ + spans[k].from,
          !.lines = IF font = layout.font THEN @
                    ELSE Refitted(FlattenSeq(@), [Shared(layout, font) EXCEPT !.chars = Most(1, @)])]]])]

InTheSmallest(spans, by, layout) ==
  InTheirIntervals(spans, by, Min({by[k].font : k \in DOMAIN spans} \cup {layout.font}), layout)
BySentence(spans, layout) ==
  InTheSmallest(spans, [k \in DOMAIN spans |-> CuesOfSentence(spans[k], layout)], layout)
SentenceCues(layout) == BySentence(DisplaySpans, layout)

\* _make_block_cues, in packed mode or by sentence.
Cues(mode, layout) ==
  IF mode = "sentence" THEN SentenceCues(layout)
  ELSE BandCues(text, Most(1, audio.ms), layout, MinCueMs,
                LAMBDA o : IF audio.spans # <<>> THEN CharTime(audio.spans, audio.ms, o)
                           ELSE <<audio.ms * o, Most(1, Len(Strip(text)))>>)

\* compute_display_duration_ms, with the default margins.
DisplayMs == Most(audio.ms + 150 + 350, 2000)

\* Sentences and captions end where a picture may change.
Boundaries(cues) ==
  {audio.spans[k].end : k \in 1..(Len(audio.spans) - 1)} \cup {cues[k].end : k \in 1..(Len(cues) - 1)}

\* Mutation of Latest: no room is left for the pictures still to come.
LatestForOne(total, remaining) == total - MinSlideMs

\* The last moment for a change of picture when so many are still to come.
Latest(total, remaining) == total - MinSlideMs * (remaining + 1)

Near(b, ideal) == IF b < ideal THEN ideal - b ELSE b - ideal

\* _snap_to_boundaries.
Snap(ideal, boundaries, total) ==
  FoldLeft(LAMBDA cuts, k :
    LET previous == IF cuts = <<>> THEN 0 ELSE Last(cuts)
        latest == Latest(total, Len(ideal) - k)
        usable == {b \in boundaries : /\ \A c \in DOMAIN cuts : cuts[c] # b
                                      /\ previous + MinSlideMs <= b /\ b <= latest}
        nearest == {b \in usable : \A o \in usable : Near(b, ideal[k]) <= Near(o, ideal[k])}
    IN Append(cuts, IF usable # {} THEN Min(nearest)
                    ELSE Least(Most(ideal[k], previous + MinSlideMs), Most(latest, previous + 1))),
    <<>>, [k \in DOMAIN ideal |-> k])

\* _block_slides.
BlockSlides(images, allowed, cues) ==
  LET n == Least(images, Least(Most(1, DisplayMs \div MinSlideMs), Most(1, allowed)))
      cuts == Snap([k \in 1..(n - 1) |-> (DisplayMs * k) \div n], Boundaries(cues), DisplayMs)
      at == <<0>> \o cuts \o <<DisplayMs>>
  IN [k \in 1..n |-> [image |-> k, ms |-> at[k + 1] - at[k]]]

\* focus_slides: the picture with what the sentence names, at most MaxVariants of them and
\* MaxEvents changes; changes within a tenth of a second are not shown.
Named(focus, pieces, offset) ==
  focus[Cardinality({k \in DOMAIN pieces : From(pieces, k) <= offset})]
Changed(acc, cache, picture, at) ==
  LET last == Last(acc.events) IN
  IF acc.full THEN acc
  ELSE IF at < 100
  THEN [acc EXCEPT !.cache = cache, !.events = <<[at |-> 0, image |-> picture]>> \o Tail(@)]
  ELSE IF picture = last.image \/ at - last.at < 100 THEN [acc EXCEPT !.cache = cache]
  ELSE IF Len(acc.events) < MaxEvents
  THEN [acc EXCEPT !.cache = cache, !.events = Append(@, [at |-> at, image |-> picture])]
  ELSE [acc EXCEPT !.full = TRUE, !.cache = cache,
         !.events = IF last.image = 0 THEN @ ELSE Append(@, [at |-> at, image |-> 0])]
WithNamed(acc, cache, named, at) ==
  Changed(acc, cache, IF named \in cache THEN named ELSE 0, at)
Focused(focus, spans, pieces) ==
  FoldLeft(LAMBDA acc, span :
    LET named == Named(focus, pieces, span.from) IN
    WithNamed(acc, IF named # 0 /\ Cardinality(acc.cache) < MaxVariants
                   THEN acc.cache \cup {named} ELSE acc.cache,
              named, Least(DisplayMs, Most(0, span.start))),
    [events |-> <<[at |-> 0, image |-> 0]>>, cache |-> {}, full |-> FALSE], spans).events

\* Each picture until the next; a remainder that would flash goes to the one before.
Lasting(events) ==
  FoldLeft(LAMBDA acc, k :
    LET lasts == (IF k = Len(events) THEN DisplayMs ELSE events[k + 1].at) - events[k].at IN
    IF lasts < 100 /\ acc # <<>>
    THEN Append(Front(acc), [Last(acc) EXCEPT !.ms = @ + lasts])
    ELSE IF lasts > 0 THEN Append(acc, [image |-> events[k].image, ms |-> lasts]) ELSE acc,
    <<>>, [k \in DOMAIN events |-> k])
FocusSlides(focus) == Lasting(Focused(focus, DisplaySpans, Pieces(text)))

Elapsed(slides, k) == FoldLeft(LAMBDA ms, slide : ms + slide.ms, 0, SubSeq(slides, 1, k))

\* Mutation of FrameEnds: each picture is rounded on its own.
FrameEndsEach(slides) ==
  FoldLeft(LAMBDA ends, slide :
             Append(ends, (IF ends = <<>> THEN 0 ELSE Last(ends)) + (slide.ms * Fps + 500) \div 1000),
           <<>>, slides)

\* build_block_video_args: the frame each picture ends at; the last one is not too short.
FrameEnds(slides) ==
  FoldLeft(LAMBDA ends, k :
    Append(ends, Most(1 + (IF ends = <<>> THEN 0 ELSE Last(ends)),
      (Elapsed(slides, k) * Fps + (IF k = Len(slides) THEN 999 ELSE 500)) \div 1000)),
    <<>>, [k \in DOMAIN slides |-> k])

\* The part of run_render_stage that is about one block.  It does not read what an earlier
\* render made: the block rendered again with other settings is another choice of this one.
Rendered(mode, layout, made, shown, slides) ==
  video' = [cues |-> made.cues, font |-> made.font, mode |-> mode, layout |-> layout,
            shown |-> shown, slides |-> slides, frames |-> FrameEnds(slides)]
Render ==
  /\ audio.ms > 0 /\ video = NoVideo
  /\ \E mode \in {"packed", "sentence", "off"}, layout \in Layouts :
     \E made \in {IF mode = "off" THEN [cues |-> <<>>, font |-> layout.font] ELSE Cues(mode, layout)} :
       \/ \E images \in Images :
            Rendered(mode, layout, made, "slides", BlockSlides(images, Max(Images), made.cues))
       \/ \E focus \in Focuses : Rendered(mode, layout, made, "focus", FocusSlides(focus))
  /\ UNCHANGED <<text, audio>>

Next == Speak \/ SpeakWhole \/ Render

Spec == Init /\ [][Next]_vars

-----------------------------------------------------------------------------
(* Properties.                                                             *)

Shows(cues) == Ink(FlattenSeq([k \in DOMAIN cues |-> FlattenSeq(cues[k].lines)]))
Captioned == video.mode \in {"packed", "sentence"}

\* Whatever is merged, cut, wrapped and fitted again: the captions say the narration, all of
\* it, once and in order.
AllIsCaptioned == Captioned => Shows(video.cues) = Ink(text)

\* Captions follow one another without a gap; packed ones fill the audio exactly.
CaptionsFollow ==
  /\ \A k \in 1..(Len(video.cues) - 1) : video.cues[k].end = video.cues[k + 1].start
  /\ \A k \in DOMAIN video.cues : video.cues[k].start < video.cues[k].end
  /\ video.mode = "packed" /\ ~Blank(text) =>
       video.cues[1].start = 0 /\ Last(video.cues).end = audio.ms

\* "Cue boundaries and sentence spans line up exactly instead of nearly": a caption that ends
\* with a sentence ends when the engine finishes the sentence.
ChangesAreSpoken ==
  video.mode = "packed" /\ text[1] # " " =>
    \A k \in 1..(Len(video.cues) - 1), s \in DOMAIN audio.spans :
      audio.spans[s].to = video.cues[k].chars =>
        video.cues[k].end \in {audio.spans[s].end, video.cues[k].start + 1}

\* "Never reveal the next sentence early": by sentence, what a sentence says is shown while it
\* is spoken and at no other time.
NoSentenceIsEarly ==
  video.mode = "sentence" =>
    \A s \in DOMAIN DisplaySpans :
      Shows(SelectSeq(video.cues, LAMBDA cue : /\ DisplaySpans[s].start <= cue.start
                                              /\ cue.end <= DisplaySpans[s].end))
        = Ink(Said(DisplaySpans[s]))

\* In the one size of the block, every caption stays in the band; only the smallest size may
\* be too big.
CaptionsFit ==
  Captioned => \A k \in DOMAIN video.cues :
    \/ 5 * Len(video.cues[k].lines) * video.font <= 4 * Usable(video.layout)
    \/ video.font - 2 < Least(24, video.layout.font)

\* The captions of a block, in any settings and however it was spoken.
CaptionsFollowTheVoice ==
  AllIsCaptioned /\ CaptionsFollow /\ ChangesAreSpoken /\ NoSentenceIsEarly /\ CaptionsFit

\* The pictures fill the time of the block; slides can be read, highlights do not flash.
\* Each changes within half a frame of its time, however many came before, and the last stays
\* to the end.
PicturesFillTheBlock ==
  video.mode # "none" =>
    /\ Elapsed(video.slides, Len(video.slides)) = DisplayMs
    /\ \A k \in DOMAIN video.slides :
         LET late == 1000 * video.frames[k] - Fps * Elapsed(video.slides, k) IN
         IF k = Len(video.slides) THEN late \in 0..999 ELSE late \in (0 - 500)..500
    /\ \A k \in DOMAIN video.slides :
         video.slides[k].ms >= (IF video.shown = "slides" THEN MinSlideMs ELSE 100)
=============================================================================
