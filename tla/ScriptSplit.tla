----------------------------- MODULE ScriptSplit -----------------------------
(***************************************************************************)
(* How a script becomes blocks (services/splitter.py, called by            *)
(* pipeline.run_split_stage): fenced code is masked, a long script is cut  *)
(* into segments, the segments are split at once by a language model that  *)
(* may answer badly, fail or be lost, the blocks are put together, small   *)
(* ones are merged, and narration that the code left with holes is         *)
(* repaired.                                                               *)
(*                                                                         *)
(* A script is a sequence of classes of characters: "x" text, "." the end  *)
(* of a sentence, " " and "n" blanks, and "A", "B" fenced blocks of code.  *)
(* A masked block is the three characters <<"<", its number, ">">>.        *)
(***************************************************************************)
EXTENDS TextCutting

CONSTANTS Scripts,
          SegmentChars, MinChars, TargetChars, MaxChars, \* splitter_segment_chars, _min_, ...
          MaxAttempts, Concurrency,  \* splitter_max_attempts, splitter_concurrency
          Growth,                    \* what a repair may add to any narration: 200 characters
          MaxCuts,                   \* bound: blocks in an answer of the model, less one
          RepairChars                \* bound: lengths of repaired narration

VARIABLES script,   \* source_script
          segments, \* the masked segments and what became of each
          phase,    \* split_script, repair_narration_gaps, and how the stage ended
          blocks,   \* the blocks of the split
          repairs   \* the repairs that were asked for

vars == <<script, segments, phase, blocks, repairs>>

Codes == {"A", "B"}
Digits == <<"1", "2", "3">>
Cue == "c" \* the sentence that stands for a listing
Asked == -1 \* a repair that is out
None == -2  \* a block that needs none

-----------------------------------------------------------------------------
(* Masking.                                                                *)

\* normalize_kept: runs of blanks collapse, line breaks stay.
Normalized(s) ==
  Strip(FlattenSeq([k \in DOMAIN s |->
    IF s[k] = " " /\ k > 1 /\ s[k - 1] = " " THEN <<>> ELSE <<s[k]>>]))

\* The code of a text, in order.
CodesOf(s) == SelectSeq(s, LAMBDA c : c \in Codes)

\* mask_code_blocks.
Masked(s) ==
  FlattenSeq([k \in DOMAIN s |->
    IF s[k] \in Codes THEN <<"<", Digits[Len(CodesOf(SubSeq(s, 1, k)))], ">">> ELSE <<s[k]>>])

\* Where a whole token starts.
TokensOf(t) ==
  {k \in 1..(Len(t) - 2) : t[k] = "<" /\ t[k + 1] \in Range(Digits) /\ t[k + 2] = ">"}

\* Every token replaced by what With says of its digit.
Untokened(t, With(_)) ==
  FlattenSeq([k \in DOMAIN t |->
    IF k \in TokensOf(t) THEN With(t[k + 1])
    ELSE IF {k - 1, k - 2} \cap TokensOf(t) # {} THEN <<>> ELSE <<t[k]>>])

\* unmask_code_blocks: a token that was cut in two is not recognised.
Unmasked(t, codes) ==
  Untokened(t, LAMBDA digit : LET n == CHOOSE d \in DOMAIN Digits : Digits[d] = digit IN
                              IF n \in DOMAIN codes THEN <<codes[n]>> ELSE <<>>)

\* Every run of blanks becomes one.
Squeezed(s) ==
  LET spaced == [k \in DOMAIN s |-> IF IsBlank(s[k]) THEN " " ELSE s[k]] IN Normalized(spaced)

\* Mutation of Sanitized: tokens are read aloud.
SanitizedOfCode(t) == Squeezed(SelectSeq(t, LAMBDA c : c \notin Codes))

\* sanitize_for_narration: neither code nor the tokens for it are spoken.
Sanitized(t) == Squeezed(Untokened(SelectSeq(t, LAMBDA c : c \notin Codes), LAMBDA d : <<" ">>))

-----------------------------------------------------------------------------
(* Cutting without a model.                                                *)

\* Behind the last of a run of marks and line breaks.
SentenceEnds(t) ==
  {k \in DOMAIN t : \/ t[k] = "." /\ (k = Len(t) \/ t[k + 1] \notin {".", "n"})
                    \/ t[k] = "n" /\ (k = Len(t) \/ t[k + 1] # "n")}

\* segment_script.
SegmentsOf(masked) ==
  LET text == Strip(masked)
      whole == FoldLeft(LAMBDA acc, sentence :
                 IF acc # <<>> /\ Len(Last(acc)) + Len(sentence) <= SegmentChars
                 THEN Append(Front(acc), Last(acc) \o sentence) ELSE Append(acc, sentence),
                 <<>>, CutAfter(text, SentenceEnds(text)))
      cut == Within([k \in DOMAIN whole |-> Strip(whole[k])], SegmentChars, Slices)
  IN IF Len(text) <= SegmentChars THEN <<text>> ELSE SelectSeq(cut, LAMBDA s : ~Blank(s))

\* Mutation of Deterministic: what is behind the last full block is lost.
DeterministicFull(t) ==
  FoldLeft(LAMBDA acc, part :
    LET all == Strip(acc.open \o part) IN
    IF Len(all) <= MaxChars THEN [acc EXCEPT !.open = all]
    ELSE [closed |-> Append(acc.closed, acc.open), open |-> Strip(part)],
    [closed |-> <<>>, open |-> <<>>],
    CutAfter(t, {k \in DOMAIN t : t[k] = "."})).closed

\* _deterministic_split: sentences are collected up to the maximum; what is still longer is
\* cut anywhere.
Deterministic(t) ==
  LET text == Squeezed(t)
      parts == CutAfter(text, {k \in DOMAIN text : text[k] = "." /\ (k = Len(text) \/ text[k + 1] # ".")})
      Collect(acc, part) ==
        LET all == Strip(acc.open \o part) IN
        IF Len(all) <= MaxChars THEN [acc EXCEPT !.open = all]
        ELSE IF acc.open # <<>> THEN [closed |-> Append(acc.closed, acc.open), open |-> Strip(part)]
        ELSE [acc EXCEPT !.closed = Append(@, Strip(part))]
      collected == FoldLeft(Collect, [closed |-> <<>>, open |-> <<>>],
                            SelectSeq(parts, LAMBDA p : ~Blank(p)))
      chunks == collected.closed \o (IF collected.open = <<>> THEN <<>> ELSE <<collected.open>>)
      merged == FoldLeft(LAMBDA acc, chunk :
                  IF /\ acc # <<>> /\ Len(Last(acc)) < MinChars
                     /\ Len(Last(acc)) + Len(chunk) <= TargetChars
                  THEN Append(Front(acc), Last(acc) \o chunk) ELSE Append(acc, chunk), <<>>, chunks)
  IN Within(merged, MaxChars, Slices)

-----------------------------------------------------------------------------
(* The answer of the model.                                                *)

\* What mask_code_blocks put aside.
IssuedCodes == CodesOf(script)
Block(source, narration) ==
  [source |-> Unmasked(source, IssuedCodes), tts |-> Sanitized(narration)]

\* realign_to_source: an answer counts for where it cuts, whatever blanks it changed; the
\* text is taken from the script.
Realigned(t, cuts) ==
  LET keep == SelectSeq([k \in DOMAIN t |-> k], LAMBDA k : ~IsBlank(t[k]))
      pieces == CutAfter(keep, cuts)
  IN [k \in DOMAIN pieces |-> SubSeq(t, pieces[k][1], Last(pieces[k]))]

Waiting(text) == [text |-> text, state |-> "waiting", split |-> "none",
                  attempt |-> 1, blocks |-> <<>>]

Init ==
  /\ script \in Scripts
  /\ segments = LET cut == SegmentsOf(Masked(Normalized(script))) IN
                [k \in DOMAIN cut |-> Waiting(cut[k])]
  /\ phase = "split" /\ blocks = <<>> /\ repairs = <<>>

In(state) == {k \in DOMAIN segments : segments[k].state = state}

\* A segment holds its place among the concurrent ones until all its attempts are over.
Ask(k) ==
  /\ phase = "split" /\ segments[k].state = "waiting"
  /\ Cardinality(In("asked")) < Concurrency
  /\ segments' = [segments EXCEPT ![k].state = "asked"]
  /\ UNCHANGED <<script, phase, blocks, repairs>>

\* The model cuts the segment; it echoes each part as its narration or leaves it silent.
Answer(k) ==
  /\ segments[k].state = "asked"
  /\ \E cuts \in SUBSET (1..(Len(Ink(segments[k].text)) - 1)), silent \in BOOLEAN :
       /\ Cardinality(cuts) <= MaxCuts
       /\ LET cut == Realigned(segments[k].text, cuts) IN
          segments' = [segments EXCEPT ![k].state = "done",
            ![k].split = "model", ![k].blocks = [b \in DOMAIN cut |-> Block(cut[b], IF silent THEN <<>> ELSE cut[b])]]
  /\ UNCHANGED <<script, phase, blocks, repairs>>

\* An answer that is no split of this text, or an error of the provider: the next attempt, or
\* the deterministic split.
BadAnswer(k) ==
  /\ segments[k].state = "asked"
  /\ LET cut == Deterministic(segments[k].text) IN
     segments' = IF segments[k].attempt < MaxAttempts THEN [segments EXCEPT ![k].attempt = @ + 1]
                 ELSE [segments EXCEPT ![k].state = "done",
                        ![k].split = "deterministic", ![k].blocks = [b \in DOMAIN cut |-> Block(cut[b], cut[b])]]
  /\ UNCHANGED <<script, phase, blocks, repairs>>

\* ExternalOutcomeUnknown: no further attempt.
Lost(k) ==
  /\ segments[k].state = "asked" /\ segments' = [segments EXCEPT ![k].state = "unknown"]
  /\ UNCHANGED <<script, phase, blocks, repairs>>

\* Mutation of SplitIsOver: the first loss ends it.
SplitIsOverAtLoss == In("waiting") \cup In("asked") = {} \/ In("unknown") # {}

\* gather with return_exceptions: every segment has ended.
SplitIsOver == In("waiting") \cup In("asked") = {}

\* Mutation of Joined: small blocks are appended to the next.
JoinedBehind(a, b) == [source |-> Strip(b.source \o <<"n">> \o a.source), tts |-> Strip(b.tts \o <<" ">> \o a.tts)]

\* Two neighbours become one block.
Joined(a, b) == [source |-> Strip(a.source \o <<"n">> \o b.source), tts |-> Strip(a.tts \o <<" ">> \o b.tts)]

Mergeable(a, b) ==
  /\ Len(Strip(a.tts)) < MinChars \/ Len(Strip(b.tts)) < MinChars
  /\ Len(Strip(a.tts)) + Len(Strip(b.tts)) <= MaxChars

\* merge_small_blocks.
Merged(all) ==
  FoldLeft(LAMBDA acc, b : IF acc # <<>> /\ Mergeable(Last(acc), b)
                           THEN Append(Front(acc), Joined(Last(acc), b)) ELSE Append(acc, b),
           <<>>, all)

\* _finish_blocks: what is still silent gets the cue.
Finished(all) ==
  LET merged == Merged(all) IN
  [k \in DOMAIN merged |-> IF Blank(merged[k].tts) THEN [merged[k] EXCEPT !.tts = <<Cue>>] ELSE merged[k]]

AllBlocks == FlattenSeq([k \in DOMAIN segments |-> segments[k].blocks])

\* The end of split_script.
Collect ==
  /\ phase = "split" /\ SplitIsOver
  /\ \/ In("unknown") # {} /\ phase' = "unknown" /\ UNCHANGED <<blocks, repairs>>
     \/ /\ In("unknown") = {} /\ phase' = "repair"
        /\ blocks' = Finished(AllBlocks)
        \* narration_has_gaps: some of the blocks that had code.
        /\ \E holes \in SUBSET {k \in DOMAIN blocks' : CodesOf(blocks'[k].source) # <<>>} :
             repairs' = [k \in DOMAIN blocks' |-> IF k \in holes THEN Asked ELSE None]
  /\ UNCHANGED <<script, segments>>

-----------------------------------------------------------------------------
(* repair_narration_gaps.                                                  *)

\* Mutation of Plausible: anything that is not empty.
PlausibleIfAny(old, new) == new > 0

\* Neither summarised away nor padded out: at least half of what it was, and either at most
\* three times as long or longer by no more than Growth.
Plausible(old, new) ==
  /\ new > 0 /\ old <= 2 * new
  /\ new <= 3 * old \/ new <= old + Growth

\* A repair comes back with a text of some length; it fails with length 0.
Repair(k) ==
  /\ phase = "repair" /\ repairs[k] = Asked
  /\ \E length \in RepairChars : repairs' = [repairs EXCEPT ![k] = length]
  /\ UNCHANGED <<script, segments, phase, blocks>>

\* gather without return_exceptions: the stage ends, the other repairs are still out.
RepairLost(k) ==
  /\ phase = "repair" /\ repairs[k] = Asked
  /\ repairs' = [repairs EXCEPT ![k] = None] /\ phase' = "unknown"
  /\ UNCHANGED <<script, segments, blocks>>

\* All are back: the plausible ones replace their narration.
Rewrite ==
  /\ phase = "repair" /\ Asked \notin Range(repairs)
  /\ phase' = "done"
  /\ blocks' = [k \in DOMAIN blocks |->
       IF repairs[k] # None /\ Plausible(Len(blocks[k].tts), repairs[k])
       THEN [blocks[k] EXCEPT !.tts = [j \in 1..repairs[k] |-> "r"]] ELSE blocks[k]]
  /\ UNCHANGED <<script, segments, repairs>>

Next ==
  \/ \E k \in DOMAIN segments : Ask(k) \/ Answer(k) \/ BadAnswer(k) \/ Lost(k)
  \/ Collect
  \/ \E k \in DOMAIN repairs : Repair(k) \/ RepairLost(k)
  \/ Rewrite

Spec == Init /\ [][Next]_vars

-----------------------------------------------------------------------------
(* Properties.                                                             *)

Split == phase \in {"repair", "done"}
Sources == FlattenSeq([k \in DOMAIN blocks |-> blocks[k].source])
Speech(text) == SelectSeq(Ink(text), LAMBDA c : c \notin Codes)

\* "source_text is verbatim by construction": the blocks show the script with its code, all of
\* it and in order, whichever segments were split by the model, in which order they came
\* back, and whatever was merged.  (A token that was cut in two is put together here: the
\* code of a torn token is shown as the token.)
SourceIsKept == Split => Unmasked(Ink(Sources), IssuedCodes) = Ink(script)

\* No block is silent, and neither code nor a token that was not torn is spoken.
BlocksCanBeSpoken ==
  Split => \A k \in DOMAIN blocks :
    /\ ~Blank(blocks[k].tts) /\ CodesOf(blocks[k].tts) = <<>>
    /\ TokensOf(blocks[k].tts) = {}

\* A segment that was split without the model keeps its sentences: what is spoken is what is
\* written, and no block is longer than the maximum.
FallbackSaysAll ==
  \A k \in DOMAIN segments : segments[k].split = "deterministic" =>
    /\ Speech(FlattenSeq([b \in DOMAIN segments[k].blocks |-> segments[k].blocks[b].tts]))
         = Speech(FlattenSeq([b \in DOMAIN segments[k].blocks |-> segments[k].blocks[b].source]))
    /\ \A b \in DOMAIN segments[k].blocks : Len(segments[k].blocks[b].tts) <= MaxChars

\* "Restores lecture pacing": what was merged leaves no two neighbours that could still be.
NothingLeftToMerge ==
  phase = "repair" =>
    LET silent(k) == IF blocks[k].tts = <<Cue>> THEN [blocks[k] EXCEPT !.tts = <<>>] ELSE blocks[k]
    IN \A k \in 1..(Len(blocks) - 1) : ~Mergeable(silent(k), silent(k + 1))

\* Whatever length a repair came back with, the narration is at least half as long as the
\* split left it; it is at most three times as long, and a short one at most longer by
\* Growth.  A stage that ended leaves no segment with the model.
RepairsStayInBounds ==
  /\ phase = "done" => \A k \in DOMAIN blocks :
       repairs[k] \notin {Asked, None} =>
         LET before == Len(Finished(AllBlocks)[k].tts) IN
         /\ before <= 2 * Len(blocks[k].tts)
         /\ Len(blocks[k].tts) <= 3 * before \/ Len(blocks[k].tts) <= before + Growth
  /\ phase # "split" => In("asked") = {}

\* What the split stage makes of a script, whatever the model answers.
ScriptIsKept ==
  SourceIsKept /\ BlocksCanBeSpoken /\ FallbackSaysAll /\ NothingLeftToMerge /\ RepairsStayInBounds
=============================================================================
