----------------------------- MODULE TextCutting -----------------------------
(* What the splitter and the captions do to texts: sequences of classes of *)
(* characters, of which " " and "n" (a line break) are blank.              *)
EXTENDS Integers, SequencesExt

IsBlank(c) == c \in {" ", "n"}
Blank(s) == \A k \in DOMAIN s : IsBlank(s[k])
Ink(s) == SelectSeq(s, LAMBDA c : ~IsBlank(c))

\* str.strip.
Strip(s) == IF Blank(s) THEN <<>>
            ELSE LET inked == {k \in DOMAIN s : ~IsBlank(s[k])} IN SubSeq(s, Min(inked), Max(inked))

\* s, cut behind each of these positions.
CutAfter(s, positions) ==
  LET ends == SetToSortSeq(positions \cup ({Len(s)} \ {0}), <) IN
  [k \in DOMAIN ends |-> SubSeq(s, IF k = 1 THEN 1 ELSE ends[k - 1] + 1, ends[k])]

\* s, cut every limit characters.
Slices(s, limit) == CutAfter(s, {k \in DOMAIN s : k % limit = 0})

\* Pieces that are too long are cut again, the others are kept.
Within(pieces, limit, Cut(_, _)) ==
  FlattenSeq([k \in DOMAIN pieces |->
                IF Len(pieces[k]) <= limit THEN <<pieces[k]>> ELSE Cut(pieces[k], limit)])
=============================================================================
