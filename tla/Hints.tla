------------------------------- MODULE Hints -------------------------------
(***************************************************************************)
(* The hints picked with the keyboard (HintState and HintLabels in         *)
(* display/hint.rs).  Every visible match is given a label; the keys that  *)
(* spell it pick the match.  Matches and labels are computed again for     *)
(* every key and every frame, while the text changes.                      *)
(*                                                                         *)
(* A match is the number of the cell it starts at: of the matches of one   *)
(* start only the longest is kept (the dedup_by_key of update_matches).    *)
(***************************************************************************)
EXTENDS SequencesExt, FiniteSets, Integers

CONSTANTS Alphabets,   \* alphabets of the configuration: sequences of letters
          MaxMatches   \* bound on the visible matches

VARIABLE hint

Letters == UNION {Range(alphabet) : alphabet \in Alphabets}

\* `text` is the set of matches in the terminal, `picked` the match picked by the last
\* key; the labels are `fresh` if they are those of the last frame and of the text.
HintInit ==
  \E alphabet \in Alphabets, persist \in BOOLEAN :
    hint = [active |-> FALSE, persist |-> persist, alphabet |-> alphabet, text |-> {},
            matches |-> <<>>, labels |-> <<>>, keys |-> <<>>, picked |-> 0,
            fresh |-> FALSE]

HintIdle ==
  hint = [active |-> FALSE, persist |-> FALSE, alphabet |-> <<>>, text |-> {},
          matches |-> <<>>, labels |-> <<>>, keys |-> <<>>, picked |-> 0,
          fresh |-> FALSE]

-----------------------------------------------------------------------------
(* Labels.  The first split_point + 1 letters end a label, the others come *)
(* before the end.                                                         *)

split_point(alphabet) == (Len(alphabet) - 1) \div 2

\* Mutant: the letters that end a label also come before the end.
increment_shared(alphabet, indices) ==
  LET tail == indices[1]
  IN  IF tail < Len(alphabet) - 1 THEN [indices EXCEPT ![1] = tail + 1]
      ELSE Append([indices EXCEPT ![1] = 0], 0)

\* The letters of a label from its end, counted from 0.
increment(alphabet, indices) ==
  LET split == split_point(alphabet)
      free  == {i \in 2 .. Len(indices) : indices[i] + 1 < Len(alphabet)}
      reset(upto) == [i \in 1 .. Len(indices) |->
                        IF i = 1 THEN 0 ELSE IF i < upto THEN split + 1 ELSE indices[i]]
  IN  IF indices[1] < split THEN [indices EXCEPT ![1] = @ + 1]
      ELSE IF free = {} THEN Append(reset(Len(indices) + 1), split + 1)
      ELSE [reset(Min(free)) EXCEPT ![Min(free)] = @ + 1]

\* The indices of the first n labels.
Counted(alphabet, n) ==
  LET upto[k \in 1 .. n] ==
        IF k = 1 THEN <<<<0>>>>
        ELSE Append(upto[k - 1], increment(alphabet, Last(upto[k - 1])))
  IN  IF n = 0 THEN <<>> ELSE upto[n]

Label(alphabet, indices) ==
  Reverse([i \in 1 .. Len(indices) |-> alphabet[indices[i] + 1]])

-----------------------------------------------------------------------------
stop(h) == [h EXCEPT !.active = FALSE, !.matches = <<>>, !.labels = <<>>, !.keys = <<>>]

\* The last match has the first label.
update_matches(h) ==
  LET matches == SetToSortSeq(h.text, <)
      n       == Len(matches)
      indices == Counted(h.alphabet, n)
      rest(i) == LET label == Label(h.alphabet, indices[n + 1 - i])
                 IN  IF IsPrefix(h.keys, label)
                     THEN SubSeq(label, Len(h.keys) + 1, Len(label)) ELSE <<>>
  IN  IF ~h.active THEN h
      ELSE IF n = 0 THEN stop(h)
      ELSE [h EXCEPT !.matches = matches, !.labels = [i \in 1 .. n |-> rest(i)]]

Backspace == "backspace"
Cancel == "escape"

keyboard_input(h, c) ==
  LET keyed  == CASE c = Backspace ->
                       [h EXCEPT !.keys = IF @ = <<>> THEN @ ELSE Front(@)]
                  [] c = Cancel -> stop(h)
                  [] OTHER -> h
      n      == update_matches(keyed)
      starts == {i \in DOMAIN n.labels : n.labels[i] # <<>> /\ n.labels[i][1] = c}
      i      == Max(starts)
  IN  IF ~n.active \/ starts = {} THEN n
      ELSE IF Len(n.labels[i]) > 1 THEN [n EXCEPT !.keys = Append(@, c)]
      ELSE [(IF n.persist THEN [n EXCEPT !.keys = <<>>] ELSE stop(n))
              EXCEPT !.picked = n.matches[i]]

-----------------------------------------------------------------------------
HintNow == [hint EXCEPT !.picked = 0]

\* The bindings are off while a hint is picked.
HintStart == ~hint.active /\ hint' = [HintNow EXCEPT !.active = TRUE]

\* RenderableContent::new.
HintDraw ==
  hint.active /\ hint' = [update_matches(HintNow) EXCEPT !.fresh = TRUE]

HintInput ==
  /\ hint.active
  /\ \E c \in Range(hint.alphabet) \cup {Backspace, Cancel} :
       hint' = [keyboard_input(HintNow, c) EXCEPT !.fresh = FALSE]

\* The program prints: a match appears or disappears.
HintText ==
  \E i \in 1 .. MaxMatches :
    hint' = [HintNow EXCEPT !.text = IF i \in @ THEN @ \ {i} ELSE @ \cup {i}, !.fresh = FALSE]

\* The configuration is loaded again.
update_alphabet ==
  \E alphabet \in Alphabets :
    /\ alphabet # hint.alphabet
    /\ hint' = [HintNow EXCEPT !.alphabet = alphabet, !.keys = <<>>, !.fresh = FALSE]

HintStep == HintStart \/ HintDraw \/ HintInput \/ HintText \/ update_alphabet

-----------------------------------------------------------------------------
\* What the keys of a label do, one after the other.
Typed(h, keys) == FoldLeft(keyboard_input, h, keys)

\* Every label on the screen can be typed: if the text does not change, its keys pick
\* the match it is shown at, not another one and not earlier, whatever has been typed
\* before and whatever the matches were then (update_matches, keyboard_input).
LabelsPick ==
  hint.active /\ hint.fresh =>
    \A i \in DOMAIN hint.labels :
      hint.labels[i] # <<>> =>
        /\ Typed(hint, hint.labels[i]).picked = hint.matches[i]
        /\ Typed(hint, Front(hint.labels[i])).picked = 0
=============================================================================
