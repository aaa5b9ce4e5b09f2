------------------------------ MODULE Sensitive ------------------------------
(***************************************************************************)
(* Sensitive words (internal/sensitive): the table of words, the filter    *)
(* every process builds from it, and the masking of a text.                *)
(*                                                                         *)
(* A text is a sequence of characters: letters, the noise " " and "*", and *)
(* the invisible "~". Of the letters, "A" is the capital of "a", and "I"   *)
(* stands for capitals that strings.ToLower takes to "a" and a pattern     *)
(* with (?i) tells from it, as U+0130 is to "i".                           *)
(***************************************************************************)
EXTENDS Integers, Sequences, FiniteSets, FiniteSetsExt, SequencesExt

CONSTANTS
  Servers,       \* processes
  Editors,       \* goroutines: requests of administrators and the reload loops
  Words,         \* words that are added: sequences of small letters
  Texts,         \* texts that are filtered
  MaxMaskHits,   \* maxMaskHits
  MaxEdits, MaxReadFaults,   \* bounds
  Nobody

ASSUME SensitiveAssumption == {MaxMaskHits, MaxEdits, MaxReadFaults} \subseteq Nat /\ Nobody \notin Editors

VARIABLES
  rows,       \* sensitive_word: number of rows of a word
  filter,     \* the words in the filter of a process
  rebuildMu,
  work,       \* what an editor is doing
  edits, readFaults,
  behind,     \* history: processes that were not told of a change, or failed to read
  twice,      \* history: words added by two requests at the same time
  shown       \* history: the last text filtered, and with which words

sensVars == <<rows, filter, rebuildMu, work, edits, readFaults, behind, twice, shown>>

-----------------------------------------------------------------------------
(* Masking.                                                                 *)

Noise == {" ", "*"}

\* strings.ToLower, and the case folding of a pattern with (?i).
Lower(c) == IF c \in {"A", "I"} THEN "a" ELSE c
Fold(c) == IF c = "A" THEN "a" ELSE c

stripInvisible(text) == SelectSeq(text, LAMBDA c : c # "~")

\* Places of the letters, in order: what RemoveNoise leaves.
letters(text) == SetToSortSeq({i \in DOMAIN text : text[i] \notin Noise}, <)

\* RemoveNoise of normalizeText, and the letters as the pattern of a word reads them.
cleaned(text) == [j \in DOMAIN letters(text) |-> Lower(text[letters(text)[j]])]
folded(text) == [j \in DOMAIN letters(text) |-> Fold(text[letters(text)[j]])]

occursAt(w, s, j) == j + Len(w) - 1 <= Len(s) /\ SubSeq(s, j, j + Len(w) - 1) = w

places(w, s) == {j \in DOMAIN s : occursAt(w, s, j)}

\* FindAll: the words that occur, by the place they are first found at.
found(ws, s) == {w \in ws : places(w, s) # {}}

foundBefore(v, w, s) ==
  \/ Min(places(v, s)) < Min(places(w, s))
  \/ Min(places(v, s)) = Min(places(w, s)) /\ Len(v) < Len(w)

FindAll(ws, s) == {w \in found(ws, s) : Cardinality({v \in found(ws, s) : foundBefore(v, w, s)}) < MaxMaskHits}

\* Mutant: no noise is allowed between the letters of a word.
maskExact(text, w) ==
  [i \in DOMAIN text |-> IF \E j \in places(w, [k \in DOMAIN text |-> Fold(text[k])]) : i \in j..(j + Len(w) - 1)
                         THEN "*" ELSE text[i]]

\* The matches of one word, from left to right and not overlapping, with the
\* noise between their letters.
maskWord(text, w) ==
  LET at == letters(text)
      Mask(acc, j) ==
        IF j >= acc.next /\ occursAt(w, folded(text), j)
        THEN [next |-> j + Len(w),
              text |-> [i \in DOMAIN text |-> IF i \in at[j]..at[j + Len(w) - 1] THEN "*" ELSE acc.text[i]]]
        ELSE acc
  IN FoldLeft(Mask, [next |-> 1, text |-> text], [j \in DOMAIN at |-> j]).text

\* Longer words come first; words of one length in any order.
longest(hits) == {w \in hits : \A v \in hits : Len(v) <= Len(w)}

RECURSIVE maskHits(_, _)
maskHits(text, hits) ==
  IF hits = {} THEN {text}
  ELSE UNION {maskHits(maskWord(text, w), hits \ {w}) : w \in longest(hits)}

\* The results a text can have.
FilterResults(text, ws) ==
  LET hits == FindAll(ws, cleaned(stripInvisible(text))) IN
  IF hits = {} THEN {text} ELSE maskHits(stripInvisible(text), hits)

-----------------------------------------------------------------------------
(* The table and the filters.                                               *)

Resting == [step |-> "rest", server |-> Nobody, word |-> <<>>, read |-> {}]

table == {w \in Words : rows[w] > 0}

Begin(e, p, step, w) == work' = [work EXCEPT ![e] = [step |-> step, server |-> p, word |-> w, read |-> {}]]

Add(e, p, w) ==
  /\ work[e] = Resting /\ edits < MaxEdits /\ rows[w] = 0
  /\ edits' = edits + 1
  /\ Begin(e, p, "create", w)
  /\ twice' = twice \cup {w : f \in {f \in Editors : work[f].step = "create" /\ work[f].word = w}}
  /\ UNCHANGED <<rows, filter, rebuildMu, readFaults, behind, shown>>

\* The other processes notice a change by reading the table again.
Change(p, r) == rows' = r /\ behind' = behind \cup (Servers \ {p})

Create(e) ==
  LET w == work[e].word IN
  /\ work[e].step = "create"
  /\ Change(work[e].server, [rows EXCEPT ![w] = @ + 1])
  /\ Begin(e, work[e].server, "lock", w)
  /\ UNCHANGED <<filter, rebuildMu, edits, readFaults, twice, shown>>

DeleteByWord(e, p, w) ==
  /\ work[e] = Resting /\ edits < MaxEdits /\ rows[w] > 0
  /\ edits' = edits + 1
  /\ Change(p, [rows EXCEPT ![w] = 0])
  /\ Begin(e, p, "lock", w)
  /\ UNCHANGED <<filter, rebuildMu, readFaults, twice, shown>>

\* Every process has one reload loop.
reloadLoop(e, p) ==
  /\ work[e] = Resting
  /\ \A f \in Editors : work[f].server = p => work[f].word # <<>>
  /\ Begin(e, p, "lock", <<>>)
  /\ UNCHANGED <<rows, filter, rebuildMu, edits, readFaults, behind, twice, shown>>

\* Mutant: rebuilds of one process are not kept apart.
rebuildUnlocked(e) ==
  LET p == work[e].server IN
  /\ work[e].step = "lock"
  /\ work' = [work EXCEPT ![e].step = "store", ![e].read = table]
  /\ behind' = behind \ {p}
  /\ UNCHANGED <<rows, filter, rebuildMu, edits, readFaults, twice, shown>>

\* The words are read under rebuildMu.
rebuildFilter(e) ==
  LET p == work[e].server IN
  /\ work[e].step = "lock" /\ rebuildMu[p] = Nobody
  /\ rebuildMu' = [rebuildMu EXCEPT ![p] = e]
  /\ work' = [work EXCEPT ![e].step = "store", ![e].read = table]
  /\ behind' = behind \ {p}
  /\ UNCHANGED <<rows, filter, edits, readFaults, twice, shown>>

storeFilter(e) ==
  LET p == work[e].server IN
  /\ work[e].step = "store"
  /\ filter' = [filter EXCEPT ![p] = work[e].read]
  /\ rebuildMu' = [rebuildMu EXCEPT ![p] = Nobody]
  /\ work' = [work EXCEPT ![e] = Resting]
  /\ UNCHANGED <<rows, edits, readFaults, behind, twice, shown>>

\* The filter stays as it was until the loop comes round.
rebuildFails(e) ==
  LET p == work[e].server IN
  /\ work[e].step = "lock" /\ rebuildMu[p] = Nobody /\ readFaults < MaxReadFaults
  /\ readFaults' = readFaults + 1
  /\ behind' = behind \cup {p}
  /\ work' = [work EXCEPT ![e] = Resting]
  /\ UNCHANGED <<rows, filter, rebuildMu, edits, twice, shown>>

FilterText(p, text) ==
  /\ \E out \in FilterResults(text, filter[p]) : shown' = [in |-> text, with |-> filter[p], out |-> out]
  /\ UNCHANGED <<rows, filter, rebuildMu, work, edits, readFaults, behind, twice>>

Editing(e) ==
  \/ \E p \in Servers, w \in Words : Add(e, p, w) \/ DeleteByWord(e, p, w)
  \/ \E p \in Servers : reloadLoop(e, p)
  \/ Create(e) \/ rebuildFilter(e) \/ storeFilter(e) \/ rebuildFails(e)

\* NewService builds the filter of a process as it starts.
SensitiveStart(ws) ==
  /\ rows = [w \in Words |-> IF w \in ws THEN 1 ELSE 0]
  /\ filter = [p \in Servers |-> ws]
  /\ rebuildMu = [p \in Servers |-> Nobody]
  /\ work = [e \in Editors |-> Resting]
  /\ edits = 0 /\ readFaults = 0 /\ behind = {} /\ twice = {}
  /\ shown = [in |-> <<>>, with |-> {}, out |-> <<>>]

SensitiveNext ==
  \/ \E e \in Editors : Editing(e)
  \/ \E p \in Servers, text \in Texts : FilterText(p, text)

-----------------------------------------------------------------------------
(* Properties.                                                              *)

\* The tables have their types and rebuildMu is held by a goroutine of its process
\* that is about to store a filter.
SensitiveTypeOK ==
  /\ \A w \in Words : rows[w] \in 0..MaxEdits + 1
  /\ \A p \in Servers : filter[p] \subseteq Words /\
       (rebuildMu[p] # Nobody => work[rebuildMu[p]].step = "store" /\ work[rebuildMu[p]].server = p)

\* A process that has nothing left to rebuild, and was told of the last change,
\* filters with the words of the table: a rebuild that read an older table cannot
\* overwrite the result of a later one.
FilterCurrent ==
  \A p \in Servers : p \notin behind /\ (\A e \in Editors : work[e].server # p \/ work[e].step = "create") =>
    filter[p] = table

\* Add keeps a word once, unless it was added by two requests at the same time.
WordsOnce == \A w \in Words \ twice : rows[w] <= 1

\* Where the pattern of a word matches in the filtered text.
Matches(w) == places(w, folded(stripInvisible(shown.in)))

\* The characters of the match at j, noise between its letters included.
Span(w, j) == LET at == letters(stripInvisible(shown.in)) IN at[j]..at[j + Len(w) - 1]

\* A filtered text is as long as the text without its invisible characters. Wherever
\* a word that was found can be read in it, noise and the case that (?i) knows set
\* aside, one of its letters at least is masked, whatever was masked for longer words
\* before. The word that is longer than all others found is masked in full wherever
\* it does not overlap itself, and with one word found nothing else is masked.
HitsAreMasked ==
  LET text == stripInvisible(shown.in)
      hits == FindAll(shown.with, cleaned(text)) IN
  hits # {} =>
    /\ Len(shown.out) = Len(text)
    /\ \A w \in hits : \A j \in Matches(w) : \E i \in Span(w, j) : text[i] \notin Noise /\ shown.out[i] = "*"
    /\ \A w \in hits : longest(hits) = {w} =>
         \A j \in Matches(w) : (\A k \in Matches(w) \ {j} : Span(w, j) \cap Span(w, k) = {}) =>
           \A i \in Span(w, j) : shown.out[i] = "*"
    /\ \A w \in hits : hits = {w} =>
         \A i \in DOMAIN text : (\A j \in Matches(w) : i \notin Span(w, j)) => shown.out[i] = text[i]

\* Every process filters with the words of the table, each of which is there once.
WordsAgree ==
  /\ SensitiveTypeOK
  /\ FilterCurrent
  /\ WordsOnce
=============================================================================
