-------------------------------- MODULE Documents --------------------------------
(***************************************************************************)
(* What a save makes of the text of a document: normalisation, lint of the  *)
(* sections an ADR must have, anchors, and the difference to the saved      *)
(* text that the history keeps (normalize, lint, anchors, diffing, history  *)
(* and the chunks of index_fts in hub/store), for a document that is typed  *)
(* line by line, saved, edited and saved again.                             *)
(*                                                                         *)
(* A line is what the code tells apart: text or a heading or a code fence,  *)
(* spelled as the normal form has it or loosely, with blanks that it takes  *)
(* away.  Titles are sequences of characters, for their slugs.  A fence is   *)
(* one for the code and for CommonMark, or a lookalike, which CommonMark    *)
(* takes as text: indented by four or more, or of backticks with another    *)
(* behind them in the line.  Frontmatter, links within a document, lists    *)
(* and code that is marked by its indentation are left out.                 *)
(***************************************************************************)
EXTENDS Naturals, Sequences, SequencesExt, FiniteSetsExt

CONSTANTS
    NoText,
    Lines,        \* the lines that are typed
    Required,     \* titles of the sections of an ADR
    Placeholders, \* texts that count as empty
    MaxLines,     \* bound on the lines of a new document
    MaxEdits      \* bound on the edits of it

VARIABLES
    adr,      \* the document is an ADR
    body,     \* the saved text, or NoText
    draft,    \* the text being written
    changes,  \* what the last save recorded: [anchors -> [added, removed]]
    edits

documentVars == <<adr, body, draft, changes, edits>>

(* Of a heading `what' is the title, of a fence its character and info string. *)
ASSUME DocumentConstants ==
    \A line \in Lines :
        /\ line = [kind |-> line.kind, n |-> line.n, what |-> line.what, loose |-> line.loose]
        /\ line.kind = "heading" => line.what \in Seq(Nat)
        /\ line.kind \in {"fence", "lookalike"} => line.n \in Nat /\ line.n >= 3

Text(words, loose) == [kind |-> "text", n |-> 0, what |-> words, loose |-> loose]
Heading(level, title, loose) == [kind |-> "heading", n |-> level, what |-> title, loose |-> loose]
Fence(char, n, info, loose) ==
    [kind |-> "fence", n |-> n, what |-> <<char, info>>, loose |-> loose]

Lookalike(char, n, info, loose) == [Fence(char, n, info, loose) EXCEPT !.kind = "lookalike"]

Blank == Text("", FALSE)
Bare(line) == [kind |-> line.kind, n |-> line.n, what |-> line.what, loose |-> FALSE]

---------------------------------------------------------------------------------
(* anchors.py: fences *)

NoFence == <<"none", 0>>

(* What _FENCE_RE takes as a fence, whatever its indentation and its info string. *)
IsFence(line) == line.kind \in {"fence", "lookalike"}

(* Mutant: any fence of the same character closes the code. *)
ClosesAnyway(line, fence) == IsFence(line) /\ line.what = <<fence[1], "">>

FenceCloses(line, fence) ==
    IsFence(line) /\ line.what = <<fence[1], "">> /\ line.n >= fence[2]

FenceAfter(line, fence) ==
    IF fence # NoFence THEN IF FenceCloses(line, fence) THEN NoFence ELSE fence
    ELSE IF IsFence(line) THEN <<line.what[1], line.n>>
    ELSE NoFence

(* The fence that is open after line i. *)
Fences(lines) ==
    LET open[i \in 0..Len(lines)] ==
            IF i = 0 THEN NoFence ELSE FenceAfter(lines[i], open[i - 1])
    IN  open

---------------------------------------------------------------------------------
(* normalize.py: _normalize_body *)

(* Pass A: blanks at the end of lines, and in headings. *)
PassA(lines) ==
    LET open == Fences(lines)
    IN  [i \in DOMAIN lines |->
            IF open[i - 1] # NoFence /\ ~FenceCloses(lines[i], open[i - 1]) THEN lines[i]
            ELSE Bare(lines[i])]

(* Pass B: no blank line at the top, never two, one before and after a heading. *)
Gap(out) == IF out = <<>> \/ Last(out) = Blank THEN <<>> ELSE <<Blank>>

Emit(line, fence, out) ==
    CASE fence = NoFence /\ line.kind = "heading" -> out \o Gap(out) \o <<line, Blank>>
      [] fence = NoFence /\ line = Blank -> out \o Gap(out)
      [] OTHER -> Append(out, line)

PassB(lines) ==
    LET open == Fences(lines)
        out[i \in 0..Len(lines)] ==
            IF i = 0 THEN <<>>
            ELSE LET before == out[i - 1] IN Emit(lines[i], open[i - 1], before)
    IN  out[Len(lines)]

(* The lines up to the last that is not blank. *)
Trim(lines) == SubSeq(lines, 1, Max({0} \cup {i \in DOMAIN lines : lines[i] # Blank}))

(* Mutant: the blanks of lines are removed last. *)
StripLater(lines) == Append(Trim(PassA(PassB(lines))), Blank)

(* A text ends with a line break: the last of its lines is empty. *)
Normalize(lines) == Append(Trim(PassB(PassA(lines))), Blank)

---------------------------------------------------------------------------------
(* anchors.py: parse_anchors, section_content *)

Underscore == 95
Digits(n) == 48 + n   \* one character, of whatever number
Section == <<115, 101, 99, 116, 105, 111, 110>>   \* "section"

(* Mutant: underscores stay, as in the suffix that makes a slug unique. *)
SlugifyLoosely(title) == IF title = <<>> THEN Section ELSE title

Slugify(title) ==
    LET kept[i \in 0..Len(title)] ==
            IF i = 0 THEN <<>>
            ELSE IF title[i] = Underscore THEN kept[i - 1]
            ELSE Append(kept[i - 1], title[i])
    IN  IF kept[Len(title)] = <<>> THEN Section ELSE kept[Len(title)]

Headers(lines) ==
    LET open == Fences(lines)
    IN  {i \in DOMAIN lines : lines[i].kind = "heading" /\ open[i - 1] = NoFence}

(* The anchors by the line of their heading, each with the line where its section  *)
(* ends.                                                                            *)
Anchors(lines) ==
    LET at == Headers(lines)
        base == [i \in at |-> Slugify(lines[i].what)]
        Occurrence(i) == Cardinality({k \in at : k <= i /\ base[k] = base[i]})
    IN  [i \in at |->
            [title |-> lines[i].what,
             slug |-> IF Occurrence(i) = 1 THEN base[i]
                      ELSE base[i] \o <<Underscore, Underscore, Digits(Occurrence(i))>>,
             last |-> Min({k - 1 : k \in {k \in at : k > i}} \cup {Len(lines)})]]

SectionContent(lines, anchors, i) ==
    SelectSeq(SubSeq(lines, i + 1, anchors[i].last), LAMBDA line : Bare(line) # Blank)

(* The chunks of the index, first and last line: a section each, or the whole of a *)
(* text without any.                                                               *)
Chunks(lines) ==
    LET anchors == Anchors(lines)
    IN  IF DOMAIN anchors # {} THEN {<<i, anchors[i].last>> : i \in DOMAIN anchors}
        ELSE IF lines = <<Blank>> THEN {}
        ELSE {<<1, Len(lines)>>}

---------------------------------------------------------------------------------
(* lint.py: _lint_adr_sections; of sections with the same name the first counts. *)

IsEmpty(content) ==
    \/ content = <<>>
    \/ Len(content) = 1 /\ content[1].kind = "text" /\ content[1].what \in Placeholders

Complete(lines) ==
    LET anchors == Anchors(lines)
    IN  \A title \in Required :
           LET those == {i \in DOMAIN anchors : anchors[i].title = title}
           IN  those # {} /\ ~IsEmpty(SectionContent(lines, anchors, Min(those)))

---------------------------------------------------------------------------------
(* diffing.py *)

(* The old lines i1 .. i2 - 1 against the new lines j1 .. j2 - 1. *)
Box(i1, i2, j1, j2) == [i1 |-> i1, i2 |-> i2, j1 |-> j1, j2 |-> j2]
Whole(old, new) == Box(1, Len(old) + 1, 1, Len(new) + 1)

(* What is the same in a box. *)
Runs(old, new, box) ==
    LET Sizes(i, j) == {size \in 1..(box.i2 - i) :
                           /\ j + size <= box.j2
                           /\ \A m \in 0..(size - 1) : old[i + m] = new[j + m]}
    IN  UNION {{Box(i, i + size, j, j + size) : size \in Sizes(i, j)} :
                  i \in box.i1..(box.i2 - 1), j \in box.j1..(box.j2 - 1)}

(* The longest, the earliest of these in the old text, and then in the new one. *)
Longest(runs) ==
    LET long == {r \in runs : \A s \in runs : r.i2 - r.i1 >= s.i2 - s.i1}
        first == {r \in long : \A s \in long : r.i1 <= s.i1}
    IN  CHOOSE r \in first : \A s \in first : r.j1 <= s.j1

(* The longest run of each box is found, and before and after it is still to do. *)
SearchOn(old, new, before) ==
    LET run == [box \in {box \in before.todo : Runs(old, new, box) # {}} |->
                  Longest(Runs(old, new, box))]
    IN  [todo |-> UNION {{Box(box.i1, run[box].i1, box.j1, run[box].j1),
                          Box(run[box].i2, box.i2, run[box].j2, box.j2)} : box \in DOMAIN run},
         found |-> before.found \cup {run[box] : box \in DOMAIN run}]

(* difflib: a run has at least one line, so there are no more rounds than old lines. *)
Search(old, new) ==
    LET search[n \in 0..Len(old)] ==
            IF n = 0 THEN [todo |-> {Whole(old, new)}, found |-> {}]
            ELSE SearchOn(old, new, search[n - 1])
    IN  search

Blocks(old, new) == Search(old, new)[Len(old)].found

(* Mutant: the line after a block counts as one of it. *)
AddedAfterNext(new, blocks) == {j \in DOMAIN new : \A b \in blocks : j \notin b.j1..b.j2}

(* The lines of the new text that are in no block were added, those of the old one *)
(* removed.                                                                       *)
Added(new, blocks) == {j \in DOMAIN new : \A b \in blocks : j \notin b.j1..(b.j2 - 1)}
Removed(old, blocks) == {i \in DOMAIN old : \A b \in blocks : i \notin b.i1..(b.i2 - 1)}

(* The new line before which old line i was removed. *)
RemovedBefore(blocks, i) == Max({1} \cup {b.j2 : b \in {b \in blocks : b.i1 < i}})

NoAnchor == <<>>

AnchorAt(anchors, j) ==
    LET around == {i \in DOMAIN anchors : i <= j /\ j <= anchors[i].last}
    IN  IF around = {} THEN NoAnchor ELSE anchors[Min(around)].slug

(* What was removed before line j. *)
AnchorForDelete(anchors, new, j) ==
    LET pos == IF j <= Len(new) THEN j ELSE Len(new)
    IN  AnchorAt(anchors, IF pos \in DOMAIN anchors /\ j > 1 THEN j - 1 ELSE pos)

(* The lines at some places, in their order. *)
LinesAt(lines, at) ==
    [m \in 1..Cardinality(at) |-> lines[CHOOSE i \in at : Cardinality({k \in at : k <= i}) = m]]

Under(to, a) == {i \in DOMAIN to : to[i] = a}

(* diff, and an entry of history.build for each anchor it names. *)
Diff(old, new) ==
    LET anchors == Anchors(new)
    IN  IF old = NoText
        THEN LET first == IF DOMAIN anchors = {} THEN NoAnchor
                          ELSE anchors[Min(DOMAIN anchors)].slug
             IN  [a \in {first} |-> [added |-> new, removed |-> <<>>]]
        ELSE LET blocks == Blocks(old, new)
                 to == [j \in Added(new, blocks) |-> AnchorAt(anchors, j)]
                 from == [i \in Removed(old, blocks) |->
                            AnchorForDelete(anchors, new, RemovedBefore(blocks, i))]
             IN  [a \in {to[j] : j \in DOMAIN to} \cup {from[i] : i \in DOMAIN from} |->
                    [added |-> LinesAt(new, Under(to, a)), removed |-> LinesAt(old, Under(from, a))]]

---------------------------------------------------------------------------------
DocumentInit ==
    /\ adr \in BOOLEAN
    /\ body = NoText
    /\ draft = <<>>
    /\ changes = <<>>
    /\ edits = 0

Type(line) ==
    /\ body = NoText
    /\ Len(draft) < MaxLines
    /\ draft' = Append(draft, line)
    /\ UNCHANGED <<adr, body, changes, edits>>

(* The lines from i to j - 1 are replaced by others. *)
Edit(i, j, new) ==
    /\ body # NoText
    /\ edits < MaxEdits
    /\ i <= j
    /\ draft' = SubSeq(draft, 1, i - 1) \o new \o SubSeq(draft, j, Len(draft))
    /\ edits' = edits + 1
    /\ UNCHANGED <<adr, body, changes>>

SaveDocument ==
    LET new == Normalize(draft)
    IN  /\ draft # <<>>
        /\ adr => Complete(new)
        /\ body' = new
        /\ changes' = Diff(body, new)
        /\ draft' = new
        /\ UNCHANGED <<adr, edits>>

DocumentNext ==
    \/ \E line \in Lines : Type(line)
    \/ \E i, j \in 1..(Len(draft) + 1), new \in {<<>>} \cup {<<line>> : line \in Lines} :
          Edit(i, j, new)
    \/ SaveDocument

DocumentSpec == DocumentInit /\ [][DocumentNext]_documentVars

---------------------------------------------------------------------------------
(* Properties *)

(* Normalising a normal text changes nothing: what is saved again is the same, and  *)
(* lint never refuses a text as not normal (normalize.py:5, lint.py:108-109).       *)
NormalizeIsIdempotent == Normalize(Normalize(draft)) = Normalize(draft)

(* The fenced code of a text, as CommonMark has it: a fence is closed by one of the *)
(* same character, at least as long, without an info string (anchors.py:40-41).     *)
Opener(lines) ==
    LET Closing(i, o) == /\ lines[i].kind = "fence" /\ lines[i].what = <<lines[o].what[1], "">>
                         /\ lines[i].n >= lines[o].n
        open[i \in 0..Len(lines)] ==   \* the fence open after line i, or 0
            IF i = 0 THEN 0
            ELSE IF open[i - 1] # 0 THEN IF Closing(i, open[i - 1]) THEN 0 ELSE open[i - 1]
            ELSE IF lines[i].kind = "fence" THEN i ELSE 0
    IN  open

InCode(lines, i) == Opener(lines)[i - 1] # 0 /\ Opener(lines)[i] # 0

(* What a reader sees: the code as it is, the lines of the text without layout. *)
Reading(lines) ==
    LET read[i \in 0..Len(lines)] ==
            IF i = 0 THEN <<>>
            ELSE IF InCode(lines, i) THEN Append(read[i - 1], lines[i])
            ELSE IF Bare(lines[i]) = Blank THEN read[i - 1]
            ELSE Append(read[i - 1], Bare(lines[i]))
    IN  read[Len(lines)]

(* What is a fence for the code is one for CommonMark. *)
Unambiguous(lines) == \A i \in DOMAIN lines : lines[i].kind # "lookalike"

(* Normalising touches the layout alone, and nothing in a code block, whatever fences *)
(* of other kinds and lengths are in it; only blank lines at the end of a text may go *)
(* (normalize.py:8, "의미 재작성 절대 금지", 118, 150-154).                              *)
CodeIsKept == Trim(Reading(Normalize(draft))) = Trim(Reading(draft))

(* So it is in a text without lookalikes, which the code takes as fences. *)
MeaningIsKept == Unambiguous(draft) => CodeIsKept

(* Every section has a name of its own and starts at a heading, without lookalikes    *)
(* never in code, and from the first heading on every line is in one chunk of the     *)
(* index (anchors.py:8-12, index_fts.py:117-124).                                     *)
SectionsAreDistinct ==
    body # NoText =>
        LET anchors == Anchors(body)
            chunks == Chunks(body)
        IN  /\ \A i, k \in DOMAIN anchors : anchors[i].slug = anchors[k].slug => i = k
            /\ Unambiguous(body) => \A i \in DOMAIN anchors : ~InCode(body, i)
            /\ \A line \in DOMAIN body :
                  (\E i \in DOMAIN anchors : i <= line) =>
                      \E c \in chunks : \A d \in chunks : (line \in d[1]..d[2]) <=> d = c

Count(lines, line) == Cardinality({i \in DOMAIN lines : lines[i] = line})

(* The lines of the section with a slug, or those before the first heading. *)
LinesUnder(lines, slug) == {lines[i] : i \in {j \in DOMAIN lines : AnchorAt(Anchors(lines), j) = slug}}

(* How often a line is recorded; which side is "added" or "removed". *)
Recorded(recorded, side, line) ==
    Cardinality({p \in UNION {{a} \X DOMAIN recorded[a][side] : a \in DOMAIN recorded} :
                   recorded[p[1]][side][p[2]] = line})

Balanced(old, new, recorded) ==
    \A line \in ToSet(old \o new) :
       Count(old, line) + Recorded(recorded, "added", line)
       = Count(new, line) + Recorded(recorded, "removed", line)

(* The history has every line that an edit adds or removes, once, the added ones    *)
(* under the section of the new text that they are in, and nothing when nothing has  *)
(* changed (diffing.py:3-8, history.py:73-146).                                      *)
EditIsRecorded ==
    [][body # NoText /\ (body' # body \/ changes' # changes) =>
          /\ Balanced(body, body', changes')
          /\ \A a \in DOMAIN changes' : ToSet(changes'[a].added) \subseteq LinesUnder(body', a)
          /\ body' = body => DOMAIN changes' = {}]_documentVars
=================================================================================
