----------------------------- MODULE PolicyText ------------------------------
(***************************************************************************)
(* From a policy source to its passages: app/policy/markdown.py and pdf.py *)
(* cut pages into sections of blocks, app/policy/chunking.py packs blocks  *)
(* into passages of at most MaxChars characters.  PolicyLibrary takes the  *)
(* passages as given; here they are computed.                              *)
(*                                                                         *)
(* A text is a sequence of characters: Blank, LineBreak, or ink.  A line   *)
(* of a page is a heading or a text without LineBreak; the levels, ids and *)
(* titles of headings are one value each.  A Markdown file is one page.    *)
(***************************************************************************)
EXTENDS Integers, SequencesExt, FiniteSetsExt

CONSTANTS
    Characters,     \* of texts
    MaxChars,       \* the setting policy_chunk_max_chars
    Headings,       \* lines that start a section
    Texts,          \* other lines, the empty one among them
    MaxLines,       \* bound: lines of a source
    Untitled        \* the section before the first heading

Blank == " "
LineBreak == "/"

ASSUME PolicyTextAssumption ==
    /\ {Blank, LineBreak} \subseteq Characters
    /\ MaxChars \in Nat \ {0} /\ MaxLines \in Nat
    /\ Headings \subseteq Seq(Characters) /\ Texts \subseteq Seq(Characters)
    /\ Untitled \notin Headings

VARIABLES
    source,     \* the uploaded file: a sequence of pages
    passages    \* what chunk_sections prepared, or none yet

textVars == <<source, passages>>

Text == Seq(Characters)

Spaces == {Blank, LineBreak}

InkOf(t) == FlattenSeq([i \in DOMAIN t |-> IF t[i] \in Spaces THEN <<>> ELSE <<t[i]>>])

InkAt(t) == {i \in DOMAIN t : t[i] \notin Spaces}

\* strip(), lstrip() and rstrip() of a text.
Strip(t) == IF InkAt(t) = {} THEN <<>> ELSE SubSeq(t, Min(InkAt(t)), Max(InkAt(t)))
StripLeft(t) == IF InkAt(t) = {} THEN <<>> ELSE SubSeq(t, Min(InkAt(t)), Len(t))
StripRight(t) == IF InkAt(t) = {} THEN <<>> ELSE SubSeq(t, 1, Max(InkAt(t)))

Joined(ts, by) ==
    FoldLeft(LAMBDA all, t : IF all = <<>> THEN t ELSE all \o by \o t, <<>>, ts)

(* Pages to sections ***************************************************)

\* flush_block: the buffered lines become one block, unless they are blank.
BlockClosed(s) ==
    LET block == Strip(Joined(s.buffer, <<LineBreak>>))
    IN  [s EXCEPT !.buffer = <<>>,
                  !.blocks = IF block = <<>> THEN @ ELSE Append(@, block)]

\* flush_section: a section without blocks is dropped.
SectionClosed(s) ==
    LET c == BlockClosed(s)
    IN  [c EXCEPT !.sections = IF c.blocks = <<>> THEN @
                               ELSE Append(@, [title |-> c.title, blocks |-> c.blocks])]

LineRead(s, line) ==
    IF line \in Headings
    THEN [SectionClosed(s) EXCEPT !.title = line, !.blocks = <<>>]
    ELSE IF Strip(line) = <<>> THEN BlockClosed(s)
    ELSE [s EXCEPT !.buffer = Append(@, StripRight(line))]

\* parse_markdown on one page; a page of headings alone is its own block.
Sections(page) ==
    LET end == SectionClosed(FoldLeft(LineRead,
                   [sections |-> <<>>, title |-> Untitled, blocks |-> <<>>, buffer |-> <<>>],
                   page))
        body == Strip(Joined(page, <<LineBreak>>))
    IN  IF end.sections # <<>> THEN end.sections
        ELSE IF body = <<>> THEN <<>>
        ELSE <<[title |-> Untitled, blocks |-> <<body>>]>>

\* parse_pdf: page by page, each section with the number of its page.
Parse(pages) ==
    FlattenSeq([n \in DOMAIN pages |->
        [i \in DOMAIN Sections(pages[n]) |->
            [title |-> Sections(pages[n])[i].title, page |-> n,
             blocks |-> Sections(pages[n])[i].blocks]]])

(* Sections to passages ************************************************)

\* Where a text that is too long is cut: at the last blank of the window,
\* unless that leaves less than a quarter of it.
CutAt(t) ==
    LET blanks == {i \in 1 .. MaxChars : t[i] = Blank}
        last == IF blanks = {} THEN -1 ELSE Max(blanks) - 1
    IN  IF last < MaxChars \div 4 THEN MaxChars ELSE last

Pieces[t \in Text] ==
    IF Len(t) <= MaxChars THEN <<t>>
    ELSE LET rest == StripLeft(SubSeq(t, CutAt(t) + 1, Len(t)))
         IN  <<StripRight(SubSeq(t, 1, CutAt(t)))>>
             \o (IF rest = <<>> THEN <<>> ELSE Pieces[rest])

\* Mutant: the blank line between two blocks is not counted.
AdditionBare(bucket, piece) == Len(piece)

\* What a piece adds to the bucket: itself and the blank line before it.
Addition(bucket, piece) == Len(piece) + (IF bucket = <<>> THEN 0 ELSE 2)

Packed(s, piece) ==
    LET size == s.size + Addition(s.bucket, piece)
    IN  IF s.bucket # <<>> /\ size > MaxChars
        THEN [full |-> Append(s.full, s.bucket), bucket |-> <<piece>>, size |-> Len(piece)]
        ELSE [s EXCEPT !.bucket = Append(@, piece), !.size = size]

\* The buckets of one section: consecutive pieces of its blocks.
Buckets(section) ==
    LET pieces == FlattenSeq([i \in DOMAIN section.blocks |-> Pieces[section.blocks[i]]])
        end == FoldLeft(Packed, [full |-> <<>>, bucket |-> <<>>, size |-> 0], pieces)
    IN  IF end.bucket = <<>> THEN end.full ELSE Append(end.full, end.bucket)

\* chunk_sections; the position of a passage is its chunk_index.
Chunked(sections) ==
    FlattenSeq([n \in DOMAIN sections |->
        LET buckets == Buckets(sections[n])
        IN  [i \in DOMAIN buckets |->
               [title |-> sections[n].title, page |-> sections[n].page,
                content |-> Joined(buckets[i], <<LineBreak, LineBreak>>)]]])

(* The service *********************************************************)

Lines == Headings \union Texts

Uploadable ==
    {<<page>> : page \in BoundedSeq(Lines, MaxLines)}
        \union {<<p, q>> : p, q \in BoundedSeq(Lines, MaxLines \div 2)}

TextInit == source \in Uploadable /\ passages = <<>>

\* A source without text is refused (PolicyPdfError, or no chunks).
Prepare ==
    /\ passages = <<>>
    /\ passages' = Chunked(Parse(source))
    /\ passages' # <<>>
    /\ UNCHANGED source

TextNext == Prepare

TextSpec == TextInit /\ [][TextNext]_textVars

(* Properties **********************************************************)

\* What a page says: its lines that are not headings, or its headings when
\* there is nothing else.
SaidOn(page) ==
    LET said == [i \in DOMAIN page |-> IF page[i] \in Headings THEN <<>> ELSE page[i]]
    IN  IF InkOf(FlattenSeq(said)) = <<>> THEN InkOf(FlattenSeq(page))
        ELSE InkOf(FlattenSeq(said))

\* The last heading of a page, as far as it is read.
TitleAt(page, i) ==
    LET over == {j \in 1 .. i : page[j] \in Headings}
    IN  IF over = {} THEN Untitled ELSE page[Max(over)]

\* The text of a page that stands under a title: after the heading and before
\* the next one.
Under(page, title) ==
    UNION {ToSet(page[i]) : i \in {j \in DOMAIN page : TitleAt(page, j) = title}}

\* However long the lines of a policy are and wherever its blocks end, its
\* passages hold every character of it once and in order, none is empty or
\* longer than the limit, and each quotes only its own page and the section
\* whose title it carries.
NothingIsLost ==
    passages # <<>> =>
        /\ FlattenSeq([i \in DOMAIN passages |-> InkOf(passages[i].content)])
             = FlattenSeq([n \in DOMAIN source |-> SaidOn(source[n])])
        /\ \A p \in ToSet(passages) :
              /\ Len(p.content) \in 1 .. MaxChars
              /\ \/ ToSet(p.content) \ Spaces \subseteq Under(source[p.page], p.title)
                 \/ /\ p.title = Untitled
                    /\ \A line \in ToSet(source[p.page]) : line \in Headings \/ InkAt(line) = {}

=============================================================================
