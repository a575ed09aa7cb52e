----------------------------- MODULE WireFormat -----------------------------
(***************************************************************************)
(* A record layout on its way through the wire-format scripts:             *)
(* parse_record_layout reads it line by line from a document and writes    *)
(* its fields and code lists to the graph; an extraction adds fields whose *)
(* columns position_resolver looks up in the text; validate_kg_coverage    *)
(* judges the layout; generate_sample_submission makes records from it and *)
(* validate_submission checks records against it.                          *)
(*                                                                         *)
(* There is one layout: those of different sections share no field.  A     *)
(* line is what the parser's patterns tell apart; a character of a record  *)
(* is a digit, a dash, a letter or a blank.                                *)
(***************************************************************************)
EXTENDS Integers, Sequences, FiniteSets, SequencesExt

CONSTANTS
    RecordLength,   \* RECORD_LENGTH, TARGET_LENGTH: 200
    Texts,          \* lines of text: names and descriptions
    Capitals,       \* those that are one short word in capitals
    Tags,           \* what stands in the brackets of a header
    Content,        \* what _generate_freeform writes for a field of that name
    Documents,      \* sequences of lines: the first document to be parsed
    Reissues,       \* the documents of later imports
    Extractions,    \* Sentinel's, with the rows of their source text
    MaxImports      \* bound: documents and extractions that are imported

Lines == [kind : {"page", "header", "token", "text"}, from : Nat, to : Nat,
          tag : Texts \union Tags \union {"none"}, star : BOOLEAN]

\* A code, and a range of codes if the two differ; a length of 0 is a
\* null, and "none" the empty string
Codes == [lo : Nat, hi : Nat]
Pairs == [code : Codes, desc : Seq(Texts \union {"code"})]
ParsedFields == [name : Texts \union {"none", "code", "SKIP"}, tag : Tags \union {"SKIP"},
                 sub : Texts \union {"none"}, from : Nat, length : Int, pairs : Seq(Pairs)]

\* A list is known by the column in its name, one that Sentinel named by 0; effective: its
\* dates include today.
Nodes == [name : Texts \union {"code", "SKIP"}, tag : Tags \union {"SKIP", "none"},
          sub : Texts \union {"none"}, place : Seq(Nat), from : Nat, length : Nat,
          lists : SUBSET Nat, codes : SUBSET Codes, digits : Nat, required : BOOLEAN,
          effective : BOOLEAN, edges : SUBSET {"CONTAINED_IN", "REQUIRES"}]

\* a row of the text: the names it contains, the marker in words ("Cols 3-5", "Col 3"),
\* its numbers, and whether a "|" begins it
Rows == [names : SUBSET (Texts \union {"code", "SKIP"}), marker : {"none", "range", "single"},
         lo : Nat \ {0}, hi : Nat, table : BOOLEAN]

ASSUME WireAssumption ==
    /\ RecordLength \in Nat \ {0} /\ MaxImports \in Nat
    /\ Capitals \subseteq Texts
    /\ Content \in [Texts \union {"code", "SKIP"} -> {"digits", "letters", "blank"}]
    /\ \A d \in Documents \union Reissues :
         /\ d \in Seq(Lines)
         /\ \A i \in DOMAIN d :
              /\ d[i].kind \in {"header", "token"} => d[i].from \in 1..d[i].to
              /\ d[i].kind = "header" => d[i].tag \in Tags
              /\ d[i].kind = "text" => d[i].tag \in Texts
    /\ \A x \in Extractions :
         /\ x.rows \in Seq(Rows) /\ x.proposals \in Seq(Nodes)
         /\ \A i \in DOMAIN x.proposals :
              x.proposals[i].length # 0 => x.proposals[i].from # 0

VARIABLES
    document,   \* the document that is parsed, or was last
    at,         \* its next line, 0 when nothing is parsed
    fields,     \* ParsedFields so far, the last one being current_field
    naming,     \* pending_name_for is the current field
    in_body,    \* seen_first_header_this_page
    layout,     \* the graph: FieldRequirements with the codes of their lists
    imports

vars == <<document, at, fields, naming, in_body, layout, imports>>

Columns(f) == f.from .. (f.from + f.length - 1)
CodesOf(f) == {f.pairs[i].code : i \in DOMAIN f.pairs}

-----------------------------------------------------------------------------
(* Sorting and filtering of lists.                                         *)

Latest(S, key) == CHOOSE i \in S : \A j \in S : key[j] < key[i] \/ (key[j] = key[i] /\ j <= i)

\* the numbers in S by their keys, those with the same key by themselves
InOrder(S, key) ==
    MapThenFoldSet(LAMBDA i, s : Append(s, i), <<>>, LAMBDA i : i, LAMBDA T : Latest(T, key), S)

Ascending(S) == InOrder(S, [i \in S |-> i])

\* what s has at the places in S
Subsequence(s, S) == LET o == Ascending(S) IN [k \in DOMAIN o |-> s[o[k]]]

-----------------------------------------------------------------------------
(* Fields that hold sub-fields, and columns no field has.                  *)

Number(c) == c.lo = c.hi

\* pairs that name a column of the field
Markers(f) ==
    {i \in DOMAIN f.pairs : LET p == f.pairs[i] IN
       /\ Number(p.code) /\ p.code.lo \in Columns(f)
       /\ Len(p.desc) = 1 /\ p.desc[1] \in Capitals}

\* where the codes of the sub-field with marker i end
LastPair(f, i) ==
    LET later == {j \in Markers(f) : j > i}
    IN IF later = {} THEN Len(f.pairs) ELSE Min(later) - 1

SubField(f, i) ==
    [f EXCEPT !.name = f.pairs[i].desc[1], !.sub = f.pairs[i].desc[1],
              !.from = f.pairs[i].code.lo, !.length = 1,
              !.pairs = SubSeq(f.pairs, i + 1, LastPair(f, i))]

\* the parent stays, without its codes
Split(f) ==
    IF f.length < 2 \/ Cardinality(Markers(f)) < 2 THEN <<f>>
    ELSE LET order == Ascending(Markers(f))
         IN <<[f EXCEPT !.pairs = <<>>]>> \o [k \in DOMAIN order |-> SubField(f, order[k])]

Skip(a, b) == [name |-> "SKIP", tag |-> "SKIP", sub |-> "none", from |-> a,
               length |-> b - a + 1, pairs |-> <<>>]

\* mutant: the run of columns that ends the record is not emitted
InnerGaps(S) ==
    LET occupied == UNION {Columns(f) : f \in S}
    IN {Skip(r[1], r[2]) : r \in
          {r \in (1..RecordLength) \X (1..RecordLength) :
             /\ r[1] <= r[2] /\ (r[1]..r[2]) \intersect occupied = {}
             /\ r[1] = 1 \/ r[1] - 1 \in occupied
             /\ r[2] + 1 \in occupied}}

\* the runs of columns that no field of S has
Gaps(S) ==
    LET occupied == UNION {Columns(f) : f \in S}
    IN {Skip(r[1], r[2]) : r \in
          {r \in (1..RecordLength) \X (1..RecordLength) :
             /\ r[1] <= r[2] /\ (r[1]..r[2]) \intersect occupied = {}
             /\ r[1] = 1 \/ r[1] - 1 \in occupied
             /\ r[2] = RecordLength \/ r[2] + 1 \in occupied}}

\* parse_pdf's result: named fields, split, in the order of their columns, then gaps
Parsed(s) ==
    LET named == Subsequence(s, {i \in DOMAIN s : s[i].name # "none"})
        split == FlattenSeq([i \in DOMAIN named |-> Split(named[i])])
        order == InOrder(DOMAIN split, [i \in DOMAIN split |-> split[i].from])
    IN IF named = <<>> THEN <<>>
       ELSE [k \in DOMAIN order |-> split[order[k]]] \o SetToSeq(Gaps(Range(split)))

-----------------------------------------------------------------------------
(* Into the graph.                                                         *)

SamePlace(f, g) == f.from = g.from /\ f.length = g.length

\* mutant: the first occurrence is kept
Beats(s, j, i) == SamePlace(s[i], s[j]) /\ j < i

\* of two fields in one place, the one with more pairs, else the first
Supersedes(s, j, i) ==
    /\ SamePlace(s[i], s[j])
    /\ \/ Len(s[j].pairs) > Len(s[i].pairs)
       \/ Len(s[j].pairs) = Len(s[i].pairs) /\ j < i

\* names of nodes: those of SKIPs tell their columns
Proposal(f) ==
    [name |-> f.name, tag |-> f.tag, sub |-> f.sub,
     place |-> IF f.tag = "SKIP" THEN <<f.from, f.length>> ELSE <<>>,
     from |-> f.from, length |-> f.length,
     lists |-> IF f.pairs = <<>> THEN {} ELSE {f.from}, codes |-> CodesOf(f), digits |-> 0,
     required |-> f.tag # "SKIP", effective |-> TRUE, edges |-> {"CONTAINED_IN"}]

\* build_extraction: a field takes the position of the first one in its place
Proposals(s) ==
    LET p == Parsed(s)
        first == Ascending({i \in DOMAIN p : \A j \in 1..(i - 1) : ~SamePlace(p[i], p[j])})
        best == [i \in DOMAIN p |->
                   CHOOSE j \in DOMAIN p : SamePlace(p[i], p[j]) /\ \A k \in DOMAIN p : ~Supersedes(p, k, j)]
    IN [k \in DOMAIN first |-> Proposal(p[best[first[k]]])]

SameName(f, g) == <<f.name, f.tag, f.sub, f.place>> = <<g.name, g.tag, g.sub, g.place>>

\* materialize(): a field of a name there is keeps its columns and dates, and gets the
\* list as well
Merge(S, f) ==
    IF \E g \in S : SameName(f, g)
    THEN {IF SameName(f, g) THEN [g EXCEPT !.lists = @ \union f.lists,
                                           !.codes = @ \union f.codes,
                                           !.edges = @ \union f.edges] ELSE g : g \in S}
    ELSE S \union {f}

-----------------------------------------------------------------------------
(* position_resolver                                                       *)

\* mutant: a bare range may run backwards
Backwards(row) == row.marker = "none" /\ row.table /\ row.hi < 500

Forwards(row) == row.lo <= row.hi

\* a bare range counts in table rows only
Bare(row) == row.marker = "none" /\ row.table /\ Forwards(row) /\ row.hi - row.lo < 500

Usable(row) == row.marker \in {"range", "single"} \/ Bare(row)

\* "Cols 5-3" is no range, but "Cols 5" of it is a column
LengthIn(row) ==
    IF Bare(row) \/ (row.marker = "range" /\ Forwards(row)) THEN row.hi - row.lo + 1 ELSE 1

Resolve(p, rows) ==
    LET found == {i \in DOMAIN rows : p.name \in rows[i].names /\ Usable(rows[i])}
    IN IF p.from # 0 \/ found = {} THEN p
       ELSE [p EXCEPT !.from = rows[Min(found)].lo, !.length = LengthIn(rows[Min(found)])]

-----------------------------------------------------------------------------
(* What the graph says of a layout.                                        *)

\* mutant: fields of the same length count as well, as analyze_layout's docstring has it
KeptOrEqual(S) ==
    {f \in S : f.length < 2
               \/ ~(Columns(f) \subseteq UNION {Columns(g) : g \in {h \in S \ {f} : h.length <= f.length}})}

\* _drop_parents_with_subfields
Kept(S) ==
    {f \in S : f.length < 2
               \/ ~(Columns(f) \subseteq UNION {Columns(g) : g \in {h \in S : h.length < f.length}})}

\* the generator asks for CONTAINED_IN, whatever the dates
fetch_layout == Kept({f \in layout : "CONTAINED_IN" \in f.edges /\ f.length # 0})

\* what gather asks for: its dates bind to REQUIRES alone
Counted ==
    {f \in layout : "CONTAINED_IN" \in f.edges \/ ("REQUIRES" \in f.edges /\ f.effective)}

\* a row for each of the field's lists, or one without a list
RowsOf(f) == {f} \X (IF f.lists = {} THEN {0} ELSE f.lists)

\* mutant: rows of the same length count as well
RowsOrEqual(S) ==
    {r \in S : r[1].length < 2
               \/ ~(Columns(r[1]) \subseteq
                       UNION {Columns(q[1]) : q \in {p \in S \ {r} : p[1].length <= r[1].length}})}

\* analyze_layout's own copy of the rule for parents, on rows
KeptRows(S) ==
    {r \in S : r[1].length < 2
               \/ ~(Columns(r[1]) \subseteq
                       UNION {Columns(q[1]) : q \in {p \in S : p[1].length < r[1].length}})}

Occupying == KeptRows(UNION {RowsOf(f) : f \in {g \in Counted : g.length # 0}})

GeneratorColumns == UNION {Columns(f) : f \in fetch_layout}
ReportColumns == UNION {Columns(r[1]) : r \in Occupying}

Overlaps == {c \in ReportColumns : Cardinality({r \in Occupying : c \in Columns(r[1])}) > 1}

\* "PASS - every byte of every populated layout is accounted for"; orphans are only shown
Passes ==
    /\ (1..RecordLength) \intersect ReportColumns \in {{}, 1..RecordLength}
    /\ Overlaps = {}
    /\ \A f \in layout : f.from # 0

-----------------------------------------------------------------------------
(* Records.                                                                *)

BLANK == -1
DASH == -2
LETTER == -3

Digits(n) ==
    LET digits[m \in 0..n] == IF m < 10 THEN <<m>> ELSE Append(digits[m \div 10], m % 10)
    IN digits[n]

Text(c) == IF Number(c) THEN Digits(c.lo) ELSE Digits(c.lo) \o <<DASH>> \o Digits(c.hi)

\* _expand_range_code: ranges of more than 20, or backwards, stay as they are
Expand(c) ==
    IF c.hi - c.lo > 20 \/ c.lo > c.hi THEN {c} ELSE {[lo |-> i, hi |-> i] : i \in c.lo..c.hi}

\* mutant: codes are not compared with the length of the field
PicksAny(f) == UNION {Expand(c) : c \in f.codes}

\* _pick_code: the scenario only prefers some of these
Picks(f) ==
    LET all == UNION {Expand(c) : c \in f.codes}
        fit == {c \in all : Len(Text(c)) <= f.length}
    IN IF fit = {} THEN all ELSE fit

\* ljust, and cut off
Padded(s, n) == [i \in 1..n |-> IF i <= Len(s) THEN s[i] ELSE BLANK]

Freeform(f) == CASE Content[f.name] = "digits"  -> [i \in 1..f.length |-> 7]
                 [] Content[f.name] = "letters" -> [i \in 1..f.length |-> LETTER]
                 [] OTHER                       -> <<>>

Values(f) ==
    IF f.tag = "SKIP" THEN {Padded(<<>>, f.length)}
    ELSE IF f.codes # {} THEN {Padded(Text(c), f.length) : c \in Picks(f)}
    ELSE {Padded(Freeform(f), f.length)}

Write(record, f, v) ==
    [c \in DOMAIN record |-> IF c \in Columns(f) THEN v[c - f.from + 1] ELSE record[c]]

Filled(f, R) == {Write(r, f, v) : r \in R, v \in Values(f)}

FilledAt(S, c, R) == FoldSet(Filled, R, {f \in S : f.from = c})

\* what fill_record may return: fields in the order of their columns, one over the other
Records(S) ==
    FoldLeft(LAMBDA R, c : FilledAt(S, c, R),
             {[c \in 1..RecordLength |-> BLANK]}, [c \in 1..RecordLength |-> c])

Strip(s) ==
    LET solid == {i \in DOMAIN s : s[i] # BLANK}
    IN IF solid = {} THEN <<>> ELSE SubSeq(s, Min(solid), Max(solid))

IsNumeric(s) == s # <<>> /\ \A i \in DOMAIN s : s[i] \in 0..9

ValueOf(s) == FoldLeft(LAMBDA n, d : 10 * n + d, 0, s)

Allowed(f, s) ==
    \E c \in f.codes :
      s = Text(c) \/ (~Number(c) /\ IsNumeric(s) /\ ValueOf(s) \in c.lo..c.hi)

\* _check_format: patterns are numbers of so many digits
BadFormat(f, s) == f.digits # 0 /\ s # <<>> /\ ~(IsNumeric(s) /\ Len(s) = f.digits)

\* validate_record, for one field
Verdict(record, f) ==
    LET last == f.from + f.length - 1
        s == Strip(SubSeq(record, f.from, last))
    IN IF last > Len(record) THEN "length"
       ELSE IF f.tag = "SKIP" THEN IF s # <<>> THEN "skip_dirty" ELSE "ok"
       ELSE IF f.codes # {} /\ s # <<>> /\ ~Allowed(f, s) THEN "unknown_code"
       ELSE IF f.codes # {} /\ s = <<>> /\ f.required THEN "missing_required"
       ELSE IF BadFormat(f, s) THEN "bad_format" ELSE "ok"

-----------------------------------------------------------------------------
TypeOK ==
    /\ document \in Seq(Lines)
    /\ at \in 0..(Len(document) + 1)
    /\ fields \in Seq(ParsedFields)
    /\ naming \in BOOLEAN /\ in_body \in BOOLEAN
    /\ layout \subseteq Nodes
    /\ imports \in 0..MaxImports

Init ==
    /\ document = <<>> /\ at = 0
    /\ fields = <<>> /\ naming = FALSE /\ in_body = FALSE
    /\ layout = {} /\ imports = 0

Idle == at = 0

Begin(d) ==
    /\ Idle /\ imports < MaxImports
    /\ document' = d /\ at' = 1
    /\ fields' = <<>> /\ naming' = FALSE /\ in_body' = FALSE
    /\ UNCHANGED <<layout, imports>>

Line == document[at]
Reading == ~Idle /\ at <= Len(document)
NextLine == at' = at + 1 /\ UNCHANGED <<document, layout, imports>>

\* mutant: numbers are the page's everywhere
BareNumber == Line.kind = "token" /\ Line.from = Line.to /\ ~Line.star

\* a bare number, before the first header of a page, is the page's
PageNumber == /\ Line.kind = "token" /\ Line.from = Line.to /\ ~Line.star /\ ~in_body

\* a range of columns without a tag: one beyond 9
SkipHeader == Line.kind = "token" /\ Line.from # Line.to /\ Line.to >= 10

NewPage ==
    /\ Reading /\ Line.kind = "page"
    /\ in_body' = FALSE
    /\ NextLine /\ UNCHANGED <<fields, naming>>

Ignore ==
    /\ Reading /\ Line.kind \in {"token", "text"}
    /\ ~SkipHeader
    /\ PageNumber \/ fields = <<>>
    /\ NextLine /\ UNCHANGED <<fields, naming, in_body>>

ReadHeader ==
    /\ Reading /\ Line.kind = "header"
    /\ fields' = Append(fields, [name |-> "none", tag |-> Line.tag, sub |-> "none", from |-> Line.from,
                                 length |-> Line.to - Line.from + 1, pairs |-> <<>>])
    /\ naming' = TRUE /\ in_body' = TRUE
    /\ NextLine

ReadSkip ==
    /\ Reading /\ SkipHeader
    /\ fields' = Append(fields, Skip(Line.from, Line.to))
    /\ naming' = FALSE /\ in_body' = TRUE
    /\ NextLine

\* neither noise nor a header
BodyLine == Line.kind \in {"token", "text"} /\ ~PageNumber /\ ~SkipHeader

What == IF Line.kind = "text" THEN Line.tag ELSE "code"

ReadName ==
    /\ Reading /\ BodyLine /\ naming
    /\ fields' = [fields EXCEPT ![Len(fields)].name = What]
    /\ naming' = FALSE
    /\ NextLine /\ UNCHANGED in_body

\* a code begins a pair, unless the code before it still awaits its description
WithLine(pairs) ==
    LET last == Len(pairs)
    IN IF Line.kind = "token" /\ (pairs = <<>> \/ pairs[last].desc # <<>>)
       THEN Append(pairs, [code |-> [lo |-> Line.from, hi |-> Line.to], desc |-> <<>>])
       ELSE IF pairs = <<>> THEN pairs
       ELSE [pairs EXCEPT ![last].desc = Append(@, What)]

ReadBody ==
    /\ Reading /\ BodyLine /\ ~naming /\ fields # <<>>
    /\ fields' = [fields EXCEPT ![Len(fields)].pairs = WithLine(@)]
    /\ NextLine /\ UNCHANGED <<naming, in_body>>

\* the end of the document: _run_target builds the extraction and materializes it
Finish ==
    /\ ~Idle /\ at > Len(document)
    /\ layout' = FoldLeft(Merge, layout, Proposals(fields))
    /\ at' = 0 /\ imports' = imports + 1
    /\ UNCHANGED <<document, fields, naming, in_body>>

\* rebuild_kg replays an extraction: positions are resolved, then it is materialized
Replay(x) ==
    /\ Idle /\ imports < MaxImports
    /\ layout' = FoldLeft(Merge, layout,
                          [i \in DOMAIN x.proposals |-> Resolve(x.proposals[i], x.rows)])
    /\ imports' = imports + 1
    /\ UNCHANGED <<document, at, fields, naming, in_body>>

Next ==
    \/ \E d \in IF imports = 0 THEN Documents ELSE Reissues : Begin(d)
    \/ \E x \in Extractions : Replay(x)
    \/ NewPage \/ Ignore \/ ReadHeader \/ ReadSkip \/ ReadName \/ ReadBody \/ Finish

Spec == Init /\ [][Next]_vars
-----------------------------------------------------------------------------
(* Properties.                                                             *)

\* _fill_coverage_gaps: "every byte of every record has a FieldRequirement node"; but
\* for columns of a field that shares its name with one at another place, which is
\* not created.
ColumnsAccounted ==
    Idle /\ Proposals(fields) # <<>> =>
      \A c \in 1..RecordLength :
        \/ \E g \in layout : c \in Columns(g)
        \/ \E f \in Range(Proposals(fields)) :
             c \in Columns(f) /\ \E g \in layout : SameName(f, g) /\ ~SamePlace(f, g)

\* lines i to j of the document: a header with a name and codes with descriptions, up
\* to the next header or the end of the page
Section(i, j) ==
    /\ document[i].kind = "header" /\ i + 3 <= j /\ document[i + 1].kind = "text"
    /\ \A k \in (i + 2)..j :
         /\ document[k].kind \in {"token", "text"} /\ document[k].to < 10
         /\ (k - i) % 2 = 0 <=> document[k].kind = "token"
    /\ document[j].kind = "text"
    /\ j = Len(document) \/ document[j + 1].kind \in {"header", "page"}

Sections == {s \in (1..Len(document)) \X (1..Len(document)) : Section(s[1], s[2])}

SectionColumns(i) == document[i].from .. document[i].to

\* Whatever stands around it, a section that has been read is the beginning of the list
\* of its field: no line of it is taken for a page number, for another header, or for
\* something else than it is.
SectionsRead ==
    \A s \in Sections : Idle \/ s[2] < at =>
      \E f \in Range(fields) :
        /\ <<f.name, f.tag>> = <<document[s[1] + 1].tag, document[s[1]].tag>>
        /\ Columns(f) = SectionColumns(s[1])
        /\ \A m \in 1..((s[2] - s[1]) \div 2) : LET k == s[1] + 2 * m IN
             /\ m \in DOMAIN f.pairs
             /\ f.pairs[m].code = [lo |-> document[k].from, hi |-> document[k].to]
             /\ f.pairs[m].desc # <<>> /\ f.pairs[m].desc[1] = document[k + 1].tag

Named == {f \in Range(fields) : f.name # "none"}

Pieces == UNION {Range(Split(f)) : f \in Named}

\* the columns of p have another list that is as long
Outdone(p) == \E q \in Pieces \ {p} : SamePlace(p, q) /\ Len(q.pairs) >= Len(p.pairs)

InGraph(p) ==
    \E g \in layout : <<g.name, g.tag, g.sub>> = <<p.name, p.tag, p.sub>> /\ CodesOf(p) \subseteq g.codes

\* the column names of a field with sub-fields, and what stands before the first one
Unlisted(f, k) == Len(Split(f)) > 1 /\ \A m \in Markers(f) : k <= m \/ k \in Markers(f)

\* No code that was read is lost on its way into the graph: it is in the list of its
\* field or sub-field, and that list is in the graph, whatever else has the same name
\* and whatever is imported later; unless the same columns have another list that is
\* as long, or the code stands before the first name of a sub-field.
ListsComplete ==
    Idle =>
      \A f \in Named : \A k \in DOMAIN f.pairs : ~Unlisted(f, k) =>
        \E p \in Range(Split(f)) :
          /\ f.pairs[k].code \in CodesOf(p) /\ Columns(p) \subseteq Columns(f)
          /\ Outdone(p) \/ InGraph(p)

\* Importing uncovers nothing: a column that the generator fills it fills after any
\* later import, and one the report counts stays counted, whichever fields become
\* parents of others, share their columns or get a second list.
ImportsUncoverNothing ==
    [][GeneratorColumns \subseteq GeneratorColumns' /\ ReportColumns \subseteq ReportColumns']_vars

\* "A green run means: the KG can deterministically generate or validate any record
\* line for that layout": when the report passes, of a layout the generator has fields
\* of, it has exactly one for each column.
PassMeansDetermined ==
    Idle /\ Passes /\ GeneratorColumns # {} =>
      \A c \in 1..RecordLength : Cardinality({f \in fetch_layout : c \in Columns(f)}) = 1

\* what makes the generator and the validator disagree about a field
Disputed(f, S) ==
    \/ \E g \in S \ {f} : Columns(f) \intersect Columns(g) # {}
    \/ f.from + f.length - 1 > RecordLength
    \/ f.codes # {} /\ \A c \in Picks(f) : Len(Text(c)) > f.length
    \/ /\ f.digits # 0
       /\ f.codes # {} \/ Content[f.name] = "letters"
          \/ (Content[f.name] = "digits" /\ f.length # f.digits)

\* "the KG's own output validates against itself": every record generate_sample_submission
\* can make passes validate_submission, but for fields that overlap another, leave the
\* record, have no code that fits, or a format their value cannot have.
RoundTrip ==
    Idle =>
      LET S == fetch_layout
      IN \A r \in Records(S) : \A f \in S : Verdict(r, f) = "ok" \/ Disputed(f, S)
=============================================================================
