---------------------------- MODULE MCWireFormat ----------------------------
(* A small instance of WireFormat for TLC: a record of twelve columns. *)
EXTENDS WireFormat

Page == [kind |-> "page", from |-> 0, to |-> 0, tag |-> "none", star |-> FALSE]
Header(a, b, t) == [kind |-> "header", from |-> a, to |-> b, tag |-> t, star |-> FALSE]
Token(a, b) == [kind |-> "token", from |-> a, to |-> b, tag |-> "none", star |-> FALSE]
Starred(a) == [Token(a, a) EXCEPT !.star = TRUE]
Word(t) == [kind |-> "text", from |-> 0, to |-> 0, tag |-> t, star |-> FALSE]
Code(n) == <<Token(n, n), Word("other")>>
Other == <<Word("other")>>

AllTexts == {"zip", "place", "other", "MONTH", "YEAR"}
ContentOf == [t \in AllTexts \union {"code", "SKIP"} |->
                CASE t = "zip" -> "digits" [] t = "place" -> "letters" [] OTHER -> "blank"]

RT == Header(1, 1, "RT")
DATE == Header(2, 3, "ACDT")

Parts == {
    <<RT, Word("zip")>>, <<Header(5, 6, "RT"), Word("zip")>>,
    <<RT>> \o Other \o Code(1) \o Code(2),
    <<RT>> \o Other \o Code(1) \o <<Page>> \o Code(2) \o <<Starred(3)>> \o Other,
    <<Page, Token(7, 7), RT>> \o Other \o Code(3),
    <<RT>>, <<RT, Token(3, 3)>>,
    <<DATE>> \o Other \o <<Token(2, 2), Word("MONTH")>> \o Code(1)
      \o <<Token(3, 3), Word("YEAR"), Token(1, 3)>> \o Other,
    <<Header(2, 4, "ACDT")>> \o Other \o <<Token(2, 2), Word("MONTH"), Token(3, 3), Word("YEAR")>> \o Code(4),
    <<DATE>> \o Other \o <<Token(2, 2), Word("MONTH")>> \o Code(1) \o Other,
    <<DATE>> \o Other \o Code(7) \o <<Token(2, 2), Word("MONTH")>> \o Code(1) \o Code(2)
      \o <<Token(3, 3), Word("YEAR"), Token(2, 2), Word("MONTH")>> \o Code(5),
    <<Header(3, 3, "PSC")>> \o Other \o <<Starred(1), Token(2, 2)>> \o Code(10),
    <<Header(4, 5, "CAUSE"), Word("place"), Token(1, 3)>> \o Other \o Code(10),
    <<Token(6, 12)>>, <<Token(11, 12)>> \o Code(1) \o Code(2), <<Header(11, 12, "RT")>> \o Other \o Code(3), <<Header(11, 14, "POLICY"), Word("place")>>,
    <<Header(2, 12, "REST"), Word("zip")>>}

Tails == {<<RT>> \o Other \o Code(1) \o Code(2), <<Token(6, 12)>>, <<Header(2, 3, "DATE")>> \o Other \o Code(1)}

\* lines in any order, and documents of two or three parts
Alphabet == {Page, RT, Header(2, 3, "ACDT"), Token(2, 2), Token(3, 3), Token(6, 12),
             Word("other"), Word("YEAR")}

AllDocuments ==
    UNION {[1..n -> Alphabet] : n \in 1..3}
    \union {a \o b : a \in Parts, b \in Parts} \union {a \o b \o c : a \in Parts, b \in Parts, c \in Tails}

LaterDocuments == {
    <<RT>> \o Other \o Code(2) \o Code(3),
    <<Header(1, 3, "RT"), Word("zip")>>,
    <<DATE>> \o Other \o Code(1)}

Row(names, marker, lo, hi, table) ==
    [names |-> names, marker |-> marker, lo |-> lo, hi |-> hi, table |-> table]
Proposed(name, codes, digits, edges) ==
    [name |-> name, tag |-> "none", sub |-> "none", place |-> <<>>, from |-> 0, length |-> 0,
     lists |-> IF codes = {} THEN {} ELSE {0}, codes |-> codes, digits |-> digits,
     required |-> TRUE, effective |-> TRUE, edges |-> edges]
Later(p) == [p EXCEPT !.effective = FALSE]

\* a row of place and zip: the one name is part of the other
AllRows == {
    <<Row({"place"}, "none", 3, 8, FALSE), Row({"place", "zip"}, "none", 4, 5, TRUE)>>,
    <<Row({"zip"}, "none", 7, 4, TRUE), Row({"zip"}, "range", 9, 7, FALSE), Row({"place"}, "single", 1, 1, FALSE)>>,
    <<Row({"zip"}, "range", 1, 12, FALSE), Row({"other"}, "none", 3, 3, FALSE)>>}

AllExtractions ==
    {[rows |-> r, proposals |-> p] : r \in AllRows, p \in {
        <<Proposed("zip", {}, 1, {"CONTAINED_IN"}), Proposed("place", {}, 0, {"CONTAINED_IN"})>>,
        <<Proposed("zip", {[lo |-> 1, hi |-> 30]}, 0, {"CONTAINED_IN"}), Proposed("place", {}, 2, {"REQUIRES"})>>,
        <<Proposed("zip", {[lo |-> 1, hi |-> 3]}, 0, {"REQUIRES"})>>,
        <<Later(Proposed("zip", {}, 0, {"REQUIRES"})), Later(Proposed("place", {}, 0, {"CONTAINED_IN"}))>>,
        <<Proposed("other", {}, 0, {"CONTAINED_IN"})>>}}

\* place in columns 1 to 3 and zip in the others
SplitRows == <<Row({"place"}, "range", 1, 3, FALSE), Row({"zip"}, "range", 4, 12, FALSE)>>

RequiredExtractions ==
    {[rows |-> SplitRows, proposals |->
        <<Proposed("place", {}, 0, {"CONTAINED_IN"}), Proposed("zip", {}, 0, e)>>] :
      e \in {{"CONTAINED_IN"}, {"REQUIRES"}, {"CONTAINED_IN", "REQUIRES"}}}
=============================================================================
