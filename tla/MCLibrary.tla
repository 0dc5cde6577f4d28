------------------------------ MODULE MCLibrary ------------------------------
(***************************************************************************)
(* Bookmarks for TLC: an administrator and another user, three URLs, two   *)
(* tags of which one is typed in two ways.  A user begins with two of the  *)
(* URLs, so that one may be added while the pages of the two are turned.   *)
(* The imported bookmarks are those of a parsed file, and the parsers are  *)
(* checked against what they should find in any small file.                *)
(***************************************************************************)
EXTENDS Bookmarks

CONSTANTS ann, bob, b1, b2, b3, p1, Empty

File == INSTANCE Importer

Slugs == [n \in Typed |-> CASE n \in {"go", "Go"} -> "go" [] n = "db" -> "db"
                            [] OTHER -> NoName]

TagsOfHosts == [u \in Urls |-> IF u = b2 THEN <<"go">> ELSE <<>>]
TagsOfPages == [u \in Urls |-> <<"db", "db">>]

MatchedUrls == [p \in Patterns |-> {b1}]

Bookmarked == [u \in Users |-> IF u = bob THEN <<b1, b3>> ELSE <<>>]
Tagged == [m \in Users \X Urls |-> IF m = <<bob, b1>> THEN {"db"} ELSE {}]

Entry(u, tags) == [url |-> u, tags |-> tags]
Request(via, u, items) == [via |-> via, user |-> u, items |-> items]

Line(kind, u, tags, text) == [kind |-> kind, url |-> u, tags |-> tags, text |-> text]
Blank == Line("blank", Empty, <<>>, Empty)
Other == Line("other", Empty, <<>>, Empty)
Long == Line("long", Empty, <<>>, Empty)

Export ==
  <<Other, Line("entry", b2, <<"Go", Empty, "?">>, Empty), Blank,
    Line("note", Empty, <<>>, "db"), Line("entry", Empty, <<>>, Empty),
    Line("entry", b1, <<"db", "go">>, Empty), Other>>

Exported ==
  LET bms == File!ToImport(File!ParseNetscapeHTML(Export))
  IN  [i \in DOMAIN bms |-> Entry(bms[i].url, bms[i].tags)]

Requests ==
  {Request("form", bob, <<Entry(b1, <<"go", "db">>)>>),
   Request("form", bob, <<Entry(b2, <<>>)>>),
   Request("form", ann, <<Entry(b1, <<>>)>>),
   Request("api", bob, <<Entry(b1, <<"db", "go">>)>>),
   Request("import", bob, Exported),
   Request("edit", bob, <<Entry(b1, <<"go", "Go">>)>>),
   Request("edit", bob, <<Entry(b1, <<>>)>>),
   Request("delete", bob, <<Entry(b1, <<>>)>>)}

-----------------------------------------------------------------------------
SmallFiles(S, n) == UNION {[1 .. m -> S] : m \in 0 .. n}

Lines == {Line("entry", b1, <<"db">>, Empty), Line("entry", Empty, <<>>, Empty),
          Line("note", Empty, <<>>, "go"), Blank, Other, Long}

(* The first line after line i that is not blank describes it, if it is a note. *)
Description(lines, i) ==
  LET notes == {j \in i + 1 .. Len(lines) :
                  lines[j].kind = "note" /\ \A k \in i + 1 .. j - 1 : lines[k] = Blank}
  IN  IF notes = {} THEN Empty ELSE lines[CHOOSE j \in notes : TRUE].text

Entries(lines) == SelectSeq([i \in DOMAIN lines |-> i], LAMBDA i : lines[i].kind = "entry")

(* ParseNetscapeHTML gives every entry of a file once, in order and with   *)
(* its own description, whatever lines are between; a file with a line     *)
(* beyond the buffer gives an error and no entry.                          *)
ASSUME EntriesAreParsed ==
  \A lines \in SmallFiles(Lines, 5) :
    File!ParseNetscapeHTML(lines) =
      IF Long \in ToSet(lines) THEN File!Failed
      ELSE File!Parsed([n \in DOMAIN Entries(lines) |->
                          LET i == Entries(lines)[n]
                          IN  File!Bookmark(lines[i].url, Description(lines, i), lines[i].tags)])

Cells == {[text |-> b1, words |-> <<"db">>], [text |-> Empty, words |-> <<>>]}

(* ParsePinboardCSV finds the columns wherever they are and reads no cell  *)
(* of another one; a row that is shorter or longer than the header refuses *)
(* the file, so that the tests of the length of a row never fail.          *)
ASSUME RowsAreParsed ==
  \A header \in SmallFiles({"href", "extended", "tags"}, 3) :
    \A rows \in SmallFiles(UNION {[1 .. n -> Cells] : n \in 1 .. 2}, 2) :
      LET parsed == File!ParsePinboardCSV(header, rows)
          square == \A i \in DOMAIN rows : Len(rows[i]) = Len(header)
          urls   == {i \in DOMAIN rows : \E j \in DOMAIN header :
                       /\ header[j] = "href" /\ rows[i][j].text # Empty
                       /\ \A k \in 1 .. j - 1 : header[k] # "href"}
      IN  /\ parsed.failed <=> header # <<>> /\ ("href" \notin ToSet(header) \/ ~square)
          /\ Len(parsed.bookmarks) = IF header = <<>> \/ parsed.failed THEN 0
                                     ELSE Cardinality(urls)
          /\ "tags" \notin ToSet(header) =>
               \A i \in DOMAIN parsed.bookmarks : parsed.bookmarks[i].tags = <<>>
=============================================================================
