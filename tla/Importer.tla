------------------------------ MODULE Importer ------------------------------
(***************************************************************************)
(* The parsers of exported bookmarks (internal/importer) and what          *)
(* handleImport makes of their answers.  A file is a sequence of lines or  *)
(* of rows, taken apart as the parser's expressions take them apart.       *)
(***************************************************************************)
EXTENDS Integers, Sequences, SequencesExt

CONSTANT Empty \* the text of which nothing is left once it is trimmed

Bookmark(url, description, tags) ==
  [url |-> url, description |-> description, tags |-> tags]

(* What a parser returns; with an error, the bookmarks are of no use. *)
Parsed(bookmarks) == [failed |-> FALSE, bookmarks |-> bookmarks]
Failed == [failed |-> TRUE, bookmarks |-> <<>>]

SplitComma(parts) == SelectSeq(parts, LAMBDA t : t # Empty)
-----------------------------------------------------------------------------
(***************************************************************************)
(* Netscape HTML.  The kinds of lines: an "entry", <DT><A> with an HREF, a *)
(* "note", <DD>, a "blank" one, one that is "long", beyond the buffer of   *)
(* the scanner, and "other" ones, to which an <A> without HREF belongs.    *)
(* An entry is pending until it is known whether a note describes it.      *)
(***************************************************************************)
Flush(st) == [st EXCEPT !.bookmarks = @ \o st.pending, !.pending = <<>>]

ScanLine(st, line) ==
  CASE st.failed \/ line.kind = "blank" -> st
    [] line.kind = "long" -> [st EXCEPT !.failed = TRUE]
    [] line.kind = "entry" ->
         [Flush(st) EXCEPT !.pending = <<Bookmark(line.url, Empty, SplitComma(line.tags))>>]
    [] line.kind = "note" /\ st.pending # <<>> ->
         Flush([st EXCEPT !.pending[1].description = line.text])
    [] OTHER -> Flush(st)

ParseNetscapeHTML(lines) ==
  LET end == FoldLeft(ScanLine, [failed |-> FALSE, bookmarks |-> <<>>, pending |-> <<>>], lines)
  IN  IF end.failed THEN Failed ELSE Parsed(Flush(end).bookmarks)
-----------------------------------------------------------------------------
(***************************************************************************)
(* Pinboard and Delicious CSV.  The header is a sequence of lower-case     *)
(* names, <<>> in an empty file; a cell has a text and the words in it.    *)
(* The reader wants as many cells in a row as in the header.               *)
(***************************************************************************)
Column(header, name) == SelectInSeq(header, LAMBDA h : h = name)

(* A cell of the row, or the one given if there is no such column. *)
Cell(row, i, default) == IF i \in DOMAIN row THEN row[i] ELSE default

ReadRow(st, row, header) ==
  LET none == [text |-> Empty, words |-> <<>>]
      url  == Cell(row, Column(header, "href"), none).text
      note == Cell(row, Column(header, "extended"), none).text
      tags == Cell(row, Column(header, "tags"), none).words
  IN  CASE st.failed \/ Len(row) # Len(header) -> Failed
        [] url = Empty -> st
        [] OTHER -> Parsed(Append(st.bookmarks, Bookmark(url, note, tags)))

ParsePinboardCSV(header, rows) ==
  CASE header = <<>> -> Parsed(<<>>)
    [] Column(header, "href") = 0 -> Failed
    [] OTHER -> FoldLeft(LAMBDA st, row : ReadRow(st, row, header), Parsed(<<>>), rows)
-----------------------------------------------------------------------------
(* What handleImport saves of a file; a bookmark without URL is skipped. *)
ToImport(parsed) == SelectSeq(parsed.bookmarks, LAMBDA b : b.url # Empty)
=============================================================================
