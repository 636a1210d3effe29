------------------------------- MODULE Reader -------------------------------
(***************************************************************************)
(* The reader of pkg/cell: akx_cell_parse_buffer and the functions it is   *)
(* made of, and the test of the read-eval-print loop for a complete entry. *)
(*                                                                         *)
(* A source text is a sequence of tokens.  Two of the four kinds of        *)
(* brackets stand for all; "nl" is a line break, with the comment before   *)
(* it if there is one; other white space only separates tokens.  "str..."  *)
(* is a string whose closing quote is not there yet: it goes to the end of *)
(* the text, line breaks included.  The reader skips comments and the loop *)
(* counts the brackets in them, so those are kept apart, in noted.  No     *)
(* string has a bracket in it and no comment a quote.  The scanner belongs *)
(* to the ak24 library and is modelled from its use: find_group looks for  *)
(* the closing bracket counting brackets of that kind only, a closing      *)
(* bracket is the start of no static type, and what a bracket in a comment *)
(* would do to a group around it is not known, so that such comments stand *)
(* outside brackets.                                                       *)
(***************************************************************************)
EXTENDS Integers, Sequences, FiniteSets

CONSTANTS
  Tokens,      \* the tokens a text is made of
  MaxLength,   \* bound on the length of a text
  MaxNoted     \* bound on its comments with a bracket

Opening == {"(", "["}

Closing == {")", "]"}

CloserOf == [o \in Opening |-> IF o = "(" THEN ")" ELSE "]"]

StaticTypes == {"sym", "num"}

Strings == {"str", "str..."}

ASSUME ReaderConstants ==
  /\ Tokens \subseteq Opening \cup Closing \cup StaticTypes \cup Strings \cup {"'", "nl"}
  /\ MaxLength \in Nat /\ MaxNoted \in Nat

VARIABLES
  text,     \* what a file or the buffer of the loop holds so far
  noted     \* the brackets in its comments

vars == <<text, noted>>

Init == text = <<>> /\ noted = <<>>

-----------------------------------------------------------------------------
(***************************************************************************)
(* Cells, and what a function of the parser leaves: the cell it returns,   *)
(* the position of the scanner, and the errors it added, by the first word *)
(* or two of their messages.  A quoted cell holds the text after the       *)
(* quote, not its cells.                                                   *)
(***************************************************************************)
NoCell == <<>>

Atom(t) == <<t>>

List(open, cells) == <<"list", open, cells>>

Quoted(s) == <<"quoted", s>>

Result(cell, next, errors) == [cell |-> cell, next |-> next, errors |-> errors]

(* akx_cell_parse_buffer and the loop over the items of a list: all cells  *)
(* up to the first that is none.                                           *)
Cells(cells, next, errors) == [cells |-> cells, next |-> next, errors |-> errors]

(* ak_scanner_skip_whitespace_and_comments: the next position up to e with *)
(* a token that is no line break, or e + 1.                                *)
Skip(s, i, e) ==
  CHOOSE j \in i..(e + 1) :
    /\ j = e + 1 \/ s[j] # "nl"
    /\ \A k \in i..(j - 1) : s[k] = "nl"

Count(s, t, i, j) == Cardinality({k \in i..j : s[k] = t})

(* ak_scanner_find_group from an opening bracket at i: where the group may *)
(* end.                                                                    *)
GroupEnds(s, i, e) ==
  {j \in (i + 1)..e : Count(s, s[i], i, j) = Count(s, CloserOf[s[i]], i, j)}

(* Mutant of GroupEnd: nested groups are not counted.                      *)
GroupEndFirst(s, i, e) ==
  CHOOSE j \in (i + 1)..e :
    /\ s[j] = CloserOf[s[i]]
    /\ \A k \in (i + 1)..(j - 1) : s[k] # CloserOf[s[i]]

GroupEnd(s, i, e) ==
  CHOOSE j \in GroupEnds(s, i, e) : \A k \in GroupEnds(s, i, e) : j <= k

-----------------------------------------------------------------------------
(***************************************************************************)
(* The parse functions.  Each reads the text s from position i and sees    *)
(* nothing after position e, the end of the buffer it was given.  What     *)
(* they call is looked up in parser, the function Parser defines: for each *)
(* position what parse_argument returns there, and what the loops over the *)
(* items of a list, the arguments of a line and the expressions of a       *)
(* buffer return from there on, by the end of the buffer.                  *)
(***************************************************************************)

(* The parser of an integer, real or symbol.                               *)
ParseStaticType(s, i) ==
  IF s[i] \in StaticTypes THEN Result(Atom(s[i]), i + 1, {}) ELSE Result(NoCell, i, {})

(* find_group finds no closing quote in what is a string to the end.       *)
ParseStringLiteral(s, i) ==
  IF s[i] = "str" THEN Result(Atom(s[i]), i + 1, {})
                  ELSE Result(NoCell, i, {"unterminated_string"})

(* Mutant of ParseExplicitList: NULL without a call of add_parse_error.    *)
ParseExplicitListSilent(parser, s, i, e) ==
  IF GroupEnds(s, i, e) = {}
    THEN Result(NoCell, i, {})
    ELSE LET end == GroupEnd(s, i, e)
             inside == parser[i + 1].items[end - 1]
         IN Result(List(s[i], inside.cells), end + 1, inside.errors)

(* A bracket: the text up to its partner is read as a buffer of its own.   *)
(* Where that fails the list ends early, and it is a list all the same.    *)
ParseExplicitList(parser, s, i, e) ==
  IF GroupEnds(s, i, e) = {}
    THEN Result(NoCell, i, {"unterminated"})
    ELSE LET end == GroupEnd(s, i, e)
             inside == parser[i + 1].items[end - 1]
         IN Result(List(s[i], inside.cells), end + 1, inside.errors)

(* Mutant of ParseQuoted: one token too many goes into the cell.           *)
ParseQuotedLong(parser, s, i, e) ==
  LET inner == parser[i + 1].argument[e] IN
  IF inner.cell = NoCell
    THEN Result(NoCell, inner.next, inner.errors \cup {"invalid_quote"})
    ELSE Result(Quoted(SubSeq(s, i, inner.next - 1)), inner.next, inner.errors)

ParseQuoted(parser, s, i, e) ==
  LET inner == parser[i + 1].argument[e] IN
  IF inner.cell = NoCell
    THEN Result(NoCell, inner.next, inner.errors \cup {"invalid_quote"})
    ELSE Result(Quoted(SubSeq(s, i + 1, inner.next - 1)), inner.next, inner.errors)

ParseArgument(parser, s, i, e) ==
  LET start == Skip(s, i, e) IN
  IF start > e
    THEN Result(NoCell, start, {})
    ELSE CASE s[start] \in Opening -> ParseExplicitList(parser, s, start, e)
           [] s[start] \in Strings -> ParseStringLiteral(s, start)
           [] s[start] = "'"       -> ParseQuoted(parser, s, start, e)
           [] OTHER                -> ParseStaticType(s, start)

Ended(result) == Cells(<<>>, result.next, result.errors)

Prepended(result, rest) ==
  Cells(<<result.cell>> \o rest.cells, rest.next, result.errors \cup rest.errors)

(* The items of an explicit list, up to the first that is none.            *)
Items(parser, s, i, e) ==
  LET first == ParseArgument(parser, s, i, e) IN
  IF first.cell = NoCell THEN Ended(first) ELSE Prepended(first, parser[first.next].items[e])

(* The arguments of a virtual list, which ends with its line.              *)
Line(parser, s, i, e) ==
  LET first == ParseArgument(parser, s, i, e) IN
  IF i > e \/ s[i] = "nl" THEN Cells(<<>>, Skip(s, i, e), {})
  ELSE IF first.cell = NoCell THEN Ended(first)
  ELSE Prepended(first, parser[first.next].line[e])

(* A symbol outside brackets starts a list without brackets.               *)
ParseVirtualList(parser, s, i, e) ==
  IF s[i] # "sym"
    THEN Result(NoCell, i, {})
    ELSE LET rest == parser[i + 1].line[e] IN
         Result(List("(", <<Atom(s[i])>> \o rest.cells), rest.next, rest.errors)

ParseExpression(parser, s, i, e) ==
  CASE s[i] \in Opening -> ParseExplicitList(parser, s, i, e)
    [] s[i] = "'"       -> ParseQuoted(parser, s, i, e)
    [] OTHER            -> ParseVirtualList(parser, s, i, e)

(* The loop of akx_cell_parse_buffer, up to the first expression that is   *)
(* none.                                                                   *)
Expressions(parser, s, i, e) ==
  LET start == Skip(s, i, e)
      first == ParseExpression(parser, s, start, e)
  IN IF start > e THEN Cells(<<>>, start, {})
     ELSE IF first.cell = NoCell THEN Ended(first)
     ELSE Prepended(first, parser[first.next].expressions[e])

Parser(s) ==
  LET parser[i \in 1..(Len(s) + 1)] ==
        [argument    |-> [e \in (i - 1)..Len(s) |-> ParseArgument(parser, s, i, e)],
         items       |-> [e \in (i - 1)..Len(s) |-> Items(parser, s, i, e)],
         line        |-> [e \in (i - 1)..Len(s) |-> Line(parser, s, i, e)],
         expressions |-> [e \in (i - 1)..Len(s) |-> Expressions(parser, s, i, e)]]
  IN parser

ParseBuffer(s) == Parser(s)[1].expressions[Len(s)]

(* akx_cell_unwrap_quoted: the first expression of the text in the cell,   *)
(* whatever errors there were.                                             *)
UnwrapQuoted(cell) ==
  LET cells == ParseBuffer(cell[2]).cells IN IF cells = <<>> THEN NoCell ELSE cells[1]

(* Mutant of IsBalanced: only parentheses are counted.                     *)
IsBalancedParens(s, notes) ==
  Count(s, "(", 1, Len(s)) + Count(notes, "(", 1, Len(notes))
    = Count(s, ")", 1, Len(s)) + Count(notes, ")", 1, Len(notes))

(* repl_buffer_is_balanced: as many closing brackets as opening ones, of   *)
(* each kind, in whatever order.  Comments are text like any other, and    *)
(* that a string is still open makes no difference.                        *)
IsBalanced(s, notes) ==
  \A o \in Opening :
    Count(s, o, 1, Len(s)) + Count(notes, o, 1, Len(notes))
      = Count(s, CloserOf[o], 1, Len(s)) + Count(notes, CloserOf[o], 1, Len(notes))

-----------------------------------------------------------------------------
(***************************************************************************)
(* What a text means, defined by a reader that takes one token after the   *)
(* other and keeps the lists that are still open: the whole text, a line   *)
(* begun by a symbol, brackets; and a string that is not closed, which has *)
(* no cells and which nothing ends.  quote is the place of a quote that    *)
(* has nothing after it yet, or 0.                                         *)
(***************************************************************************)
OpenList(kind, cells, quote) == [kind |-> kind, cells |-> cells, quote |-> quote]

Innermost(open) == open[Len(open)]

Outer(open) == SubSeq(open, 1, Len(open) - 1)

WithInnermost(open, list) == [open EXCEPT ![Len(open)] = list]

(* A cell ends at place i of s; a quote in front of it makes it quoted.    *)
Item(s, list, cell, i) ==
  IF list.quote = 0 THEN cell ELSE Quoted(SubSeq(s, list.quote + 1, i))

Added(s, open, cell, i) ==
  LET list == Innermost(open) IN
  WithInnermost(open, OpenList(list.kind, Append(list.cells, Item(s, list, cell, i)), 0))

Closed(s, open, kind, i) ==
  Added(s, Outer(open), List(kind, Innermost(open).cells), i)

(* Nothing is left to read a text in which a token has no place.           *)
Misplaced == <<>>

LineEnds(open) == Innermost(open).kind = "line" /\ Innermost(open).quote = 0

Outside(open) == Innermost(open).kind = "text" /\ Innermost(open).quote = 0

(* An atom: outside brackets and quotes only a symbol has a place, and     *)
(* begins a line.                                                          *)
TakeAtom(s, open, i) ==
  IF ~Outside(open) THEN Added(s, open, Atom(s[i]), i)
  ELSE IF s[i] = "sym" THEN Append(open, OpenList("line", <<Atom(s[i])>>, 0))
  ELSE Misplaced

TakeOpenString(open) ==
  IF Outside(open) THEN Misplaced ELSE Append(open, OpenList("string", <<>>, 0))

TakeQuote(open, i) ==
  LET list == Innermost(open) IN
  IF list.quote = 0 THEN WithInnermost(open, OpenList(list.kind, list.cells, i)) ELSE open

TakeClosing(s, open, i) ==
  LET list == Innermost(open) IN
  IF list.kind \in Opening /\ CloserOf[list.kind] = s[i] /\ list.quote = 0
    THEN Closed(s, open, list.kind, i)
    ELSE Misplaced

TakeToken(s, open, i) ==
  CASE s[i] = "nl"        -> IF LineEnds(open) THEN Closed(s, open, "(", i) ELSE open
    [] s[i] = "'"         -> TakeQuote(open, i)
    [] s[i] \in Opening   -> Append(open, OpenList(s[i], <<>>, 0))
    [] s[i] \in Closing   -> TakeClosing(s, open, i)
    [] s[i] = "str..."    -> TakeOpenString(open)
    [] OTHER              -> TakeAtom(s, open, i)

(* The lists open after the first i tokens, for each i.                    *)
OpenLists(s) ==
  LET open[i \in 0..Len(s)] ==
        IF i = 0 THEN <<OpenList("text", <<>>, 0)>>
        ELSE IF open[i - 1] = Misplaced THEN Misplaced
        ELSE TakeToken(s, open[i - 1], i)
  IN open

(* The lists open after the whole text and the end of its last line.       *)
OpenAfter(s) ==
  LET open == OpenLists(s)[Len(s)] IN
  IF open # Misplaced /\ LineEnds(open) THEN Closed(s, open, "(", Len(s)) ELSE open

IsText(open) == Len(open) = 1 /\ open[1].quote = 0

WellFormed(s) == IsText(OpenAfter(s))

Meaning(s) == OpenAfter(s)[1].cells

-----------------------------------------------------------------------------
(***************************************************************************)
(* Texts, as they are written or typed.                                    *)
(***************************************************************************)
InString == Len(text) > 0 /\ text[Len(text)] = "str..."

(* A token more.                                                           *)
Write(t) ==
  /\ Len(text) < MaxLength /\ ~InString
  /\ text' = Append(text, t)
  /\ UNCHANGED noted

(* The closing quote of the string that is open.                           *)
EndString ==
  /\ InString
  /\ text' = [text EXCEPT ![Len(text)] = "str"]
  /\ UNCHANGED noted

(* A comment with a bracket in it, after a complete text.                  *)
Comment(bracket) ==
  /\ Len(text) < MaxLength /\ Len(noted) < MaxNoted /\ WellFormed(text)
  /\ text' = Append(text, "nl")
  /\ noted' = Append(noted, bracket)

Next ==
  \/ \E t \in Tokens : Write(t)
  \/ EndString
  \/ \E bracket \in Opening \cup Closing : Comment(bracket)

Spec == Init /\ [][Next]_vars

-----------------------------------------------------------------------------
(***************************************************************************)
(* Properties.                                                             *)
(***************************************************************************)

(* A well-formed text is read to its end, without an error and into the    *)
(* cells it means, although each list is found by counting one kind of     *)
(* bracket and read as a text of its own.                                  *)
ReadsWhatIsMeant ==
  WellFormed(text) =>
    LET read == ParseBuffer(text) IN
    read.errors = {} /\ read.next = Len(text) + 1 /\ read.cells = Meaning(text)

(* Text is lost without an error only for a token out of place: while a    *)
(* text can still be completed, the reader reads all of it or complains.   *)
NothingIsLostSilently ==
  OpenAfter(text) # Misplaced =>
    LET read == ParseBuffer(text) IN
    read.errors # {} \/ (read.next = Len(text) + 1 /\ WellFormed(text))

OpenOf(open, kind) == Cardinality({d \in 1..Len(open) : open[d].kind = kind})

(* The loop submits an entry that can still be completed as soon as no     *)
(* list is open in it, and not before, up to the brackets in its comments, *)
(* which count as if they were code.  The reader then misses no bracket;   *)
(* a string that is open does not keep the loop from submitting the entry, *)
(* and the reader complains of it.                                         *)
LoopWaitsForLists ==
  LET open == OpenAfter(text)
      errors == ParseBuffer(text).errors
  IN open # Misplaced =>
       /\ IsBalanced(text, noted) <=>
            \A o \in Opening :
              OpenOf(open, o) + Count(noted, o, 1, Len(noted))
                = Count(noted, CloserOf[o], 1, Len(noted))
       /\ (\A o \in Opening : OpenOf(open, o) = 0) =>
            /\ "unterminated" \notin errors
            /\ "unterminated_string" \in errors <=> OpenOf(open, "string") > 0

(* A quoted list or quoted quote reads back, when it is unwrapped, as what *)
(* the quote was put before.                                               *)
QuotesReadBack ==
  WellFormed(text) =>
    LET parser == Parser(text) IN
    \A i \in {j \in 1..Len(text) : text[j] = "'"} :
      LET inner == parser[i + 1].argument[Len(text)].cell IN
      Len(inner) > 1 =>
        UnwrapQuoted(ParseQuoted(parser, text, i, Len(text)).cell) = inner

=============================================================================
