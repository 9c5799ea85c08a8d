------------------------------ MODULE TextLayout ------------------------------
(***************************************************************************)
(* Text layouts (render/font/layout.rs) as operators on records: logical   *)
(* lines of characters, each wrapped into physical lines (segments), and a *)
(* cursor.  An edit re-wraps only what follows it.  Indices and the cursor *)
(* count from 0 as in the code: character i is chars[i + 1].  A layout     *)
(* that has run into an index panic is the value None.                     *)
(***************************************************************************)
EXTENDS Integers, SeqFold, SequencesExt

CONSTANTS
  Width,       \* FontSizer::h_advance: character -> width
  Kern,        \* FontSizer::kern: pair of characters -> shift
  LineHeight, LineGap,   \* FontSizer::height, line_gap
  None

VAdvance == LineHeight + LineGap

\* LogicalLine::new
NewLine == [chars |-> <<>>, segments |-> <<[start |-> 0, end |-> 0]>>]

\* TextLayout::new; info holds the canvas, the alignment, the wrapping, the
\* limit on the lines (or None) and the scale.
NewLayout(info) ==
  [info |-> info, lines |-> <<NewLine>>, x |-> 0, y |-> 0, height |-> None]

NewChar(info, c) == [value |-> c, width |-> info.scale * Width[c], x |-> 0, line |-> 0]

\* Mutant: the line starts where the edit is.
StartOf(segments, n, idx) == idx

\* Where the physical line that is re-wrapped from character idx on starts.
LineStart(segments, n, idx) == IF n < Len(segments) THEN segments[n + 1].start ELSE 0

\* LogicalLine::adjust_trailing: place the characters from idx on, given the
\* one before them.  A character that would end beyond the canvas starts a
\* new physical line, unless it is the first of its own; it has no kerning
\* then, and neither has the one after it.
AdjustTrailing(info, line, idx) ==
  LET before == line.chars[idx]
      first == IF idx = 0
               THEN [prev |-> None, x |-> 0, line |-> 0]
               ELSE [prev |-> before.value, x |-> before.x + before.width, line |-> before.line]
      Place(at, char) ==
        LET kern == IF at.prev = None THEN 0 ELSE Kern[at.prev, char.value]
            wraps == info.wrap /\ at.x + kern + char.width > info.width /\ at.x > 0
            here == Len(at.chars)
        IN IF wraps
           THEN [prev |-> None, x |-> char.width, line |-> at.line + 1, start |-> here,
                 segments |-> Append(at.segments, [start |-> at.start, end |-> here]),
                 chars |-> Append(at.chars, [char EXCEPT !.x = 0, !.line = at.line + 1])]
           ELSE [at EXCEPT !.prev = char.value, !.x = at.x + kern + char.width,
                           !.chars = Append(@, [char EXCEPT !.x = at.x + kern, !.line = at.line])]
      placed == FromLeft(Place,
                  [prev |-> first.prev, x |-> first.x, line |-> first.line,
                   start |-> LineStart(line.segments, first.line, idx),
                   segments |-> SubSeq(line.segments, 1, first.line),
                   chars |-> SubSeq(line.chars, 1, idx)],
                  SubSeq(line.chars, idx + 1, Len(line.chars)))
  IN [chars |-> placed.chars,
      segments |-> Append(placed.segments, [start |-> placed.start, end |-> Len(placed.chars)])]

\* LogicalLine::insert, insert_buffer, delete and split_off.
InsertChars(info, line, idx, chars) ==
  AdjustTrailing(info,
    [line EXCEPT !.chars = SubSeq(@, 1, idx) \o chars \o SubSeq(@, idx + 1, Len(@))], idx)

DeleteChar(info, line, idx) ==
  AdjustTrailing(info, [line EXCEPT !.chars = RemoveAt(@, idx + 1)], idx)

SplitOff(info, line, idx) ==
  LET rest == SubSeq(line.chars, idx + 1, Len(line.chars))
  IN <<AdjustTrailing(info, [line EXCEPT !.chars = SubSeq(@, 1, idx)], idx),
       AdjustTrailing(info, [chars |-> rest, segments |-> <<>>], 0)>>

-----------------------------------------------------------------------------
(* Cursor movements *)

Here(l) == l.lines[l.y + 1]

MoveTo(l, x, y) ==
  LET row == IF y < Len(l.lines) THEN y ELSE Len(l.lines)
  IN IF row = Len(l.lines) THEN None
     ELSE LET n == Len(l.lines[row + 1].chars)
          IN [l EXCEPT !.y = row, !.x = IF x < n THEN x ELSE n]

MoveLeft(l) ==
  IF l.x > 0 THEN [l EXCEPT !.x = @ - 1]
  ELSE IF l.y > 0 THEN [l EXCEPT !.y = @ - 1, !.x = Len(l.lines[l.y].chars)]
  ELSE l

MoveRight(l) ==
  IF l.x < Len(Here(l).chars) THEN [l EXCEPT !.x = @ + 1]
  ELSE IF l.y + 1 < Len(l.lines) THEN [l EXCEPT !.y = @ + 1, !.x = 0]
  ELSE l

MoveHome(l) == [l EXCEPT !.x = 0]
MoveEnd(l) == [l EXCEPT !.x = Len(Here(l).chars)]

\* LogicalLine::index_for_x: the character of a physical line that starts
\* nearest to x; the later one when two are equally near.
IndexForX(line, x, n) ==
  LET segment == line.segments[n + 1]
      after == {i \in segment.start .. segment.end - 1 : line.chars[i + 1].x > x}
      next == CHOOSE i \in after : \A j \in after : i <= j
  IN IF segment.start = segment.end THEN segment.start
     ELSE IF after = {} THEN segment.end - 1
     ELSE IF next = segment.start THEN next
     ELSE IF x - line.chars[next].x < line.chars[next + 1].x - x THEN next - 1 ELSE next

\* TextLayout::move_cursor_up: both read the character under the cursor, so
\* at the end of a line they index out of bounds.
MoveUp(l) ==
  IF l.x >= Len(Here(l).chars) THEN None
  ELSE LET curr == Here(l).chars[l.x + 1] IN
       IF curr.line > 0 THEN [l EXCEPT !.x = IndexForX(Here(l), curr.x, curr.line - 1)]
       ELSE IF l.y > 0
       THEN LET up == l.lines[l.y]
            IN [l EXCEPT !.y = @ - 1, !.x = IndexForX(up, curr.x, Len(up.segments) - 1)]
       ELSE l

MoveDown(l) ==
  IF l.x >= Len(Here(l).chars) THEN None
  ELSE LET curr == Here(l).chars[l.x + 1] IN
       IF curr.line < Len(Here(l).segments) - 1
       THEN [l EXCEPT !.x = IndexForX(Here(l), curr.x, curr.line + 1)]
       ELSE IF l.y < Len(l.lines) - 1
       THEN [l EXCEPT !.y = @ + 1, !.x = IndexForX(l.lines[l.y + 2], curr.x, 0)]
       ELSE l

-----------------------------------------------------------------------------
(* Edits.  Each forgets the height the layout may have cached. *)

Invalidate(l) == [l EXCEPT !.height = None]

Newline(l) ==
  IF l.info.maxLines # None /\ Len(l.lines) >= l.info.maxLines THEN l
  ELSE LET split == SplitOff(l.info, Here(l), l.x)
       IN Invalidate([l EXCEPT !.lines = InsertAt([@ EXCEPT ![l.y + 1] = split[1]], l.y + 2, split[2]),
                               !.x = 0, !.y = l.y + 1])

DeleteHere(l) ==
  Invalidate(IF l.x < Len(Here(l).chars)
             THEN [l EXCEPT !.lines[l.y + 1] = DeleteChar(l.info, @, l.x)]
             ELSE l)

Clear(l) == Invalidate([l EXCEPT !.lines = <<NewLine>>, !.x = 0, !.y = 0])

InsertHere(l, chars) ==
  [l EXCEPT !.lines[l.y + 1] = InsertChars(l.info, @, l.x, chars), !.x = @ + Len(chars)]

\* TextLayout::text, for a text given as its lines, and text_layout, which
\* takes the characters with the widths they have.
Text(l, lines) ==
  LET Add(acc, i) ==
        InsertHere(IF i = 1 THEN acc ELSE Newline(acc),
                   [k \in 1 .. Len(lines[i]) |-> NewChar(l.info, lines[i][k])])
  IN Invalidate(FromLeft(Add, l, [i \in 1 .. Len(lines) |-> i]))

TextOf(l, other) ==
  LET Add(acc, i) == InsertHere(IF i = 1 THEN acc ELSE Newline(acc), other.lines[i].chars)
  IN Invalidate(FromLeft(Add, l, [i \in 1 .. Len(other.lines) |-> i]))

Resize(l, width) ==
  LET info == [l.info EXCEPT !.width = width]
  IN Invalidate([l EXCEPT !.info = info,
                          !.lines = [i \in DOMAIN @ |-> AdjustTrailing(info, @[i], 0)]])

\* TextLayout::handle_input_event, for the key that is pressed.
HandleKey(l, key) ==
  CASE key = "Home" -> MoveHome(l)
    [] key = "End" -> MoveEnd(l)
    [] key = "Enter" -> Newline(l)
    [] key = "Backspace" -> IF <<l.x, l.y>> = <<0, 0>> THEN l ELSE DeleteHere(MoveLeft(l))
    [] key = "Delete" -> DeleteHere(l)
    [] key \in DOMAIN Width -> Text(l, << <<key>> >>)
    [] OTHER -> l

\* Display for TextLayout: the lines of characters.
ToLines(l) ==
  [i \in DOMAIN l.lines |-> [k \in DOMAIN l.lines[i].chars |-> l.lines[i].chars[k].value]]

-----------------------------------------------------------------------------
(* Sizes and positions *)

HeightOf(line) == VAdvance * (Len(line.segments) - 1) + LineHeight

TotalHeight(l) ==
  FromLeft(LAMBDA sum, line : sum + HeightOf(line), 0, l.lines) + LineGap * (Len(l.lines) - 1)

\* TextLayout::height, which remembers what it has computed.
CacheHeight(l) == IF l.height = None THEN [l EXCEPT !.height = TotalHeight(l)] ELSE l

WidthOf(line, segment) ==
  IF segment.start = segment.end THEN 0
  ELSE line.chars[segment.end].x + line.chars[segment.end].width

\* LayoutHorizontalAlignment::offset and LayoutVerticalAlignment::offset
Offset(alignment, inner, outer) ==
  CASE alignment = "start" -> 0
    [] alignment = "center" -> (outer - inner) \div 2
    [] alignment = "end" -> outer - inner

\* TextLayout::iter_build: the characters with the places they are drawn at.
Build(l) ==
  LET Row(at, line) ==
        [y |-> at.y + HeightOf(line) + LineGap,
         out |-> at.out \o
           [i \in DOMAIN line.chars |->
              LET c == line.chars[i]
                  segment == SelectInSeq(line.segments, LAMBDA s : s.start < i /\ i <= s.end)
              IN [value |-> c.value, width |-> c.width,
                  x |-> c.x + Offset(l.info.horizontal, WidthOf(line, line.segments[segment]), l.info.width),
                  y |-> at.y + VAdvance * (segment - 1)]]]
      top == Offset(l.info.vertical, CacheHeight(l).height, l.info.height)
  IN FromLeft(Row, [y |-> top, out |-> <<>>], l.lines).out
=============================================================================
