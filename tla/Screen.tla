------------------------------- MODULE Screen --------------------------------
(***************************************************************************)
(* Text on the screen: sys_write to the frame buffer, the zoom and clear   *)
(* calls of Kernel/syscalls.c and scrollScreen of Kernel/videoDriver.c.    *)
(* A call runs with interrupts off, so it is one action.                   *)
(*                                                                         *)
(* The frame buffer is the set of places (upper left pixels) where a       *)
(* character is shown: a character is drawn over what is there, and what   *)
(* is shown has the size of the current font, since zooming clears the     *)
(* screen.  Every printable character but the space is the letter "a", and *)
(* one that is erased or overwritten in part still counts as shown.        *)
(***************************************************************************)
EXTENDS Integers, FiniteSets, Sequences

CONSTANTS
  ScreenWidth, ScreenHeight,  \* pixels of the VBE mode
  Widths, Heights,            \* of the fonts, from small to large
  FONT_CHAR_GAP,              \* 2 in the code
  TAB_SPACES,                 \* 4 in the code
  Strings                     \* what programs write in one call

Fonts == 1..Len(Widths)
Word == 2^16

Special == {"newline", "return", "tab", "backspace"}
Characters == Special \union {" ", "a"}

\* Characters are counted in cells: a font's width or height and the gap.
Cell(font) == Widths[font] + FONT_CHAR_GAP
Line(font) == Heights[font] + FONT_CHAR_GAP

ASSUME ScreenAssumption ==
  /\ ScreenWidth \in Nat /\ ScreenHeight \in Nat
  /\ FONT_CHAR_GAP \in Nat /\ TAB_SPACES \in Nat \ {0}
  /\ Widths \in Seq(Nat \ {0}) /\ Heights \in Seq(Nat \ {0})
  /\ Len(Heights) = Len(Widths) /\ Len(Widths) > 1
  /\ \A f \in Fonts :
       /\ Heights[f] <= ScreenHeight /\ TAB_SPACES * Cell(f) <= ScreenWidth
       /\ ScreenWidth + FONT_CHAR_GAP + TAB_SPACES * Cell(f) < Word
       /\ ScreenHeight + Line(f) < Word
  /\ Strings \subseteq Seq(Characters)

VARIABLES
  x_coord, y_coord,  \* the cursor
  currentFont,
  glyphs             \* where a character is shown, <<x, y>>

screenVars == <<x_coord, y_coord, currentFont, glyphs>>

ScreenInit ==
  /\ x_coord = 0 /\ y_coord = 0
  /\ currentFont = 2
  /\ glyphs = {}

Width == Widths[currentFont]
Height == Heights[currentFont]
CellWidth == Cell(currentFont)
LineHeight == Line(currentFont)

-----------------------------------------------------------------------------
(* The steps of sys_write; s is the cursor x, y, the characters shown, and  *)
(* the places taken by those of this call                                   *)

Now == [x |-> x_coord, y |-> y_coord, shown |-> glyphs, placed |-> <<>>]

\* Mutant: the picture does not move.
ScrollNothing(shown) == shown

\* scrollScreen: one line up, the first is lost.
scrollScreen(shown) ==
  {<<g[1], g[2] - LineHeight>> : g \in {h \in shown : h[2] >= LineHeight}}

\* Mutant: only a line that begins below the screen scrolls.
NewLineLate(s, x) ==
  LET y == (s.y + LineHeight) % Word
  IN  IF y > ScreenHeight
        THEN [s EXCEPT !.x = x, !.y = (y - LineHeight) % Word,
                       !.shown = scrollScreen(s.shown)]
        ELSE [s EXCEPT !.x = x, !.y = y]

\* To column x of the next line, which is the same one after a scroll.
NewLine(s, x) ==
  LET y == (s.y + LineHeight) % Word
  IN  IF y + Height > ScreenHeight
        THEN [s EXCEPT !.x = x, !.y = (y - LineHeight) % Word,
                       !.shown = scrollScreen(s.shown)]
        ELSE [s EXCEPT !.x = x, !.y = y]

Tab(s) ==
  LET x == (s.x + TAB_SPACES * CellWidth) % Word
  IN  IF x >= ScreenWidth THEN NewLine(s, x % ScreenWidth) ELSE [s EXCEPT !.x = x]

\* Where a backspace goes: at the first two columns, to the end of the line
\* above.
Back(s) ==
  IF s.x > CellWidth THEN [s EXCEPT !.x = @ - CellWidth]
  ELSE IF s.y > 0
    THEN [s EXCEPT !.x = (ScreenWidth - TAB_SPACES * CellWidth + @) % Word,
                   !.y = (@ - LineHeight) % Word]
  ELSE [s EXCEPT !.x = 0]

Backspace(s) ==
  LET b == Back(s) IN [b EXCEPT !.shown = @ \ {<<b.x, b.y>>}]

\* A character is drawn if it is all inside the screen.
isValidScreenPrint(s) ==
  s.x + Width - 1 <= ScreenWidth /\ s.y + Height - 1 <= ScreenHeight

\* On to the next line if there is no room left, then draw.
PutChar(s, c) ==
  LET t == IF s.x + Width > ScreenWidth THEN NewLine(s, 0) ELSE s
  IN  [t EXCEPT !.x = @ + CellWidth,
                !.shown = IF c # " " /\ isValidScreenPrint(t)
                            THEN @ \union {<<t.x, t.y>>} ELSE @,
                !.placed = Append(@, <<t.x, t.y>>)]

InWord(c) == c \notin Special \union {" "}
StartsWord(str, i) == InWord(str[i]) /\ (i = 1 \/ str[i - 1] = " ")

\* The characters of a word from i on.
WordLength(str, i) ==
  Cardinality({j \in i..Len(str) : \A k \in i..j : InWord(str[k])})

\* Mutant: only the first word of a call is measured.
WrapFirstWord(s, str, i) ==
  LET px == WordLength(str, i) * CellWidth
  IN  IF i = 1 /\ InWord(str[i]) /\ px <= ScreenWidth /\ s.x + px > ScreenWidth
        THEN NewLine(s, 0) ELSE s

\* A word that would fit in a line and not in what is left of this one.
WrapWord(s, str, i) ==
  LET px == WordLength(str, i) * CellWidth
  IN  IF StartsWord(str, i) /\ px <= ScreenWidth /\ s.x + px > ScreenWidth
        THEN NewLine(s, 0) ELSE s

WriteChar(s, str, i) ==
  CASE str[i] = "newline" -> NewLine(s, 0)
    [] str[i] = "return" -> [s EXCEPT !.x = 0]
    [] str[i] = "tab" -> Tab(s)
    [] str[i] = "backspace" -> Backspace(s)
    [] OTHER -> PutChar(WrapWord(s, str, i), str[i])

\* The cursor and the screen after the characters of a string, one by one.
Written(str) ==
  LET after[i \in 0..Len(str)] ==
        IF i = 0 THEN Now ELSE WriteChar(after[i - 1], str, i)
  IN  after[Len(str)]

-----------------------------------------------------------------------------

sys_write(str) ==
  /\ \E s \in {Written(str)} : x_coord' = s.x /\ y_coord' = s.y /\ glyphs' = s.shown
  /\ UNCHANGED currentFont

\* 0x10, and the end of 0x06 and 0x07.
clearScreen == x_coord' = 0 /\ y_coord' = 0 /\ glyphs' = {}

Zoom ==
  /\ \/ currentFont' = IF currentFont < Len(Widths) THEN currentFont + 1 ELSE currentFont
     \/ currentFont' = IF currentFont > 1 THEN currentFont - 1 ELSE currentFont
  /\ clearScreen

ScreenNext ==
  \/ \E str \in Strings : sys_write(str)
  \/ Zoom
  \/ clearScreen /\ UNCHANGED currentFont

ScreenSpec == ScreenInit /\ [][ScreenNext]_screenVars

-----------------------------------------------------------------------------
(* Properties *)

\* The line of the cursor is all on the screen, whatever was written, however
\* the text was scrolled and the font changed; no coordinate wraps around.
CursorOnScreen ==
  /\ currentFont \in Fonts
  /\ x_coord \in 0..(ScreenWidth + FONT_CHAR_GAP)
  /\ y_coord \in 0..(ScreenHeight - Height) /\ y_coord % LineHeight = 0
  /\ \A g \in glyphs : g[1] \in 0..(ScreenWidth - Width)
                       /\ g[2] \in 0..(ScreenHeight - Height)

Apart(g, h) ==
  \/ g[1] + Width <= h[1] \/ h[1] + Width <= g[1]
  \/ g[2] + Height <= h[2] \/ h[2] + Height <= g[2]

\* No two characters touch, and all are before the cursor.
Tidy ==
  /\ \A g, h \in glyphs : g # h => Apart(g, h)
  /\ \A g \in glyphs : g[2] < y_coord \/ (g[2] = y_coord /\ g[1] + Width <= x_coord)

Forward ==
  {str \in Strings : \A i \in 1..Len(str) : str[i] \notin {"return", "backspace"}}

\* Text that does not go back (no carriage return nor backspace) is never
\* written over other text, through tabs, wrapped words and scrolled lines.
NeverWritesOver ==
  [][Tidy => \A str \in Forward : sys_write(str) => Tidy']_screenVars

\* A word that fits in a line is not cut in two (the comments of sys_write).
WordsStayWhole ==
  \A str \in {t \in Strings : \A i \in 1..Len(t) : t[i] \notin Special} :
    LET placed == Written(str).placed IN
    \A i \in 1..Len(str) :
      StartsWord(str, i) /\ WordLength(str, i) * CellWidth <= ScreenWidth =>
        \A k \in 1..(WordLength(str, i) - 1) :
          placed[i + k] = <<placed[i][1] + k * CellWidth, placed[i][2]>>

=============================================================================
