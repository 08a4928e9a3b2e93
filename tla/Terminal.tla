------------------------------ MODULE Terminal ------------------------------
(***************************************************************************)
(* The terminal Freeline's cursor writes to.  A name like                  *)
(* bold_bright_blue_on_red is split at its underscores and resolved to the *)
(* codes that precede a text; "normal" follows it.  Location, fullscreen   *)
(* and hidden_cursor change the terminal for a block of the program and    *)
(* undo the change on leaving it, by an exception too.  Without styling    *)
(* every code is the empty string.                                         *)
(*                                                                         *)
(* A name is the sequence of its words.  The device remembers one cursor   *)
(* position.                                                               *)
(***************************************************************************)
EXTENDS Naturals, Sequences, SequencesExt

CONSTANTS
  Bases,     \* the base colors
  Styles,    \* the other names that can be combined, such as bold
  Size,      \* columns and rows are 0..Size
  MaxDepth,  \* bound on the blocks inside each other
  MaxNames,  \* bound on the names combined
  None

\* What the constants may be: no color or style has the name of another or of a prefix.
TerminalAssumption ==
  /\ Size \in Nat \ {0} /\ {MaxDepth, MaxNames} \subseteq Nat /\ None \notin 0..Size
  /\ Bases \cap Styles = {} /\ (Bases \cup Styles) \cap {"on", "bright"} = {}

Axis == 0..Size
Kinds == {"location", "fullscreen", "hidden_cursor"}

\* derivative_colors: the prefixes of a color's name.
ColorPrefixes == {<<>>, <<"on">>, <<"bright">>, <<"on", "bright">>}
COLORS == {Append(p, c) : p \in ColorPrefixes, c \in Bases}
COMPOUNDABLES == COLORS \cup {<<s>> : s \in Styles}

VARIABLES
  is_a_tty, force_styling,  \* of the stream, and the argument: TRUE, FALSE or None
  at, saved,    \* the cursor's position, and the one the device remembers
  screen,       \* "normal" or "full"
  visible,      \* whether the cursor is
  style,        \* the attributes a character would be shown with now
  blocks,       \* the blocks entered: kind, position at entry, whether another location was inside
  raised,       \* an exception leaves the blocks
  text,         \* the text just written: its names, the attributes it was shown with
  escapes       \* history: a code was written

device == <<at, saved, screen, visible, style>>
vars == <<is_a_tty, force_styling, device, blocks, raised, text, escapes>>

Plain == [foreground |-> None, background |-> None, on |-> {}]

Attributes == {[foreground |-> f, background |-> b, on |-> S] :
                 f \in (Bases \X BOOLEAN) \cup {None}, b \in (Bases \X BOOLEAN) \cup {None}, S \in SUBSET Styles}

TypeOK ==
  /\ is_a_tty \in BOOLEAN /\ force_styling \in {TRUE, FALSE, None}
  /\ {at, saved} \subseteq Axis \X Axis /\ screen \in {"normal", "full"} /\ visible \in BOOLEAN
  /\ style \in Attributes
  /\ \A i \in DOMAIN blocks : blocks[i].kind \in Kinds /\ blocks[i].back \in Axis \X Axis /\ blocks[i].inner \in BOOLEAN
  /\ {raised, escapes} \subseteq BOOLEAN
  /\ text # None => text.shown \in Attributes

Init ==
  /\ is_a_tty \in BOOLEAN /\ force_styling \in {TRUE, FALSE, None}
  /\ at \in Axis \X Axis /\ saved = <<0, 0>> /\ screen = "normal" /\ visible = TRUE /\ style = Plain
  /\ blocks = <<>> /\ raised = FALSE /\ text = None /\ escapes = FALSE

-----------------------------------------------------------------------------
(* Names and codes *)

does_styling == (is_a_tty \/ force_styling = TRUE) /\ force_styling # None

\* split_into_formatters: a word joins the segment before it when that is a prefix.
Joins(segs, w) ==
  IF segs # <<>> /\ Last(segs) \in ColorPrefixes
  THEN Append(Front(segs), Append(Last(segs), w)) ELSE Append(segs, <<w>>)
Split(words) ==
  LET segs[i \in 0..Len(words)] == IF i = 0 THEN <<>> ELSE Joins(segs[i - 1], words[i])
  IN  segs[Len(words)]

\* _resolve_color and _resolve_capability of one segment: a code.
Code(seg) ==
  IF seg \in COLORS
  THEN [sets |-> IF "on" \in ToSet(seg) THEN "background" ELSE "foreground",
        to |-> <<Last(seg), "bright" \in ToSet(seg)>>]
  ELSE [sets |-> "on", to |-> seg[1]]

\* _resolve_formatter: a compound of known names, or else a capability of that
\* name, which the device does not have.
Resolve(words) ==
  LET segs == (IF words \in COMPOUNDABLES THEN <<words>> ELSE Split(words))
  IN  IF ToSet(segs) \subseteq COMPOUNDABLES THEN [i \in DOMAIN segs |-> Code(segs[i])] ELSE <<>>

\* What calling an attribute of the terminal writes before the text: nothing where
\* capabilities are blank.
NullCallableString == <<>>
Capability(names) == IF does_styling THEN Resolve(FlattenSeq(names)) ELSE NullCallableString

\* What the device makes of a code.
Apply(a, code) ==
  IF code.sets = "on" THEN [a EXCEPT !.on = @ \cup {code.to}] ELSE [a EXCEPT ![code.sets] = code.to]
ApplyAll(a, codes) ==
  LET after[i \in 0..Len(codes)] == IF i = 0 THEN a ELSE Apply(after[i - 1], codes[i])
  IN  after[Len(codes)]

\* What the names mean, for reference: the last color of each ground, and every style.
Meant(names) ==
  LET grounds == [foreground |-> {i \in DOMAIN names : names[i] \in COLORS /\ names[i][1] # "on"},
                  background |-> {i \in DOMAIN names : names[i][1] = "on"}]
      Final(g) == IF grounds[g] = {} THEN None
                  ELSE LET i == CHOOSE i \in grounds[g] : \A j \in grounds[g] : j <= i
                       IN  <<Last(names[i]), "bright" \in ToSet(names[i])>>
  IN  [foreground |-> Final("foreground"), background |-> Final("background"),
       on |-> {s \in Styles : <<s>> \in ToSet(names)}]

-----------------------------------------------------------------------------
(* What the program does *)

\* FormattingString: the codes, the text, "normal".
Write(names) ==
  /\ ~raised
  /\ text' = [names |-> names, shown |-> ApplyAll(style, Capability(names))]
  /\ style' = (IF does_styling THEN Plain ELSE style)
  /\ escapes' = (escapes \/ does_styling)
  /\ at' = <<(at[1] + 1) % (Size + 1), at[2]>>
  /\ UNCHANGED <<is_a_tty, force_styling, saved, screen, visible, blocks, raised>>

\* The blocks around a location hear of it.
Around(kind) == [i \in DOMAIN blocks |-> [blocks[i] EXCEPT !.inner = @ \/ kind = "location"]]

Enters(kind) ==
  /\ ~raised /\ Len(blocks) < MaxDepth
  /\ blocks' = Append(Around(kind), [kind |-> kind, back |-> at, inner |-> FALSE])
  /\ escapes' = (escapes \/ does_styling)
  /\ text' = None
  /\ UNCHANGED <<is_a_tty, force_styling, raised, style>>

\* Fault: the position is remembered after the cursor has moved.
EnterLocationLate(x, y) ==
  /\ Enters("location")
  /\ IF does_styling
     THEN at' = <<IF x = None THEN at[1] ELSE x, IF y = None THEN at[2] ELSE y>> /\ saved' = at'
     ELSE UNCHANGED <<saved, at>>
  /\ UNCHANGED <<screen, visible>>

EnterLocation(x, y) ==
  /\ Enters("location")
  /\ IF does_styling
     THEN saved' = at /\ at' = <<IF x = None THEN at[1] ELSE x, IF y = None THEN at[2] ELSE y>>
     ELSE UNCHANGED <<saved, at>>
  /\ UNCHANGED <<screen, visible>>

EnterFullscreen ==
  /\ Enters("fullscreen") /\ screen' = (IF does_styling THEN "full" ELSE screen)
  /\ UNCHANGED <<at, saved, visible>>

EnterHiddenCursor ==
  /\ Enters("hidden_cursor") /\ visible' = (IF does_styling THEN FALSE ELSE visible)
  /\ UNCHANGED <<at, saved, screen>>

Raise ==
  /\ ~raised /\ blocks # <<>> /\ raised' = TRUE
  /\ text' = None
  /\ UNCHANGED <<is_a_tty, force_styling, device, blocks, escapes>>

\* What a block writes on leaving it.
RestoresLocation == at' = saved /\ UNCHANGED <<saved, screen, visible, style>>
RestoresScreen == screen' = "normal" /\ UNCHANGED <<at, saved, visible, style>>
RestoresCursor == visible' = TRUE /\ UNCHANGED <<at, saved, screen, style>>

\* The innermost block is left; an exception leaves all of them, one by one.
Leave ==
  /\ blocks # <<>> /\ blocks' = Front(blocks)
  /\ IF does_styling
     THEN \/ Last(blocks).kind = "location" /\ RestoresLocation
          \/ Last(blocks).kind = "fullscreen" /\ RestoresScreen
          \/ Last(blocks).kind = "hidden_cursor" /\ RestoresCursor
     ELSE UNCHANGED device
  /\ raised' = (raised /\ blocks' # <<>>) /\ text' = None
  /\ UNCHANGED <<is_a_tty, force_styling, escapes>>

Next ==
  \/ \E names \in SeqOf(COMPOUNDABLES, MaxNames) \ {<<>>} : Write(names)
  \/ \E x, y \in Axis \cup {None} : EnterLocation(x, y)
  \/ EnterFullscreen \/ EnterHiddenCursor \/ Raise \/ Leave

Spec == Init /\ [][Next]_vars

-----------------------------------------------------------------------------
(* Properties *)

\* Every combination of colors and styles shows the text as its names say, the
\* last color of each ground being the one seen, and leaves nothing switched on.
TextIsShownAsNamed ==
  /\ text # None => text.shown = (IF does_styling THEN Meant(text.names) ELSE Plain)
  /\ style = Plain

\* Outside every block the terminal is as it was, whatever blocks were nested and
\* however they were left.
LeftAsFound == blocks = <<>> => screen = "normal" /\ visible

\* No code goes to a stream that is not a terminal, unless it was asked for.
FilesStayPlain == ~is_a_tty /\ force_styling # TRUE => ~escapes

LeavesLocation == blocks # <<>> /\ Last(blocks).kind = "location" /\ blocks' = Front(blocks)

\* A location that had no other one in it puts the cursor back where it was.
InnermostReturns == [][LeavesLocation /\ does_styling /\ ~Last(blocks).inner => at' = Last(blocks).back]_vars

=============================================================================
