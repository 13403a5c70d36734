---------------------------- MODULE ConsoleKeys -----------------------------
(***************************************************************************)
(* The bytes a terminal sends to a console, the keys they are decoded to,  *)
(* and the line being edited.  A key may be several bytes, and they may    *)
(* come apart: a sequence that is not complete when the escape timer fires *)
(* is dropped and the rest of it is text.  A paste stands between marks,   *)
(* which are such sequences too, and may hold any bytes.                   *)
(*                                                                         *)
(* A byte is a token: "x" is any one-byte character, "u" and "v" the two   *)
(* bytes of one character, "200" and "201" the parameter of a sequence,    *)
(* "0..0" parameter bytes beyond what seq_complete reads.                  *)
(* Beside the decoder runs the line as the keys themselves would edit it.  *)
(***************************************************************************)
EXTENDS Integers, Sequences, SequencesExt

CONSTANTS
    Strokes,        \* keys pressed and pastes begun or ended
    InputMax,       \* CONSOLE_INPUT_MAX
    HistMax,        \* CONSOLE_HISTORY
    MaxStrokes, MaxRun     \* bounds: strokes, and lines entered

ASSUME ConsoleKeysAssumption ==
    {InputMax, HistMax} \subseteq Nat \ {0} /\ {MaxStrokes, MaxRun} \subseteq Nat

VARIABLES
    kb,             \* the decoder: esc, utf8, last_cr, pasting; and the line, ed
    sending,        \* the terminal: bytes of a stroke still to be sent
    ref,            \* the line as the strokes edit it
    terminal,       \* what the terminal sends for Enter, whether a paste is on, and an Esc pressed just now
    strokes,        \* history: strokes so far,
    cut, lost       \* whether the timer cut the last one, and whether it cut the last mark of a paste

keyVars == <<kb, sending, ref, terminal, strokes, cut, lost>>

Newlines == {<<"cr">>, <<"lf">>, <<"cr", "lf">>}
Wide == <<"u", "v">>

KeysInit ==
    /\ \E line \in BOOLEAN :
        ref = [line |-> line, input |-> <<>>, cur |-> 0, hist |-> <<>>, pos |-> 0, stash |-> <<>>, ran |-> 0]
    /\ kb = [esc |-> <<>>, utf |-> <<>>, lastCr |-> FALSE, pasting |-> FALSE, ed |-> ref, ranPasted |-> FALSE]
    /\ sending = <<>> /\ strokes = 0 /\ cut = FALSE /\ lost = FALSE
    /\ \E nl \in Newlines : terminal = [nl |-> nl, paste |-> FALSE, esc |-> FALSE]

-----------------------------------------------------------------------------
(* The line: its bytes, the cursor, and the lines entered before.          *)

prev_char(s, at) == IF at = 0 THEN 0 ELSE IF s[at] = "v" THEN at - 2 ELSE at - 1

in_set(e, s) == [e EXCEPT !.input = s, !.cur = Len(s)]

in_insert(e, bytes) ==
    IF Len(e.input) + Len(bytes) >= InputMax THEN e
    ELSE [e EXCEPT !.input = SubSeq(@, 1, e.cur) \o bytes \o SubSeq(@, e.cur + 1, Len(@)), !.cur = @ + Len(bytes)]

in_delete(e, from, to) ==
    [e EXCEPT !.input = SubSeq(@, 1, from) \o SubSeq(@, to + 1, Len(@)),
              !.cur = IF @ > to THEN @ - (to - from) ELSE IF @ > from THEN from ELSE @]
in_backspace(e) == IF e.cur = 0 THEN e ELSE in_delete(e, prev_char(e.input, e.cur), e.cur)

hist_add(h, line) ==
    IF h # <<>> /\ Last(h) = line THEN h
    ELSE Append(IF Len(h) = HistMax THEN Tail(h) ELSE h, line)

(* on_enter: the line is taken; one with a character in it is remembered   *)
(* and run.                                                                *)
TakeLine(e) ==
    LET blank == \A i \in 1 .. Len(e.input) : e.input[i] = " "
        hist == IF blank THEN e.hist ELSE hist_add(e.hist, e.input)
    IN  [e EXCEPT !.input = <<>>, !.cur = 0, !.hist = hist, !.pos = Len(hist), !.ran = IF blank THEN @ ELSE @ + 1]

(* Up and Down: the line being typed is put aside and found again.         *)
Older(e) ==
    IF e.pos = 0 THEN e
    ELSE in_set([e EXCEPT !.pos = @ - 1, !.stash = IF e.pos = Len(e.hist) THEN e.input ELSE @], e.hist[e.pos])
Newer(e) ==
    IF e.pos = Len(e.hist) THEN e
    ELSE in_set([e EXCEPT !.pos = @ + 1], IF e.pos + 1 = Len(e.hist) THEN e.stash ELSE e.hist[e.pos + 2])

(* handle_key: line mode knows no cursor.                                  *)
handle_key(e, key) ==
    CASE key.t = "Char" -> in_insert(e, key.bytes)
      [] key.t = "Enter" -> TakeLine(e)
      [] key.t = "Bs" -> in_backspace(e)
      [] key.t = "Ctrl" -> [e EXCEPT !.input = <<>>, !.cur = 0]
      [] key.t = "Left" /\ ~e.line -> [e EXCEPT !.cur = prev_char(e.input, @)]
      [] key.t = "Up" /\ ~e.line -> Older(e)
      [] key.t = "Down" /\ ~e.line -> Newer(e)
      [] OTHER -> e

-----------------------------------------------------------------------------
Key(t) == [t |-> t, bytes |-> <<>>]
Char(bytes) == [t |-> "Char", bytes |-> bytes]
Letters == {"A", "B", "D", "M", "O", "x", "~"}      \* bytes that end a sequence

(* decode_seq: a sequence without its escape.                              *)
decode_seq(s) ==
    LET fin == Last(s)
    IN  Key(CASE Len(s) = 3 /\ s[1] = "[" /\ s[2] = "[" -> "F"
              [] fin = "A" -> "Up" [] fin = "B" -> "Down" [] fin = "D" -> "Left"
              [] fin = "M" /\ s[1] = "O" -> "Enter"
              [] fin = "~" /\ s[2] = "200" -> "PasteBegin" [] fin = "~" /\ s[2] = "201" -> "PasteEnd"
              [] OTHER -> "None")

(* seq_complete: the length of a complete sequence, or 0, or -1 when it is *)
(* too long to be one.                                                     *)
seq_complete(s) ==
    LET ends == {i \in 3 .. Len(s) : s[i] \in Letters}
    IN  CASE Len(s) < 2 -> 0
          [] Len(s) >= 2 /\ s[2] = "[" ->
                IF Len(s) >= 3 /\ s[3] = "[" THEN (IF Len(s) >= 4 THEN 4 ELSE 0)
                ELSE IF Len(s) >= 3 /\ s[3] = "0..0" THEN -1
                ELSE IF ends = {} THEN 0 ELSE CHOOSE i \in ends : \A j \in ends : i <= j
          [] Len(s) >= 2 /\ s[2] = "O" -> IF Len(s) >= 3 THEN 3 ELSE 0
          [] OTHER -> 2

Handled(k, key) == [k EXCEPT !.ed = handle_key(@, key)]

(* A line end or a control byte that acts; one of a paste is noted.        *)
Acts(k, key) == [Handled(k, key) EXCEPT !.ranPasted = @ \/ (terminal.paste /\ ~lost)]

(* feed_seq: a sequence is a key, in a paste as well.                      *)
feed_seq(k, s) ==
    LET key == IF Len(s) = 2 THEN Key("Alt")
               ELSE IF s[2] = "esc" THEN LET inner == decode_seq(SubSeq(s, 3, Len(s)))
                                         IN  IF inner.t = "Left" THEN Key("AltLeft") ELSE inner
               ELSE decode_seq(Tail(s))
    IN  CASE key.t = "PasteBegin" -> [k EXCEPT !.pasting = TRUE]
          [] key.t = "PasteEnd" -> [k EXCEPT !.pasting = FALSE]
          [] OTHER -> Handled(k, key)

(* input, with an escape sequence begun; after two escapes the inner one   *)
(* decides.                                                                *)
InSequence(k, b) ==
    LET s == Append(k.esc, b)
        inner == seq_complete(Tail(s))
        done == IF s[2] # "esc" THEN seq_complete(s)
                ELSE IF Len(s) = 2 THEN 0 ELSE IF inner > 0 THEN inner + 1 ELSE inner
    IN  IF done > 0 THEN [feed_seq(k, SubSeq(s, 1, done)) EXCEPT !.esc = <<>>]
        ELSE [k EXCEPT !.esc = IF done < 0 THEN <<>> ELSE s]

(* input, with a character begun: one that is not whole is dropped.        *)
InCharacter(k, b) ==
    LET rest == [k EXCEPT !.utf = <<>>] IN IF b = "v" THEN Handled(rest, Char(Wide)) ELSE rest

(* input, at a line end: CRLF is one Enter, and one pasted is a space.     *)
LineEnd(k, b) ==
    LET cr == [k EXCEPT !.lastCr = b = "cr"]
    IN  IF b = "lf" /\ k.lastCr THEN cr
        ELSE IF k.pasting THEN Handled(cr, Char(<<" ">>)) ELSE Acts(cr, Key("Enter"))

input(k, b) ==
    LET cr == [k EXCEPT !.lastCr = FALSE]
    IN  CASE k.esc # <<>> -> InSequence(k, b)
          [] k.esc = <<>> /\ k.utf # <<>> -> InCharacter(k, b)
          [] k.esc = <<>> /\ k.utf = <<>> /\ b = "esc" -> [k EXCEPT !.esc = <<b>>]
          [] k.esc = <<>> /\ k.utf = <<>> /\ b # "esc" ->
                CASE b \in {"cr", "lf"} -> LineEnd(k, b)
                  [] b = "bs" -> Handled(cr, Key("Bs"))
                  [] b = "^c" -> IF k.pasting THEN cr ELSE Acts(cr, Key("Ctrl"))
                  [] b = "u" -> [cr EXCEPT !.utf = <<b>>]
                  [] b = "v" -> cr
                  [] OTHER -> Handled(cr, Char(<<b>>))

-----------------------------------------------------------------------------
(* The terminal: what it sends for a stroke, and what the stroke means.    *)
Sends(s) ==
    CASE s = "enter" -> terminal.nl
      [] s = "wide" -> Wide
      [] s = "left" -> <<"esc", "[", "D">> [] s = "altLeft" -> <<"esc", "esc", "[", "D">>
      [] s = "up" -> <<"esc", "O", "A">> [] s = "down" -> <<"esc", "[", "B">>
      [] s = "keypadEnter" -> <<"esc", "O", "M">> [] s = "f1" -> <<"esc", "[", "[", "A">>
      [] s = "long" -> <<"esc", "[", "0..0", "x">>
      [] s = "paste" -> IF terminal.paste THEN <<"esc", "[", "201", "~">> ELSE <<"esc", "[", "200", "~">>
      [] OTHER -> <<s>>
Means(e, s) ==
    CASE s = "enter" -> IF terminal.paste THEN in_insert(e, <<" ">>) ELSE TakeLine(e)
      [] s = "^c" -> IF terminal.paste THEN e ELSE handle_key(e, Key("Ctrl"))
      [] s = "keypadEnter" -> TakeLine(e)
      [] s = "wide" -> in_insert(e, Wide) [] s \in {"x", "long"} -> in_insert(e, <<"x">>)
      [] s = "bs" -> in_backspace(e)
      [] s = "left" -> handle_key(e, Key("Left"))
      [] s = "up" -> handle_key(e, Key("Up")) [] s = "down" -> handle_key(e, Key("Down"))
      [] OTHER -> e

(* A stroke, or the same bytes in a paste.  A lone Esc waits for the timer.*)
Press(s) ==
    /\ sending = <<>> /\ ~terminal.esc /\ strokes < MaxStrokes
    /\ strokes' = strokes + 1 /\ sending' = Sends(s)
    /\ terminal' = [terminal EXCEPT !.paste = IF s = "paste" THEN ~@ ELSE @, !.esc = (s = "esc")]
    /\ ref' = Means(IF cut \/ lost THEN kb.ed ELSE ref, s) /\ ref'.ran <= MaxRun
    /\ cut' = FALSE /\ lost' = (lost /\ s # "paste")
    /\ UNCHANGED kb

(* input: a byte comes.                                                    *)
Byte ==
    /\ sending # <<>> /\ kb' = input(kb, Head(sending)) /\ sending' = Tail(sending)
    /\ kb'.ed.ran <= MaxRun /\ UNCHANGED <<ref, terminal, strokes, cut, lost>>

(* The stroke that waits for the timer, or is cut by it.                   *)
Timed ==
    /\ kb.esc # <<>> /\ cut' = (sending # <<>>)
    /\ lost' = (lost \/ (sending # <<>> /\ Last(sending) = "~"))
    /\ terminal' = [terminal EXCEPT !.esc = FALSE]
    /\ UNCHANGED <<sending, ref, strokes>>

(* Mutant: an escape alone is the key Esc, and is kept.                    *)
EscTimerKeeps ==
    Timed /\ kb' = IF Len(kb.esc) = 1 THEN Handled(kb, Key("Esc")) ELSE [kb EXCEPT !.esc = <<>>]

(* tick: the escape timer.  An escape alone is the key Esc, which edits    *)
(* nothing; a sequence not complete is dropped.                            *)
EscTimer ==
    Timed /\ kb' = [IF Len(kb.esc) = 1 THEN Handled(kb, Key("Esc")) ELSE kb EXCEPT !.esc = <<>>]

KeysNext == Byte \/ EscTimer \/ \E s \in Strokes : Press(s)

-----------------------------------------------------------------------------
KeysTypeOK ==
    /\ kb.ed.cur \in 0 .. Len(kb.ed.input) /\ Len(kb.ed.input) < InputMax
    /\ Len(kb.ed.hist) <= HistMax /\ kb.ed.pos \in 0 .. Len(kb.ed.hist)

(* However a key's bytes are spelled and spread, it edits the line as the  *)
(* key: the line, its history and the number of lines run are those the    *)
(* strokes make.  A key the timer cut is lost alone: it runs nothing, and  *)
(* the next one is decoded again; but after a mark of a paste was cut, the *)
(* paste is taken for typing, or the typing for a paste, until the next    *)
(* mark (input, tick).                                                     *)
DecodesKeys ==
    ~lost => /\ sending = <<>> /\ ~cut => kb.ed = ref
             /\ cut => kb.ed.ran <= ref.ran

(* No line end and no control byte of a paste runs or clears the line,     *)
(* unless the mark that began the paste was cut (input).  Escape sequences *)
(* are no such bytes: a pasted keypad Enter does run it (feed_seq).        *)
PasteInert == ~kb.ranPasted

(* The line never holds half a character, and the cursor is never within   *)
(* one, also at the limit of its length and in lines called back.          *)
WholeChars ==
    LET e == kb.ed IN
    \A i \in 1 .. Len(e.input) :
        /\ e.input[i] = "u" => i < Len(e.input) /\ e.input[i + 1] = "v" /\ e.cur # i
        /\ e.input[i] = "v" => i > 1 /\ e.input[i - 1] = "u"

(* The line is what the keys say, character by character, and no line end  *)
(* of a paste runs it (input, in_insert).                                  *)
KeysTrue == KeysTypeOK /\ PasteInert /\ DecodesKeys /\ WholeChars
=============================================================================
