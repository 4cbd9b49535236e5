------------------------------- MODULE Input -------------------------------
(***************************************************************************)
(* From key to line: the PS/2 keyboard (drivers/input/keyboard.c), the     *)
(* reports of a USB keyboard (usb/hid.c) and the line editor of the        *)
(* console (core/tty.c); the 8042 controller as the boot leaves it; the    *)
(* pointer with its cursor (drivers/input/mouse.c); and the editor of text *)
(* files (fs/edit.c).                                                      *)
(*                                                                         *)
(* Interrupt handlers are atomic.  A byte of the PS/2 keyboard waits on    *)
(* `wire` until its interrupt; a USB keyboard reports the keys that are    *)
(* down, any number of changes after the report before.                    *)
(***************************************************************************)
EXTENDS Integers, Sequences, FiniteSets, SequencesExt

CONSTANTS Cap,          \* BUFFER_SIZE
          LineMax,      \* TTY_LINE_MAX
          Presses,      \* keys that are pressed, none after `mixed`
          Handovers,    \* USB keyboards plugged in or pulled out
          Strays,       \* bytes that come in place of the command byte
          GfxW, CursorW, Unit, Moves,   \* the pointer: GFX_WIDTH, CURSOR_W, 256, packets
          MaxLines,     \* EDIT_MAX_LINES
          MaxLen,       \* EDIT_MAX_LINE_LENGTH - 1
          Chars,        \* printable characters
          Rows,         \* viewport_rows
          KeyBound      \* keys pressed in the editor

VARIABLES down,     \* the keys held on each keyboard
          wire,     \* bytes the PS/2 keyboard has sent
          drv,      \* shift_pressed, ctrl_pressed, caps_lock, extended, ps2_enabled, kbd_prev
          buf, head, tail, count,   \* keyboard_buffer
          line, lines,              \* line_buf, and what tty_read() returned
          typed, got,               \* what was meant, and taken from the buffer (ghost)
          mixed, lost,              \* a keyboard changed hands with keys held; a full buffer (ghost)
          presses, handovers,
          ctl,      \* the 8042: its command byte, and how far the boot is
          ptr,      \* the pointer, its packet, the cursor and the screen
          ed,       \* the editor: lines, cursor_x, cursor_y, screen_top
          text,     \* what its text has to be (ghost)
          file,     \* what was saved last
          pressed

keyVars == <<down, wire, drv, buf, head, tail, count, line, lines, typed, got, mixed, lost, presses, handovers>>

Mods == {"shift", "ctrl"}
Plain == {"c", "enter", "bs", "caps"}
Extended == {"up"}
Keys == Mods \cup Plain \cup Extended
E0 == [make |-> TRUE, key |-> "E0"]

KeyInit ==
  /\ down = [ps2 |-> {}, usb |-> {}] /\ wire = <<>>
  /\ drv = [shift |-> FALSE, ctrl |-> FALSE, caps |-> FALSE, ext |-> FALSE, on |-> TRUE, prev |-> {}]
  /\ buf = [i \in 0..(Cap - 1) |-> "free"] /\ head = 0 /\ tail = 0 /\ count = 0
  /\ line = <<>> /\ lines = <<>> /\ typed = <<>> /\ got = <<>>
  /\ mixed = FALSE /\ lost = FALSE /\ presses = 0 /\ handovers = 0
-----------------------------------------------------------------------------
(* keyboard_feed_scancode                                                  *)

\* process_scancode: letters by shift XOR caps lock, control before both; without
\* its prefix the code of an arrow is a digit of the keypad
Char(k, d) ==
  CASE k = "c" -> <<IF d.ctrl THEN "^C" ELSE IF d.shift # d.caps THEN "C" ELSE "c">>
    [] k \in {"enter", "bs"} -> <<k>> [] k = "up" -> <<"8">> [] OTHER -> <<>>

\* The prefixed block: arrows only, releases and all others are ignored
ExtChar(b) == IF b.make /\ b.key = "up" THEN <<"up">> ELSE <<>>

Flags(d, b) ==
  CASE b.key = "shift" -> [d EXCEPT !.shift = b.make]
    [] b.key = "ctrl" -> [d EXCEPT !.ctrl = b.make]
    [] b.key = "caps" /\ b.make -> [d EXCEPT !.caps = ~ @]
    [] OTHER -> d

\* One code: the flags after it and the characters for it
Feed(d, b, ext) ==
  IF ext THEN [d |-> d, out |-> ExtChar(b)]
  ELSE [d |-> Flags(d, b), out |-> IF b.make THEN Char(b.key, d) ELSE <<>>]

FeedAll(d, bytes) ==
  FoldLeft(LAMBDA acc, b : LET f == Feed(acc.d, b, b.key \in Extended)
                           IN [d |-> f.d, out |-> acc.out \o f.out], [d |-> d, out |-> <<>>], bytes)

\* buf_push, once per character: what does not fit is dropped
Push(s) ==
  LET n == IF count + Len(s) > Cap THEN Cap - count ELSE Len(s)
  IN /\ buf' = [i \in DOMAIN buf |-> IF \E j \in 1..n : i = (head + j - 1) % Cap
                  THEN s[CHOOSE j \in 1..n : i = (head + j - 1) % Cap] ELSE buf[i]]
     /\ head' = (head + n) % Cap /\ count' = count + n
     /\ lost' = (lost \/ n < Len(s)) /\ UNCHANGED tail
-----------------------------------------------------------------------------
(* The PS/2 keyboard.                                                      *)

\* What the user means by a key: the modifiers that are held, not the flags
Meant(k, held, caps) ==
  IF k = "up" THEN <<"up">> ELSE Char(k, [shift |-> "shift" \in held, ctrl |-> "ctrl" \in held, caps |-> caps])

CapsMeant == drv.caps # (Cardinality({i \in DOMAIN wire : wire[i] = [make |-> TRUE, key |-> "caps"]}) % 2 = 1)

Codes(b) == IF b.key \in Extended THEN <<E0, b>> ELSE <<b>>

Ps2Press(k) ==
  /\ presses < Presses /\ ~ mixed /\ k \notin down.ps2 /\ Len(wire) < 2
  /\ presses' = presses + 1 /\ down' = [down EXCEPT !.ps2 = @ \cup {k}]
  /\ wire' = wire \o Codes([make |-> TRUE, key |-> k])
  /\ typed' = IF drv.on THEN typed \o Meant(k, down.ps2, CapsMeant) ELSE typed
  /\ UNCHANGED <<drv, buf, head, tail, count, line, lines, got, mixed, lost, handovers>>

Ps2Release(k) ==
  /\ k \in down.ps2 /\ Len(wire) < 2
  /\ down' = [down EXCEPT !.ps2 = @ \ {k}] /\ wire' = wire \o Codes([make |-> FALSE, key |-> k])
  /\ UNCHANGED <<drv, buf, head, tail, count, line, lines, typed, got, mixed, lost, presses, handovers>>

\* keyboard_handler; while a USB keyboard owns the console every waiting byte goes
KeyboardHandler ==
  /\ wire # <<>>
  /\ \/ /\ ~ drv.on /\ \E n \in 1..Len(wire) : wire' = SubSeq(wire, n + 1, Len(wire))
        /\ UNCHANGED <<drv, buf, head, tail, count, lost>>
     \/ /\ drv.on /\ Head(wire) = E0 /\ wire' = Tail(wire) /\ drv' = [drv EXCEPT !.ext = TRUE]
        /\ UNCHANGED <<buf, head, tail, count, lost>>
     \/ /\ drv.on /\ Head(wire) # E0 /\ wire' = Tail(wire)
        /\ LET f == Feed([drv EXCEPT !.ext = FALSE], Head(wire), drv.ext)
           IN drv' = f.d /\ Push(f.out)
  /\ UNCHANGED <<down, line, lines, typed, got, mixed, presses, handovers>>
-----------------------------------------------------------------------------
(* The USB keyboard.                                                       *)

Attached == handovers % 2 = 1

\* usb_hid_attach and usb_hid_detach.  A modifier held, a byte on its way or half
\* of a prefixed code at that moment reaches no one, or the wrong keyboard.
Handover ==
  /\ handovers < Handovers /\ handovers' = handovers + 1
  /\ drv' = [drv EXCEPT !.on = Attached, !.prev = {}]
  /\ mixed' = (mixed \/ wire # <<>> \/ drv.ext \/ drv.shift \/ drv.ctrl \/ down.ps2 # {})
  /\ down' = [down EXCEPT !.usb = {}]
  /\ UNCHANGED <<wire, buf, head, tail, count, line, lines, typed, got, lost, presses>>

UsbPress(k) == /\ Attached /\ presses < Presses /\ ~ mixed /\ k \notin down.usb
               /\ presses' = presses + 1 /\ down' = [down EXCEPT !.usb = @ \cup {k}]
               /\ UNCHANGED <<wire, drv, buf, head, tail, count, line, lines, typed, got, mixed, lost, handovers>>
UsbRelease(k) == /\ Attached /\ k \in down.usb /\ down' = [down EXCEPT !.usb = @ \ {k}]
                 /\ UNCHANGED <<wire, drv, buf, head, tail, count, line, lines, typed, got, mixed, lost,
                                presses, handovers>>

Edges(make, ks) == [i \in DOMAIN ks |-> [make |-> make, key |-> ks[i]]]

\* Mutant: a key that stays down is made again with every report
NewAll(r) == r \ Mods

\* slot_has_usage: a key that was not in the report before
New(r) == (r \ Mods) \ drv.prev

\* kbd_report: the edges of the modifiers, new keys by slot, vanished keys
KbdReport ==
  /\ Attached /\ down.usb # drv.prev
  /\ \E ups \in SetToSeqs((drv.prev \ down.usb) \ Mods), makes \in SetToSeqs(New(down.usb)) :
       LET mods == SetToSeq(Mods \cap (down.usb \ drv.prev))
           unmods == SetToSeq(Mods \cap (drv.prev \ down.usb))
           f == FeedAll(drv, Edges(TRUE, mods) \o Edges(FALSE, unmods) \o Edges(TRUE, makes) \o Edges(FALSE, ups))
           fresh == SelectSeq(makes, LAMBDA k : k \notin drv.prev)
       IN /\ drv' = [f.d EXCEPT !.prev = down.usb]
          /\ Push(f.out)
          /\ typed' = typed \o FoldLeft(LAMBDA acc, i : acc \o Meant(fresh[i], down.usb,
                                  drv.caps # (\E j \in 1..(i - 1) : fresh[j] = "caps")), <<>>, [i \in DOMAIN fresh |-> i])
  /\ UNCHANGED <<down, wire, line, lines, got, mixed, presses, handovers>>
-----------------------------------------------------------------------------
(* tty_read: one character of keyboard_getc at a time.                     *)

Edited(c) ==
  CASE c = "bs" -> IF line = <<>> THEN line ELSE Front(line)
    [] c = "^C" -> <<>>
    [] c = "up" \/ (c \notin {"bs", "^C"} /\ Len(line) >= LineMax - 1) -> line
    [] OTHER -> Append(line, c)

\* The reader's buffer holds a whole line
TtyRead ==
  /\ count > 0 /\ tail' = (tail + 1) % Cap /\ count' = count - 1
  /\ LET c == buf[tail]
     IN /\ got' = Append(got, c)
        /\ IF c = "enter" THEN /\ line' = <<>>
                               /\ lines' = Append(lines, Append(line, "enter"))
           ELSE line' = Edited(c) /\ UNCHANGED lines
  /\ UNCHANGED <<down, wire, drv, buf, head, typed, mixed, lost, presses, handovers>>

KeyStep ==
  \/ \E k \in Keys : Ps2Press(k) \/ Ps2Release(k) \/ UsbPress(k) \/ UsbRelease(k)
  \/ KeyboardHandler \/ Handover \/ KbdReport \/ TtyRead
KeyNext == KeyStep /\ UNCHANGED <<ctl, ptr>>
-----------------------------------------------------------------------------
(* The boot and the 8042: keyboard_init, mouse_init, keyboard_rearm_interrupt.
   kie, koff: keyboard interrupt on, clock off; aie, aoff: the same for the mouse. *)

Commands == [kie : BOOLEAN, koff : BOOLEAN, aie : BOOLEAN, aoff : BOOLEAN]

CtlInit == \E c \in Commands : ctl = [cdb |-> c, st |-> "kbd", strays |-> 0, timeout |-> FALSE, irq12 |-> FALSE]

\* What is taken for the reply to command 0x20: the command byte, or a key that
\* was pressed between the flush and the reply
Read(c, next(_)) ==
  \/ ctl' = next([ctl EXCEPT !.cdb = c])
  \/ ctl.strays < Strays /\ \E r \in Commands : ctl' = [next([ctl EXCEPT !.cdb = r]) EXCEPT !.strays = @ + 1]

Armed(c) == [c EXCEPT !.kie = TRUE, !.koff = FALSE]

\* keyboard_controller_reset; whether the device acknowledges changes only the log
KeyboardReset ==
  /\ ctl.st = "kbd" /\ UNCHANGED <<keyVars, ptr>>
  /\ \/ Read(ctl.cdb, LAMBDA c : [c EXCEPT !.cdb = Armed(c.cdb), !.st = "mouse"])
     \/ ctl' = [ctl EXCEPT !.st = "mouse", !.timeout = TRUE]

\* mouse_controller_reset: the channel is parked unless the device resets and reports
MouseReset ==
  /\ ctl.st = "mouse" /\ UNCHANGED <<keyVars, ptr>>
  /\ \/ \E ok \in BOOLEAN :
          Read([ctl.cdb EXCEPT !.aoff = TRUE],
               LAMBDA c : [c EXCEPT !.cdb.aie = TRUE, !.cdb.aoff = ~ ok, !.irq12 = ok, !.st = "rearm"])
     \/ ctl' = [ctl EXCEPT !.cdb.aoff = TRUE, !.st = "rearm", !.timeout = TRUE]

\* A byte that looks right is left alone
Rearm ==
  /\ ctl.st = "rearm" /\ UNCHANGED <<keyVars, ptr>>
  /\ \/ /\ ctl.strays < Strays /\ \E r \in Commands :
             ctl' = [ctl EXCEPT !.st = "done", !.strays = @ + 1, !.cdb = IF r.kie /\ ~ r.koff THEN @ ELSE Armed(r)]
     \/ ctl' = [ctl EXCEPT !.st = "done", !.cdb = Armed(@)]
     \/ ctl' = [ctl EXCEPT !.st = "done", !.timeout = TRUE]

CtlNext == KeyboardReset \/ MouseReset \/ Rearm
-----------------------------------------------------------------------------
(* The pointer, in one dimension: packets of three bytes, motion, cursor.  *)

PtrInit ==
  ptr = [x |-> 0, bound |-> GfxW, cycle |-> 0, phase |-> 0, first |-> <<FALSE, FALSE>>, mag |-> 0, on |-> TRUE,
         cut |-> FALSE, shrunk |-> FALSE, moves |-> 0, gfx |-> FALSE, vis |-> FALSE, at |-> 0,
         saved |-> <<>>, back |-> [i \in 0..(GfxW - 1) |-> 0], screen |-> [i \in 0..(GfxW - 1) |-> 0]]

Clamp(x, b) == IF x < 0 THEN 0 ELSE IF x > b - CursorW THEN b - CursorW ELSE x

\* mouse_inject_delta, by a PS/2 packet or a USB report
Injected(p, dx) == [p EXCEPT !.x = Clamp(p.x + dx, p.bound), !.shrunk = FALSE]

\* The displacement of a packet: overflow clears it, then the sign counts
Delta(first, mag) == (IF first[2] THEN 0 ELSE mag) - (IF first[1] THEN Unit ELSE 0)

\* mouse_handler: the device sends the next byte of its packet; a byte that cannot
\* begin a packet is skipped while one is awaited
MouseByte(sync, neg, ovf, mag) ==
  /\ ptr.moves < Moves /\ (ptr.phase = 0 => sync)
  /\ LET p == [ptr EXCEPT !.phase = (@ + 1) % 3, !.moves = @ + 1]
     IN ptr' = CASE ~ p.on \/ (p.cycle = 0 /\ ~ sync) -> p
                 [] p.on /\ p.cycle = 0 /\ sync -> [p EXCEPT !.first = <<neg, ovf>>, !.cycle = 1]
                 [] p.on /\ p.cycle = 1 -> [p EXCEPT !.mag = mag, !.cycle = 2]
                 [] p.on /\ p.cycle = 2 -> [Injected(p, Delta(p.first, p.mag)) EXCEPT !.cycle = 0]

UsbMouse(dx) == /\ ~ ptr.on /\ ptr.moves < Moves
                /\ ptr' = [Injected(ptr, dx) EXCEPT !.moves = @ + 1]

\* A USB mouse comes or goes: a packet may be cut in two
MouseHandover == /\ ptr.moves < Moves
                 /\ ptr' = [ptr EXCEPT !.on = ~ @, !.moves = @ + 1, !.cut = @ \/ (~ ptr.on /\ ptr.phase # ptr.cycle)]

\* mouse_set_bounds: the pointer is brought inside by the next motion
SetBounds(w) == /\ ptr.moves < Moves /\ w # ptr.bound
                /\ ptr' = [ptr EXCEPT !.bound = w, !.shrunk = @ \/ w < ptr.bound, !.moves = @ + 1]

GfxMode == /\ ~ ptr.gfx /\ ptr' = [ptr EXCEPT !.gfx = TRUE]

Erased(p) == IF ~ p.vis THEN p
             ELSE [p EXCEPT !.vis = FALSE,
                            !.screen = [i \in DOMAIN @ |-> IF i - p.at \in 0..(CursorW - 1) THEN p.saved[i - p.at + 1] ELSE @[i]]]

\* mouse_draw_cursor
Drawn(p, x) ==
  LET q == Erased(p)
  IN IF x + CursorW > GfxW THEN q
     ELSE [q EXCEPT !.vis = TRUE, !.at = x, !.saved = [i \in 1..CursorW |-> q.screen[x + i - 1]],
                    !.screen = [i \in DOMAIN @ |-> IF i - x \in 0..(CursorW - 1) THEN 2 ELSE @[i]]]

DrawCursor == ptr.gfx /\ ptr' = Drawn(ptr, ptr.x)
EraseCursor == ptr.vis /\ ptr' = Erased(ptr)

\* The desktop paints after erasing the cursor
Paint(i) == /\ ptr.gfx /\ ~ ptr.vis
            /\ ptr' = [ptr EXCEPT !.back[i] = 1 - @, !.screen[i] = 1 - ptr.back[i]]

PtrStep ==
  \/ \E s, neg, ovf \in BOOLEAN, mag \in 0..(Unit - 1) : MouseByte(s, neg, ovf, mag)
  \/ \E dx \in (-Unit)..(Unit - 1) : UsbMouse(dx)
  \/ \E w \in {GfxW, GfxW + 2} : SetBounds(w)
  \/ \E i \in 0..(GfxW - 1) : Paint(i)
  \/ MouseHandover \/ GfxMode \/ DrawCursor \/ EraseCursor
PtrNext == PtrStep /\ UNCHANGED <<keyVars, ctl>>
-----------------------------------------------------------------------------
(* Properties. *)

Waiting == [i \in 1..count |-> buf[(tail + i - 1) % Cap]]
Owner == IF Attached THEN drv.prev ELSE down.ps2

\* Every key typed on the keyboard that owns the console arrives once, in order and
\* as it was meant with the modifiers held, on either keyboard and through the ring
\* at any fill level; only a full ring drops keys (buf_push), and a keyboard that
\* changes hands with keys held.
KeysExact ==
  /\ count \in 0..Cap /\ head = (tail + count) % Cap
  /\ ~ mixed /\ ~ lost => /\ IsPrefix(got \o Waiting, typed)
                          /\ wire = <<>> => got \o Waiting = typed
  /\ ~ mixed /\ wire = <<>> => /\ drv.shift <=> "shift" \in Owner
                               /\ drv.ctrl <=> "ctrl" \in Owner

\* A reader of the console gets whole lines of printable characters that fit the
\* line buffer: the newline is kept also when the line is full, and what ^C
\* discarded or a backspace removed is not in them (tty_read).
LinesWhole ==
  \A l \in Range(lines) : /\ Len(l) \in 1..LineMax /\ Last(l) = "enter"
                          /\ \A i \in 1..(Len(l) - 1) : l[i] \in {"c", "C", "8"}
                          /\ Cardinality({i \in DOMAIN got : got[i] \in {"c", "C", "8"}}) >= Len(l) - 1

\* Whatever the firmware left behind, and although a key pressed during the boot is
\* taken for the command byte once, the keyboard interrupt is on after the boot:
\* "with the keyboard interrupt bits FORCED on" (keyboard_rearm_interrupt).
KeyboardArmed ==
  ctl.st = "done" /\ ~ ctl.timeout => ctl.cdb = Armed(ctl.cdb) /\ (ctl.strays = 0 /\ ctl.irq12 => ctl.cdb.aie /\ ~ ctl.cdb.aoff)

\* The cursor can be drawn wherever a motion leaves the pointer, erasing it gives the
\* screen back as it was painted, and the driver reads a packet from its first byte
\* unless a USB mouse came in its middle (mouse_inject_delta, mouse_draw_cursor).
PointerSound ==
  /\ ~ ptr.shrunk => ptr.x \in 0..(ptr.bound - CursorW)
  /\ ~ ptr.vis => ptr.screen = ptr.back
  /\ ptr.vis => \A i \in DOMAIN ptr.screen : ptr.screen[i] = IF i - ptr.at \in 0..(CursorW - 1) THEN 2 ELSE ptr.back[i]
  /\ ptr.on /\ ~ ptr.cut => ptr.cycle = ptr.phase
-----------------------------------------------------------------------------
(* The editor: a table of lines of bounded length, a cursor and the first  *)
(* line shown.  The ghost, the text as one sequence with a caret in it,    *)
(* tells what the keys mean.                                               *)

EditInit ==
  /\ ed = [lines |-> <<<<>>>>, x |-> 0, y |-> 1, top |-> 1]
  /\ text = <<>> /\ file = <<>> /\ pressed = 0

Line == ed.lines[ed.y]
Joined(ls) == FoldLeft(LAMBDA t, l : t \o <<"nl">> \o l, ls[1], Tail(ls))
\* Where the cursor is in the text
Caret == Len(Joined(SubSeq(ed.lines, 1, ed.y))) - Len(Line) + ed.x

InsertedAt(t, i, c) == SubSeq(t, 1, i) \o <<c>> \o SubSeq(t, i + 1, Len(t))
RemovedAt(t, i) == SubSeq(t, 1, i - 1) \o SubSeq(t, i + 1, Len(t))

Pressed == pressed < KeyBound /\ pressed' = pressed + 1

edit_insert_char(c) ==
  /\ Pressed /\ UNCHANGED file
  /\ IF Len(Line) >= MaxLen THEN UNCHANGED <<ed, text>>
     ELSE /\ ed' = [ed EXCEPT !.lines[ed.y] = InsertedAt(@, ed.x, c), !.x = @ + 1]
          /\ text' = InsertedAt(text, Caret, c)

\* A line that does not fit behind the one before it is dropped
Merged(prev, l) == IF Len(prev) + Len(l) < MaxLen THEN prev \o l ELSE prev
edit_delete_char ==
  /\ Pressed /\ UNCHANGED file
  /\ IF ed.x > 0
     THEN /\ ed' = [ed EXCEPT !.lines[ed.y] = RemovedAt(@, ed.x), !.x = @ - 1]
          /\ text' = RemovedAt(text, Caret)
     ELSE IF ed.y = 1 THEN UNCHANGED <<ed, text>>
     ELSE LET prev == ed.lines[ed.y - 1] IN
          /\ ed' = [ed EXCEPT !.lines = RemoveAt([@ EXCEPT ![ed.y - 1] = Merged(prev, Line)], ed.y),
                              !.x = Len(prev), !.y = @ - 1]
          /\ text' = IF Len(prev) + Len(Line) < MaxLen THEN RemovedAt(text, Caret) ELSE Joined(ed'.lines)

edit_new_line ==
  /\ Pressed /\ UNCHANGED file
  /\ IF Len(ed.lines) >= MaxLines THEN UNCHANGED <<ed, text>>
     ELSE /\ ed' = [ed EXCEPT
               !.lines = InsertAt([@ EXCEPT ![ed.y] = SubSeq(@, 1, ed.x)], ed.y + 1,
                                  SubSeq(Line, ed.x + 1, Len(Line))),
               !.y = @ + 1, !.x = 0]
          /\ text' = InsertedAt(text, Caret, "nl")

Least(a, b) == IF a < b THEN a ELSE b
edit_move_up ==
  /\ Pressed /\ UNCHANGED <<text, file>>
  /\ LET y == IF ed.y > 1 THEN ed.y - 1 ELSE 1 IN
     ed' = [ed EXCEPT !.y = y, !.x = Least(@, Len(ed.lines[y])), !.top = Least(@, y)]

edit_move_down ==
  /\ Pressed /\ UNCHANGED <<text, file>>
  /\ LET y == Least(ed.y + 1, Len(ed.lines)) IN
     ed' = [ed EXCEPT !.y = y, !.x = Least(@, Len(ed.lines[y])),
                      !.top = IF y >= @ + Rows - 1 THEN @ + 1 ELSE @]

edit_move_left ==
  /\ Pressed /\ UNCHANGED <<text, file>>
  /\ ed' = [ed EXCEPT !.x = IF @ > 0 THEN @ - 1 ELSE 0]
edit_move_right ==
  /\ Pressed /\ UNCHANGED <<text, file>>
  /\ ed' = [ed EXCEPT !.x = Least(@ + 1, Len(Line))]

\* edit_save_file(): every line with a line feed behind it
Saved(ls) == FoldLeft(LAMBDA t, l : t \o l \o <<"nl">>, <<>>, ls)
edit_core_save ==
  /\ Pressed /\ UNCHANGED <<ed, text>>
  /\ file' = Saved(ed.lines)

\* What is left behind a line of n characters; its line feed is skipped
NextLine(rest, n) ==
  SubSeq(rest, n + 1 + (IF n < Len(rest) /\ rest[n + 1] = "nl" THEN 1 ELSE 0), Len(rest))
LengthOf(rest) ==
  CHOOSE n \in 0..Least(MaxLen, Len(rest)) :
    /\ \A i \in 1..n : rest[i] # "nl"
    /\ n = MaxLen \/ n = Len(rest) \/ rest[n + 1] = "nl"
\* edit_load_file()
Loaded(content) ==
  LET f == FoldLeft(LAMBDA st, i : IF st.rest = <<>> THEN st ELSE
             [rest |-> NextLine(st.rest, LengthOf(st.rest)),
              lines |-> Append(st.lines, SubSeq(st.rest, 1, LengthOf(st.rest)))],
           [rest |-> content, lines |-> <<>>], [i \in 1..MaxLines |-> i])
  IN IF f.lines = <<>> THEN <<<<>>>> ELSE f.lines

edit_core_open ==
  /\ Pressed /\ UNCHANGED file
  /\ ed' = [lines |-> Loaded(file), x |-> 0, y |-> 1, top |-> 1]
  /\ text' = IF file = <<>> THEN <<>> ELSE SubSeq(file, 1, Len(file) - 1)

EditNext ==
  \/ \E c \in Chars : edit_insert_char(c)
  \/ edit_delete_char \/ edit_new_line
  \/ edit_move_up \/ edit_move_down \/ edit_move_left \/ edit_move_right
  \/ edit_core_save \/ edit_core_open
-----------------------------------------------------------------------------
\* The table holds the text that the keys gave, each in the place of the cursor, also with
\* full lines and a full table and after a text was saved and opened again; and the cursor is
\* in the text, so that the next key finds its place.
TextExact ==
  /\ Joined(ed.lines) = text
  /\ ed.y \in 1..Len(ed.lines) /\ ed.x \in 0..Len(Line)
  /\ Len(ed.lines) <= MaxLines /\ \A i \in 1..Len(ed.lines) : Len(ed.lines[i]) <= MaxLen
=============================================================================
