------------------------------ MODULE Desktop ------------------------------
(***************************************************************************)
(* The window manager of the desktop (shell/shell.c): three windows, start *)
(* menu, dialogs and taskbar, of which each handler repaints only what it  *)
(* changed.  The screen is a grid of cells; a cell holds what was last     *)
(* painted there.  Texts, colours other than the focus and the pointer     *)
(* (module Input) are left out.                                            *)
(***************************************************************************)
EXTENDS Integers, Sequences, FiniteSets, FiniteSetsExt, SequencesExt

CONSTANTS DtW, DtH,     \* dt_w, dt_h
          TaskbarH,     \* g_taskbar_h
          Shadow,       \* g_shadow
          TitleH,       \* border and g_title_h
          Layout,       \* rectangles that desktop_layout_init gives the windows
          MenuRect,     \* menu_rect_get
          DialogRect,   \* any of the centred dialogs
          Funcs,        \* functions of the app panel, in the order of the menu
          Points,       \* where the pointer may be
          MaxMoves,     \* bound on the steps of drags
          MaxLeft       \* bound on the handlers that leave more cells wrong

VARIABLES d,            \* windows, start menu and modes of the panels
          screen,
          wm_modal_was,
          drag,         \* drag_win and drag_dx, drag_dy while the button is down
          stale,        \* cells that a handler is known to leave wrong (see Leaves)
          moves, left   \* steps and handlers counted by the bounds

vars == <<d, screen, wm_modal_was, drag, stale, moves, left>>

Wins == {"apps", "shell", "klog"}
Cells == (0..(DtW - 1)) \X (0..(DtH - 1))
NoRect == [x |-> 0, y |-> 0, w |-> 0, h |-> 0]
NoDrag == [win |-> "none", dx |-> 0, dy |-> 0]

In(c, r) == /\ c[1] >= r.x /\ c[1] < r.x + r.w
            /\ c[2] >= r.y /\ c[2] < r.y + r.h
WmRectHit(a, b) == /\ a.x < b.x + b.w /\ b.x < a.x + a.w
                   /\ a.y < b.y + b.h /\ b.y < a.y + a.h
Grown(r, n) == [r EXCEPT !.w = @ + n, !.h = @ + n]
Moved(r, n) == [r EXCEPT !.x = @ + n, !.y = @ + n]
WinExtent(s, i) == Grown(s.rect[i], Shadow)
WinContent(s, i) == LET r == s.rect[i] IN [r EXCEPT !.y = @ + TitleH, !.h = @ - TitleH]

\* The rectangle around two, as wm_damage() grows it
WmDamage(a, b) ==
  IF a = NoRect THEN b ELSE
  LET x == Min({a.x, b.x})  y == Min({a.y, b.y})
  IN [x |-> x, y |-> y, w |-> Max({a.x + a.w, b.x + b.w}) - x, h |-> Max({a.y + a.h, b.y + b.h}) - y]

WinRaise(s, i) == [s EXCEPT !.z = Append(SelectSeq(@, LAMBDA w : w # i), i), !.focused = i]
FilesModal(s) == s.func = "files" /\ s.fm # "browse"
WmModal(s) == FilesModal(s) \/ (s.func = "editor" /\ s.ed = "input")
EdModal(s) == s.func = "editor" /\ s.ed \in {"edit", "input"}
----------------------------------------------------------------------------
(* Painting                                                                *)

\* The title shows the focus; title and content of the app window its function
Label(s, i) == IF i = "apps" THEN s.func ELSE i
Title(s, i) == <<Label(s, i), s.focused = i>>
Body(s, i) == <<Label(s, i)>>

\* win_draw_frame() and the content: what painting window i puts into cell c
Covers(s, i, c) == In(c, s.rect[i]) \/ In(c, Moved(s.rect[i], Shadow))
WmPaintWindow(s, i, c) == IF In(c, WinContent(s, i)) THEN Body(s, i)
                          ELSE IF In(c, s.rect[i]) THEN Title(s, i) ELSE <<"shadow">>

\* Painting the windows S in z-order and the floating layers over a background: what
\* is painted last in cell c stays (wm_draw_overlays)
Painted(s, S, c, under) ==
  LET at == SelectSeq(s.z, LAMBDA i : i \in S /\ s.visible[i] /\ Covers(s, i, c))
  IN IF c[2] >= DtH - TaskbarH THEN <<"taskbar">>
     ELSE IF s.menu /\ In(c, MenuRect) THEN <<"menu">>
     ELSE IF s.menu /\ In(c, Moved(MenuRect, Shadow)) THEN <<"shadow">>
     ELSE IF WmModal(s) /\ In(c, DialogRect) THEN <<"dialog">>
     ELSE IF at = <<>> THEN under ELSE WmPaintWindow(s, Last(at), c)

\* wm_repaint()
WmRepaint(s) == [c \in Cells |-> Painted(s, Wins, c, <<"wallpaper">>)]

\* Painting a window spoils those above it that its extent overlaps: the loop of
\* wm_flush(), whose result grows from the bottom up
Cascade(s, S) ==
  LET rep[k \in 1..Len(s.z)] ==
        \/ s.z[k] \in S
        \/ /\ s.visible[s.z[k]]
           /\ \E j \in 1..(k - 1) : rep[j] /\ WmRectHit(WinExtent(s, s.z[j]), WinExtent(s, s.z[k]))
  IN {s.z[k] : k \in {n \in 1..Len(s.z) : rep[n]}}

\* The windows wm_flush() paints for marks and a damaged rectangle
Repainted(s, dirty, dmg) ==
  Cascade(s, {i \in Wins : s.visible[i] /\ (i \in dirty \/ (dmg # NoRect /\ WmRectHit(dmg, WinExtent(s, i))))})

\* The screen after wm_flush()
WmFlush(scr, s, dirty, dmg) ==
  LET rep == Repainted(s, dirty, dmg)
  IN [c \in Cells |-> Painted(s, rep, c, IF In(c, dmg) THEN <<"wallpaper">> ELSE scr[c])]

\* The cells it paints over whatever was there
FlushCells(s, dirty, dmg) ==
  LET rep == Repainted(s, dirty, dmg)
  IN {c \in Cells : In(c, dmg) \/ Painted(s, rep, c, <<"kept">>) # <<"kept">>}

Wrong(scr, s) == LET all == WmRepaint(s) IN {c \in Cells : scr[c] # all[c]}
----------------------------------------------------------------------------
(* How a handler ends: with wm_flush() or wm_repaint(), which leave right  *)
(* what they paint, or in one of the ways that leave cells wrong.  These   *)
(* are the ones that draw into a window whatever lies above it, that take  *)
(* a dialog off without its area, and that move the focus without a mark.  *)

Flushes(s, dirty, dmg) ==
  /\ d' = s /\ screen' = WmFlush(screen, s, dirty, dmg) /\ wm_modal_was' = WmModal(s)
  /\ stale' = IF stale = {} THEN {} ELSE stale \ FlushCells(s, dirty, dmg)
  /\ UNCHANGED left

Repaints(s) == d' = s /\ screen' = WmRepaint(s) /\ stale' = {} /\ wm_modal_was' = WmModal(s) /\ UNCHANGED left

Leaves(s, scr) ==
  LET wrong == Wrong(scr, s)
      more == ~ (wrong \subseteq stale)
  IN /\ more => left < MaxLeft
     /\ left' = IF more THEN left + 1 ELSE left
     /\ d' = s /\ screen' = scr /\ stale' = wrong

FlushesLeaving(s, dirty, dmg) ==
  Leaves(s, WmFlush(screen, s, dirty, dmg)) /\ wm_modal_was' = WmModal(s)

\* Content drawn on its own: the panel, the terminal or the log
Drawn(s, i) == [c \in Cells |-> IF In(c, WinContent(s, i)) THEN Body(s, i) ELSE screen[c]]
WithDialog(scr) == [c \in Cells |-> IF In(c, DialogRect) THEN <<"dialog">> ELSE scr[c]]
Draws(i) == Leaves(d, Drawn(d, i)) /\ UNCHANGED wm_modal_was

\* desktop_repaint(), with the marks that are pending
DesktopRepaint(s, dirty) ==
  IF wm_modal_was /\ ~ WmModal(s) THEN Repaints(s) ELSE Flushes(s, dirty \cup {"apps"}, NoRect)

MenuDamage == Grown(MenuRect, Shadow)

\* desktop_switch_func(); a dialog of the function that is left stays on the screen
SwitchFunc(s, f, dirty, dmg) ==
  LET n == WinRaise([s EXCEPT !.func = f, !.visible["apps"] = TRUE,
                              !.ed = IF f # s.func /\ f = "editor" THEN "pick" ELSE @], "apps")
      marks == dirty \cup {"apps", s.focused}
  IN IF WmModal(s) /\ f # s.func THEN FlushesLeaving(n, marks, dmg) ELSE Flushes(n, marks, dmg)
----------------------------------------------------------------------------
(* desktop_run_loop(): the clock, the log and the player                   *)

Start(func, fm, ed) ==
  [rect |-> Layout, visible |-> [i \in Wins |-> TRUE], z |-> <<"apps", "klog", "shell">>,
   focused |-> "shell", menu |-> FALSE, func |-> func, fm |-> fm, ed |-> ed]

Init == /\ d = Start(Head(Funcs), "browse", "idle") /\ screen = WmRepaint(d)
        /\ wm_modal_was = FALSE /\ drag = NoDrag /\ stale = {} /\ moves = 0 /\ left = 0

\* A panel has the keyboard
PanelKeys == FilesModal(d) \/ (d.func = "editor" /\ d.ed # "idle")

\* The desktop is left, by the menu or by ESC, and started again: the modes of the
\* panels stay
Exit == /\ d.menu \/ ~ PanelKeys
        /\ Repaints(Start(d.func, d.fm, d.ed)) /\ drag' = NoDrag /\ UNCHANGED moves

\* Once a second the system monitor and the player's readout are drawn again
Second == /\ \/ d.func = "system" /\ d.visible["apps"] /\ Draws("apps")
             \/ d.func = "files" /\ d.fm = "audio" /\ Leaves(d, WithDialog(screen)) /\ UNCHANGED wm_modal_was
          /\ UNCHANGED <<drag, moves>>

\* klog_view_render(), and an open dialog again
Pump == /\ d.visible["klog"]
        /\ Leaves(d, IF WmModal(d) THEN WithDialog(Drawn(d, "klog")) ELSE Drawn(d, "klog"))
        /\ UNCHANGED <<wm_modal_was, drag, moves>>

\* fm_audio_pump() closes the player at the end of the file, without a repaint
AudioEnds == /\ FilesModal(d) /\ d.fm = "audio" /\ Leaves([d EXCEPT !.fm = "browse"], screen)
             /\ UNCHANGED <<wm_modal_was, drag, moves>>
----------------------------------------------------------------------------
(* Keys                                                                    *)

CloseMenu == Flushes([d EXCEPT !.menu = FALSE], {}, MenuDamage)

Escape ==
  IF d.menu THEN CloseMenu
  ELSE IF FilesModal(d) THEN Repaints([d EXCEPT !.fm = "browse"])
  ELSE /\ d.func = "editor" /\ d.ed # "idle"
       /\ CASE d.ed = "input" -> DesktopRepaint([d EXCEPT !.ed = "pick"], {})
            [] d.ed = "edit" -> Draws("apps")
            [] d.ed = "pick" -> DesktopRepaint([d EXCEPT !.ed = "idle"], {})

KeyWin == ~ PanelKeys /\ Flushes([d EXCEPT !.menu = ~ @], {}, MenuDamage)

\* menu_activate() for an entry other than Exit Desktop
MenuActivate(f) == d.menu /\ SwitchFunc([d EXCEPT !.menu = FALSE], f, {}, MenuDamage)

\* menu_popup_draw() and fm_modal_draw() on their own, into the cells S
Shows(S) == /\ screen' = [c \in Cells |-> IF c \in S THEN Painted(d, {}, c, screen[c]) ELSE screen[c]]
            /\ stale' = stale \ S /\ UNCHANGED <<d, wm_modal_was, left>>

MenuMove == d.menu /\ Shows({c \in Cells : In(c, MenuRect) \/ In(c, Moved(MenuRect, Shadow))})

FKey(f) == /\ ~ d.menu
           /\ IF f = d.func /\ f = "editor" /\ d.ed = "idle"
              THEN Flushes([d EXCEPT !.ed = "pick"], {"apps"}, NoRect)
              ELSE ~ FilesModal(d) /\ ~ EdModal(d) /\ SwitchFunc(d, f, {}, NoRect)

Arrow == /\ ~ d.menu /\ d.func # "files" /\ ~ PanelKeys
         /\ \E i, j \in DOMAIN Funcs : /\ Funcs[i] = d.func /\ (j - i) % Len(Funcs) \in {1, Len(Funcs) - 1}
                                       /\ SwitchFunc(d, Funcs[j], {}, NoRect)

\* fm_handle_key()
FilesKey ==
  /\ ~ d.menu /\ d.func = "files"
  /\ IF d.fm = "browse"
     THEN Draws("apps") \/ \E m \in {"ask", "view", "audio"} : DesktopRepaint([d EXCEPT !.fm = m], {})
     ELSE \/ DesktopRepaint([d EXCEPT !.fm = "browse"], {})
          \/ d.fm = "audio" /\ DesktopRepaint(d, {})
          \/ d.fm = "ask" /\ Shows({c \in Cells : In(c, DialogRect)})

\* ed_handle_key(): a new name may be refused, a file may not be there
EditorKey ==
  /\ ~ d.menu /\ d.func = "editor" /\ d.ed # "idle"
  /\ \/ d.ed = "input" /\ \E m \in {"input", "edit"} : DesktopRepaint([d EXCEPT !.ed = m], {})
     \/ d.ed = "edit" /\ (Draws("apps") \/ DesktopRepaint([d EXCEPT !.ed = "pick"], {}))
     \/ d.ed = "pick" /\ (Draws("apps") \/ \E m \in {"pick", "edit", "input"} : DesktopRepaint([d EXCEPT !.ed = m], {}))

\* Keys of the shell: a character in the terminal, or a command and its output
ShellKey ==
  /\ ~ d.menu /\ d.func # "files" /\ ~ PanelKeys
  /\ \/ Draws("shell")
     \/ \E c \in {x \in Cells : In(x, WinContent(d, "shell"))} :
          Leaves(d, [screen EXCEPT ![c] = Body(d, "shell")]) /\ UNCHANGED wm_modal_was

Key == /\ \/ Escape \/ KeyWin \/ MenuMove \/ FilesKey \/ EditorKey \/ ShellKey \/ Arrow
          \/ \E f \in Range(Funcs) : MenuActivate(f) \/ FKey(f)
       /\ UNCHANGED <<drag, moves>>
----------------------------------------------------------------------------
(* The mouse                                                               *)

Focus(i) == LET n == WinRaise(d, i) IN Flushes(n, {d.focused, i}, NoRect)

\* taskbar_click(): the start button and the buttons of the windows
StartButton == Flushes([d EXCEPT !.menu = ~ @], {}, MenuDamage) /\ UNCHANGED drag
NoButton == Flushes(d, {}, NoRect) /\ UNCHANGED drag
TaskButton(i) ==
  Flushes(WinRaise([d EXCEPT !.visible[i] = TRUE], i), {d.focused, i}, NoRect) /\ UNCHANGED drag

WinAt(s, p) ==
  LET under == SelectSeq(s.z, LAMBDA i : s.visible[i] /\ In(p, s.rect[i]))
  IN IF under = <<>> THEN "none" ELSE Last(under)

\* The last cell of the title
HitClose(s, i, p) == p[2] = s.rect[i].y /\ p[1] = s.rect[i].x + s.rect[i].w - 1
HitTitle(s, i, p) == p[2] < s.rect[i].y + TitleH

\* The window that had the focus is not marked
ClickClose(i) ==
  LET n == WinRaise([d EXCEPT !.visible[i] = FALSE], i)
  IN IF d.focused = i THEN Flushes(n, {}, WinExtent(d, i)) ELSE FlushesLeaving(n, {}, WinExtent(d, i))

ClickTitle(i, p) ==
  Focus(i) /\ drag' = [win |-> i, dx |-> p[1] - d.rect[i].x, dy |-> p[2] - d.rect[i].y]

\* fm_handle_click(), ed_handle_click(): a row of the list is drawn as selected, or the
\* selected one is opened
RowClick(n, dirty, opened) ==
  \/ Leaves(n, WmFlush(Drawn(n, "apps"), n, dirty, NoRect)) /\ wm_modal_was' = WmModal(n)
  \/ \E s \in opened : DesktopRepaint(s, dirty)

FilesOpened(n) == {[n EXCEPT !.fm = m] : m \in {"view", "audio"}}
EditorOpened(n) == {[n EXCEPT !.ed = "edit"]}

\* A click into the app window: on nothing, on a row or on the selector.  Only the
\* window that had the focus is marked.
ClickApps ==
  LET n == WinRaise(d, "apps")
      dirty == {d.focused}
  IN \/ IF d.focused = "apps" THEN Flushes(n, dirty, NoRect) ELSE FlushesLeaving(n, dirty, NoRect)
     \/ d.func = "files" /\ RowClick(n, dirty, FilesOpened(n))
     \/ d.func = "editor" /\ d.ed = "pick" /\ RowClick(n, dirty, EditorOpened(n))
     \/ \E f \in Range(Funcs) : SwitchFunc(n, f, dirty, NoRect)

\* A press of the button with the pointer at p
Click(p) ==
  /\ drag = NoDrag /\ UNCHANGED moves
  /\ IF d.menu
     THEN /\ UNCHANGED drag
          /\ IF In(p, MenuRect) THEN \E f \in Range(Funcs) : MenuActivate(f) ELSE CloseMenu
     ELSE IF p[2] >= DtH - TaskbarH THEN StartButton \/ NoButton \/ \E i \in Wins : TaskButton(i)
     ELSE IF ~ FilesModal(d) /\ ~ EdModal(d)
     THEN LET hit == WinAt(d, p)
          IN /\ hit # "none"
             /\ IF HitClose(d, hit, p) THEN ClickClose(hit) /\ UNCHANGED drag
                ELSE IF HitTitle(d, hit, p) THEN ClickTitle(hit, p)
                ELSE (IF hit = "apps" THEN ClickApps ELSE Focus(hit)) /\ UNCHANGED drag
     ELSE FilesModal(d) /\ d.fm = "view" /\ DesktopRepaint([d EXCEPT !.fm = "browse"], {}) /\ UNCHANGED drag

\* The pointer moves to p with the button down: the window stays above the taskbar
Drag(p) ==
  LET i == drag.win
      r == d.rect[i]
      x == Min({Max({p[1] - drag.dx, 0}), DtW - r.w})
      y == Min({Max({p[2] - drag.dy, 0}), DtH - TaskbarH - r.h})
      n == [d EXCEPT !.rect[i].x = x, !.rect[i].y = y]
  IN /\ drag # NoDrag /\ <<x, y>> # <<r.x, r.y>>
     /\ moves < MaxMoves /\ moves' = moves + 1
     /\ Flushes(n, {i}, WmDamage(WinExtent(d, i), WinExtent(n, i)))
     /\ UNCHANGED drag

Drop == drag # NoDrag /\ drag' = NoDrag /\ UNCHANGED <<d, screen, wm_modal_was, stale, moves, left>>

Next == Second \/ Pump \/ AudioEnds \/ Key \/ Exit \/ Drop \/ \E p \in Points : Click(p) \/ Drag(p)

Spec == Init /\ [][Next]_vars
----------------------------------------------------------------------------
(* Properties                                                              *)

\* The order of the windows is a permutation whose last has the focus (win_raise).
TypeOK == /\ Range(d.z) = Wins /\ Len(d.z) = Cardinality(Wins) /\ d.focused = Last(d.z)
          /\ drag.win \in Wins \cup {"none"} /\ stale \subseteq Cells

\* What the screen shows is what a full repaint would show, after every handler that
\* repaints only a part, in whatever order windows were moved, covered, closed, raised
\* and reopened, with menus and dialogs above them: the marks, the damaged rectangle
\* and the cascade miss nothing (wm_flush, desktop_repaint).  Excepted are the cells
\* that were left by drawing into a covered window, by leaving a dialog through the
\* start menu or at the end of a song, and by moving the focus without a mark.
ScreenExact == Wrong(screen, d) \subseteq stale

\* Every window can be reached: it stays on the screen and above the taskbar.
WithinScreen == \A i \in Wins : /\ d.rect[i].x >= 0 /\ d.rect[i].x + d.rect[i].w <= DtW
                                /\ d.rect[i].y >= 0 /\ d.rect[i].y + d.rect[i].h <= DtH - TaskbarH
=============================================================================
