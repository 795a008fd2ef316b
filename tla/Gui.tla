-------------------------------- MODULE Gui ---------------------------------
(***************************************************************************)
(* The graphical desktop (kernel/gui.c): GUI_Init creates two windows and  *)
(* then draws the desktop, the task bar, the windows and the mouse for     *)
(* ever.  Nobody else uses the frame buffer, so a rectangle is one step.   *)
(*                                                                         *)
(* In the kernel as it is, paging maps no frame buffer and the first pixel *)
(* faults (Shell and Paging end there); this module is what the drawing    *)
(* does where its memory can be written.                                   *)
(***************************************************************************)
EXTENDS Line, Sequences, FiniteSets, FiniteSetsExt

CONSTANTS
  MAX_WINDOWS,
  TitleHeight,     \* 22
  TaskBarHeight,   \* 25
  Geometries,      \* [x, y, w, h] of the windows; w and h are coordinates
  MouseAt,         \* where the mouse is drawn
  mouse_t,         \* its rows of "#", "1", "0" and " "
  BlackPixels, WhitePixels,   \* the pixels it should have
  ClientPoints     \* end points of the lines other callers draw

ASSUME GuiAssumption ==
  /\ MAX_WINDOWS \in Nat \ {0, 1}
  /\ TitleHeight \in Nat /\ TaskBarHeight \in Nat
  /\ Geometries \subseteq [x : 0 .. Width, y : 0 .. Height, w : 0 .. Width, h : 0 .. Height]
  /\ \A g \in Geometries :
       /\ 0 <= g.x /\ g.x < g.w /\ g.w <= Width
       /\ 0 <= g.y /\ g.y + TitleHeight <= g.h /\ g.h < Height
  /\ \A r \in DOMAIN mouse_t :
       <<MouseAt[1] + Len(mouse_t[r]), MouseAt[2] + r>> \in Points
  /\ ClientPoints \subseteq Points

VARIABLES
  window,   \* the table: id 0 is a free entry
  id,       \* the static of GUI_CreateWindow
  i,        \* the index of GUI_DrawWindows
  pc        \* what GUI_Init does next

guiVars == <<fb, line, window, id, i, pc>>

Slots == 0 .. MAX_WINDOWS - 1
Unused == [id |-> 0, x |-> 0, y |-> 0, w |-> 0, h |-> 0, active |-> FALSE]

-----------------------------------------------------------------------------
(* The window table.                                                       *)

Free(table) == {s \in Slots : table[s].id = 0}

\* Fault variant of WithWindow: the other windows stay active.
WithWindow_others_active(table, g, n) ==
  LET s == Min(Free(table))
  IN [table EXCEPT ![s] = [id |-> n, x |-> g.x, y |-> g.y, w |-> g.w, h |-> g.h,
                           active |-> TRUE]]

\* The first free entry is taken (GUI_Init leaves room) and becomes the active
\* window.
WithWindow(table, g, n) ==
  LET s == Min(Free(table))
      others == [t \in Slots |-> [table[t] EXCEPT !.active = FALSE]]
  IN [others EXCEPT ![s] = [id |-> n, x |-> g.x, y |-> g.y, w |-> g.w, h |-> g.h,
                            active |-> TRUE]]

GUI_CreateWindow(g) ==
  /\ window' = WithWindow(window, g, id)
  /\ id' = id + 1

-----------------------------------------------------------------------------
(* GUI_Init.                                                               *)

At(step) == pc = step /\ line.cnt = 0
Go(step) == pc' = step

\* A caller of VBE_DrawLine other than the GUI, in a behaviour of its own.
ClientLine ==
  /\ At("start")
  /\ \E a, b \in ClientPoints : VBE_DrawLine(a, b, "line")
  /\ Go("called")
  /\ UNCHANGED <<fb, window, id, i>>

ClearTable ==
  /\ At("start")
  /\ window' = [s \in Slots |-> [window[s] EXCEPT !.id = 0]]
  /\ Go("first")
  /\ UNCHANGED <<fb, line, id, i>>

Create(step, then) ==
  /\ At(step)
  /\ \E g \in Geometries : GUI_CreateWindow(g)
  /\ Go(then)
  /\ UNCHANGED <<fb, line, i>>

GUI_DrawDesktop ==
  /\ At("desktop")
  /\ VBE_DrawRect(0, 0, Width, Height, "desktop")
  /\ Go("taskbar")
  /\ UNCHANGED <<line, window, id, i>>

GUI_DrawTaskBar ==
  /\ At("taskbar")
  /\ VBE_DrawRect(0, 0, Width, TaskBarHeight, "taskbar")
  /\ i' = 0
  /\ Go("window")
  /\ UNCHANGED <<line, window, id>>

W == window[i]

\* The head of the loop of GUI_DrawWindows.
NextWindow ==
  /\ At("window")
  /\ \/ /\ i = MAX_WINDOWS
        /\ Go("mouse")
        /\ UNCHANGED i
     \/ /\ i < MAX_WINDOWS /\ W.id = 0
        /\ i' = i + 1
        /\ UNCHANGED pc
     \/ /\ i < MAX_WINDOWS /\ W.id # 0
        /\ Go("main")
        /\ UNCHANGED i
  /\ UNCHANGED <<fb, line, window, id>>

MainWindow ==
  /\ At("main")
  /\ VBE_DrawRect(W.x, W.y, W.w, W.h, "body")
  /\ Go("title")
  /\ UNCHANGED <<line, window, id, i>>

TitleColor(active) == IF active THEN "active title" ELSE "title"

TitleBar ==
  /\ At("title")
  /\ VBE_DrawRect(W.x, W.y, W.w, W.y + TitleHeight, TitleColor(W.active))
  /\ Go("left")
  /\ UNCHANGED <<line, window, id, i>>

Border(step, a, b, then) ==
  /\ At(step)
  /\ VBE_DrawLine(a, b, "border")
  /\ Go(then)
  /\ UNCHANGED <<fb, window, id>>

Borders ==
  \/ Border("left", <<W.x, W.y + TitleHeight>>, <<W.x, W.h>>, "right")
       /\ UNCHANGED i
  \/ Border("right", <<W.w - 1, W.y + TitleHeight>>, <<W.w - 1, W.h>>, "bottom")
       /\ UNCHANGED i
  \/ Border("bottom", <<W.x, W.h>>, <<W.w - 1, W.h>>, "window") /\ i' = i + 1

\* Spaces do not advance the column, so the indentation of the rows is skipped;
\* "0" leaves its pixel alone.
MouseRow(r) ==
  IF r \in DOMAIN mouse_t THEN SelectSeq(mouse_t[r], LAMBDA c : c # " ") ELSE <<>>

\* The pixels the mouse should have are those of the bitmap.
ASSUME MouseAssumption ==
  \A pt \in Points :
    LET x == pt[1] - MouseAt[1]
        row == MouseRow(pt[2] - MouseAt[2])
    IN /\ pt \in BlackPixels <=> x \in DOMAIN row /\ row[x] = "1"
       /\ pt \in WhitePixels <=> x \in DOMAIN row /\ row[x] \notin {"0", "1"}

Mouse(f) ==
  [p \in Pixels |->
     LET x == (p % Width) - MouseAt[1]
         row == MouseRow((p \div Width) - MouseAt[2])
     IN IF x \notin DOMAIN row \/ row[x] = "0" THEN f[p]
        ELSE IF row[x] = "1" THEN "black" ELSE "white"]

GUI_DrawMouse ==
  /\ At("mouse")
  /\ fb' = Mouse(fb)
  /\ Go("shown")
  /\ UNCHANGED <<line, window, id, i>>

\* The end of one turn of the loop of GUI_Init.
Again ==
  /\ At("shown")
  /\ Go("desktop")
  /\ UNCHANGED <<fb, line, window, id, i>>

Drawing == LineStep /\ UNCHANGED <<window, id, i, pc>>

guiInit ==
  /\ fb = [p \in Pixels |-> "memory"]
  /\ line = [Locals(<<0, 0>>, <<0, 0>>, "line") EXCEPT !.cnt = 0]
  /\ window = [s \in Slots |-> Unused]
  /\ id = 1
  /\ i = 0
  /\ pc = "start"

guiNext ==
  \/ ClientLine \/ ClearTable
  \/ Create("first", "second") \/ Create("second", "desktop")
  \/ GUI_DrawDesktop \/ GUI_DrawTaskBar
  \/ NextWindow \/ MainWindow \/ TitleBar \/ Borders
  \/ Drawing
  \/ GUI_DrawMouse \/ Again

guiSpec == guiInit /\ [][guiNext]_guiVars

-----------------------------------------------------------------------------
(* Properties.                                                             *)

Colors == {"memory", "line", "desktop", "taskbar", "body", "title",
           "active title", "border", "black", "white"}

guiTypeOK ==
  /\ fb \in [Pixels -> Colors]
  /\ line.cnt \in 0 .. line.m + 1
  /\ line.k \in 0 .. line.m
  /\ window \in [Slots -> [id : 0 .. 2, x : 0 .. Width, y : 0 .. Height,
                           w : 0 .. Width, h : 0 .. Height, active : BOOLEAN]]
  /\ i \in 0 .. MAX_WINDOWS

\* The colour the user should see at (px, py) of a window that covers it: the
\* borders below the title bar, the bottom border on row h, one below the area.
Covers(w, px, py) == w.id # 0 /\ px \in w.x .. w.w - 1 /\ py \in w.y .. w.h

WindowColor(w, latest, px, py) ==
  IF py = w.h \/ (px \in {w.x, w.w - 1} /\ py >= w.y + TitleHeight) THEN "border"
  ELSE IF py >= w.y + TitleHeight THEN "body"
  ELSE IF w.id = latest THEN "active title" ELSE "title"

Seen(px, py) ==
  LET above == {s \in Slots : Covers(window[s], px, py)}
  IN IF <<px, py>> \in BlackPixels THEN "black"
     ELSE IF <<px, py>> \in WhitePixels THEN "white"
     ELSE IF above # {} THEN WindowColor(window[Max(above)], id - 1, px, py)
     ELSE IF py < TaskBarHeight THEN "taskbar" ELSE "desktop"

\* Each turn leaves the picture of overlapping windows, whatever was in the
\* frame buffer: the later window on top, only the latest with an active title
\* bar, lines without gaps, and nothing drawn outside a window and its border.
PictureIsRight ==
  pc = "shown" => \A pt \in Points : fb[pt[2] * Width + pt[1]] = Seen(pt[1], pt[2])
=============================================================================
