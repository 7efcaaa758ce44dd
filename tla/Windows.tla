------------------------------ MODULE Windows ------------------------------
(***************************************************************************)
(* kernel/src/gui/display_driver.cpp, what of it decides which window gets   *)
(* the mouse, with kdc_mouse_handler of main.cpp above it and the window     *)
(* calls of syscall_handler.cpp beside it.  The mouse thread works through   *)
(* one state of the mouse action by action, and the programs create, resize  *)
(* and poll windows between any two: nothing locks the list.                 *)
(*                                                                          *)
(* A window's buffer is its size; what is drawn in it is left out, and so is *)
(* the hook.  Coordinates are the code's: a window's are int, the cursor's   *)
(* u64, and comparing the two converts the int.                              *)
(***************************************************************************)
EXTENDS Integers, Sequences, FiniteSets

CONSTANTS
  Wide,        \* 2 ^ 64, scaled: the numbers of a u64
  TitleBar,    \* height of a title bar
  SpawnAt,     \* where a window is created, in x and y
  ScreenSize,  \* width and height of the screen
  Sizes,       \* <<width, height>> programs ask for
  Reach,       \* how far one packet of the mouse moves: 256
  Moves,       \* <<dx, dy>> of the mouse
  EventSlots,  \* entries of a window's event_queue
  MaxWindows,  \* bound: windows created
  MaxMoves,    \* bound: states of the mouse
  MaxResizes   \* bound: calls of wm_window_resize

ASSUME WindowsAssumption ==
  /\ Wide \in Nat \ {0} /\ TitleBar \in Nat /\ SpawnAt \in Nat /\ ScreenSize \in Nat
  /\ Sizes \subseteq Nat \X Nat /\ EventSlots \in Nat \ {0, 1}
  /\ Reach \in Nat /\ Moves \subseteq (-Reach .. Reach) \X (-Reach .. Reach)
  /\ MaxWindows \in Nat /\ MaxMoves \in Nat /\ MaxResizes \in Nat

(* The edge of a window is an int, which is far below 2 ^ 64.               *)
ASSUME EdgesAssumption ==
  \A s \in Sizes : /\ SpawnAt + MaxMoves * Reach + s[1] < Wide
                    /\ SpawnAt + MaxMoves * Reach + s[2] < Wide

VARIABLES
  windows,    \* wm->windows, in the order they were created
  cursor,     \* wm->cursor
  leftLast, rightLast,  \* s_lmb_last, rmb_last
  todo,       \* calls of wm_handle_mouse_event the mouse thread has still to make
  moves, resizes,       \* counts against the bounds
  slipped     \* the button has come up where the dragged window could not see it

wmVars == <<windows, cursor, leftLast, rightLast, todo, moves, resizes, slipped>>

WindowsInit ==
  /\ windows = <<>> /\ cursor = [x |-> 0, y |-> 0]
  /\ leftLast = FALSE /\ rightLast = FALSE /\ todo = <<>>
  /\ moves = 0 /\ resizes = 0 /\ slipped = FALSE

-----------------------------------------------------------------------------
(* What is under the cursor.                                                 *)
U64(int) == int % Wide
Between(v, low, high) == v > U64(low) /\ v < U64(high)
HitsInside(w) == Between(cursor.x, w.x, w.x + w.width) /\ Between(cursor.y, w.y, w.y + w.height)
HitsFrame(w) == Between(cursor.x, w.x, w.x + w.width) /\ Between(cursor.y, w.y - TitleBar, w.y + w.height)

Under(button) == {i \in DOMAIN windows : IF button = "left" THEN HitsFrame(windows[i]) ELSE HitsInside(windows[i])}
FirstOf(S) == {i \in S : \A j \in S : i <= j}
Dragging == {i \in DOMAIN windows : windows[i].dragging}

(* Mutant: the title bar is not hit when the button comes up. *)
ReleasedInside == FirstOf(Under("right"))

ReleasedOver == FirstOf(Under("left"))

Queued(w, event) ==
  [w EXCEPT !.events = IF Len(@) < EventSlots - 1 THEN Append(@, event) ELSE @]

-----------------------------------------------------------------------------
(* wm_handle_mouse_event, one disjunct a case.                               *)
MoveTo(dx, dy) ==
  /\ windows' = [i \in DOMAIN windows |->
                   IF i \in FirstOf(Dragging) THEN [windows[i] EXCEPT !.x = @ + dx, !.y = @ + dy] ELSE windows[i]]
  /\ cursor' = [x |-> U64(cursor.x + dx), y |-> U64(cursor.y + dy)]
  /\ UNCHANGED slipped

LeftDown ==
  LET hit == FirstOf(Under("left"))
  IN /\ windows' = [i \in DOMAIN windows |->
                      IF i \in hit THEN Queued([windows[i] EXCEPT !.dragging = TRUE, !.active = TRUE], "leftDown")
                      ELSE IF \E h \in hit : i > h THEN windows[i]
                      ELSE [windows[i] EXCEPT !.active = FALSE]]
     /\ UNCHANGED <<cursor, slipped>>

(* A dragged window lets go only if it is the first under the cursor, which  *)
(* it is not when an older window lies there, or when its title bar or its   *)
(* left edge has left the screen and the comparison wraps.                   *)
OutOfReach(d) ==
  \/ windows[d].x < 0 \/ windows[d].y < TitleBar
  \/ \E i \in 1 .. d - 1 : HitsFrame(windows[i])

LeftUp ==
  /\ windows' = [i \in DOMAIN windows |->
                   IF i \in ReleasedOver THEN Queued([windows[i] EXCEPT !.dragging = FALSE], "leftUp")
                   ELSE windows[i]]
  /\ slipped' = (slipped \/ \E d \in Dragging : OutOfReach(d))
  /\ UNCHANGED cursor

RightButton(event) ==
  /\ windows' = [i \in DOMAIN windows |->
                   IF i \in FirstOf(Under("right")) THEN Queued(windows[i], event) ELSE windows[i]]
  /\ UNCHANGED <<cursor, slipped>>

-----------------------------------------------------------------------------
(* kdc_mouse_handler.                                                        *)
Calls(s) ==
  (IF s.dx # 0 \/ s.dy # 0 THEN <<[call |-> "move", dx |-> s.dx, dy |-> s.dy]>> ELSE <<>>)
  \o (IF s.left # leftLast THEN <<[call |-> IF s.left THEN "leftDown" ELSE "leftUp"]>> ELSE <<>>)
  \o (IF s.right # rightLast THEN <<[call |-> IF s.right THEN "rightDown" ELSE "rightUp"]>> ELSE <<>>)

HandleMouse(s) ==
  /\ todo = <<>> /\ moves < MaxMoves
  /\ todo' = Calls(s) /\ moves' = moves + 1
  /\ leftLast' = s.left /\ rightLast' = s.right
  /\ UNCHANGED <<windows, cursor, resizes, slipped>>

HandleEvent ==
  /\ todo # <<>>
  /\ todo' = Tail(todo)
  /\ LET c == Head(todo).call
     IN \/ c = "move" /\ MoveTo(Head(todo).dx, Head(todo).dy)
        \/ c = "leftDown" /\ LeftDown
        \/ c = "leftUp" /\ LeftUp
        \/ c \in {"rightDown", "rightUp"} /\ RightButton(c)
  /\ UNCHANGED <<leftLast, rightLast, moves, resizes>>

-----------------------------------------------------------------------------
(* The calls of the programs.                                                *)
AllocateWindow(w, h) ==
  /\ Len(windows) < MaxWindows
  /\ windows' = Append(windows, [x |-> SpawnAt, y |-> SpawnAt, width |-> w, height |-> h, buffer |-> w * h,
                                 dragging |-> FALSE, active |-> FALSE, events |-> <<>>])
  /\ UNCHANGED <<cursor, leftLast, rightLast, todo, moves, resizes, slipped>>

(* The old buffer is gone before the new one is asked for; without one the   *)
(* window keeps its size.                                                    *)
WindowResize(i, w, h, fails) ==
  /\ resizes < MaxResizes /\ resizes' = resizes + 1
  /\ windows' = IF w > ScreenSize \/ h > ScreenSize THEN windows
                ELSE IF fails THEN [windows EXCEPT ![i].buffer = 0]
                ELSE [windows EXCEPT ![i].buffer = w * h, ![i].width = w, ![i].height = h]
  /\ slipped' = (slipped \/ windows[i].dragging)
  /\ UNCHANGED <<cursor, leftLast, rightLast, todo, moves>>

PollEvent(i) ==
  /\ windows[i].events # <<>>
  /\ windows' = [windows EXCEPT ![i].events = Tail(@)]
  /\ UNCHANGED <<cursor, leftLast, rightLast, todo, moves, resizes, slipped>>

WindowsNext ==
  \/ \E m \in Moves, left, right \in BOOLEAN :
       HandleMouse([dx |-> m[1], dy |-> m[2], left |-> left, right |-> right])
  \/ HandleEvent
  \/ \E s \in Sizes : AllocateWindow(s[1], s[2])
  \/ \E i \in DOMAIN windows, s \in Sizes, fails \in BOOLEAN : WindowResize(i, s[1], s[2], fails)
  \/ \E i \in DOMAIN windows : PollEvent(i)

WindowsSpec == WindowsInit /\ [][WindowsNext]_wmVars

-----------------------------------------------------------------------------
(* A window is dragged only while the left button is down, and no two are,   *)
(* as long as every release was within reach of the window dragged: its      *)
(* frame on the screen and no older window over the cursor                   *)
(* (wm_handle_mouse_event hits the title bar on the way up too).             *)
DragEndsWithTheButton ==
  ~slipped =>
    /\ Cardinality(Dragging) <= 1
    /\ \A d \in Dragging : leftLast \/ \E k \in DOMAIN todo : todo[k].call = "leftUp"

=============================================================================
