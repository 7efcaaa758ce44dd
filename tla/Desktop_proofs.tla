---------------------------- MODULE Desktop_proofs ----------------------------
(***************************************************************************)
(* For any number of windows, moves, resizes and sizes: a window is dragged  *)
(* only while the left button is down, and never two at once.  The cursor   *)
(* and the dragged window move together, so the point where the window was   *)
(* gripped stays under the cursor, although one counts in u64 and the other  *)
(* in int.  When the button comes up within reach, the window under that     *)
(* point is the one that lets go.                                            *)
(*                                                                          *)
(* For any packets, losses and bounds: the mouse driver finds its packets    *)
(* again.  Bytes carry the place they had when they were sent, so the last   *)
(* `calm` of them, between which nothing was lost, are next to each other;   *)
(* with enough of them behind it the buffer begins where a packet does.      *)
(***************************************************************************)
EXTENDS Mouse, Windows, SequenceTheorems, FiniteSetTheorems, TLAPS

-----------------------------------------------------------------------------
(* Windows: the invariant                                                   *)

EventType == {"leftDown", "leftUp", "rightDown", "rightUp"}

WindowType ==
  [x : Int, y : Int, width : Nat, height : Nat, buffer : Int,
   dragging : BOOLEAN, active : BOOLEAN, events : Seq(EventType)]

CallType ==
  [call : {"move"}, dx : -Reach .. Reach, dy : -Reach .. Reach]
    \union [call : EventType]

IsLeft(c) == c.call \in {"leftDown", "leftUp"}

(* What the mouse thread has still to do for one state of the mouse.        *)
TodoInv ==
  /\ todo \in Seq(CallType)
  /\ \A k \in DOMAIN todo : todo[k].call = "move" => k = 1
  /\ \A j, k \in DOMAIN todo : IsLeft(todo[j]) /\ IsLeft(todo[k]) => j = k
  /\ \A k \in DOMAIN todo : todo[k].call = "leftDown" => leftLast

(* Windows move as far as the mouse does.                                   *)
Far(n) == SpawnAt + n * Reach
Travelled == IF todo # <<>> /\ todo[1].call = "move" THEN moves - 1 ELSE moves
Near(w, n) ==
  /\ w.x <= Far(n) /\ w.y <= Far(n)
  /\ \E s \in Sizes : w.width = s[1] /\ w.height = s[2]

(* The point of a dragged window that is under the cursor.                  *)
Gripped(w, at) ==
  \E ox, oy \in Nat :
    /\ 0 < ox /\ ox < w.width /\ 0 < oy /\ oy < w.height + TitleBar
    /\ at.x = U64(w.x + ox) /\ at.y = U64(w.y - TitleBar + oy)

(* The button is down, or the window will hear that it is not.              *)
Pressed ==
  \/ \E k \in DOMAIN todo : todo[k].call = "leftUp"
  \/ leftLast /\ \A k \in DOMAIN todo : todo[k].call # "leftDown"

DragInv ==
  ~slipped => /\ \A c, d \in Dragging : c = d
              /\ \A d \in Dragging : Gripped(windows[d], cursor)
              /\ Dragging # {} => Pressed

WmInv ==
  /\ windows \in Seq(WindowType)
  /\ cursor \in [x : 0 .. Wide - 1, y : 0 .. Wide - 1]
  /\ leftLast \in BOOLEAN /\ rightLast \in BOOLEAN /\ slipped \in BOOLEAN
  /\ moves \in 0 .. MaxMoves
  /\ todo # <<>> => moves > 0
  /\ TodoInv
  /\ \A i \in DOMAIN windows : Near(windows[i], Travelled)
  /\ DragInv

-----------------------------------------------------------------------------
(* Windows: the numbers of a u64                                            *)

LEMMA Quotient ==
  ASSUME NEW v \in Int
  PROVE  \E q \in Int : v = q * Wide + U64(v) /\ U64(v) \in 0 .. Wide - 1
<1>1. v % Wide \in 0 .. Wide - 1 /\ v \div Wide \in Int
  BY WindowsAssumption
<1>2. v = (v \div Wide) * Wide + (v % Wide)
  BY WindowsAssumption
<1> QED
  BY <1>1, <1>2 DEF U64

LEMMA Residue ==
  ASSUME NEW v \in Int, NEW q \in Int, NEW r \in 0 .. Wide - 1, v = q * Wide + r
  PROVE  U64(v) = r
<1>1. (q * Wide + r) % Wide = r
  BY WindowsAssumption
<1> QED
  BY <1>1 DEF U64

(* A number below Wide is its own.                                          *)
LEMMA Small ==
  ASSUME NEW v \in 0 .. Wide - 1
  PROVE  U64(v) = v
<1>1. v \in Int /\ v = 0 * Wide + v
  BY WindowsAssumption
<1> QED
  BY <1>1, Residue

(* Moving before the conversion, or after it.                               *)
LEMMA MovesAlong ==
  ASSUME NEW v \in Int, NEW d \in Int
  PROVE  U64(U64(v) + d) = U64(v + d)
<1>1. PICK q \in Int : v = q * Wide + U64(v) /\ U64(v) \in 0 .. Wide - 1
  BY Quotient
<1>2. U64(v) + d \in Int
  BY <1>1
<1>3. PICK p \in Int : U64(v) + d = p * Wide + U64(U64(v) + d) /\ U64(U64(v) + d) \in 0 .. Wide - 1
  BY <1>2, Quotient
<1> DEFINE r == U64(U64(v) + d)
<1>4. v + d = (q + p) * Wide + r
  <2> HIDE DEF r
  <2>1. Wide \in Int /\ q \in Int /\ p \in Int /\ r \in Int /\ (q + p) * Wide = q * Wide + p * Wide
    BY <1>3, WindowsAssumption DEF r
  <2>2. v + d = q * Wide + (U64(v) + d)
    BY <1>1, <2>1
  <2>3. U64(v) + d = p * Wide + r
    BY <1>3 DEF r
  <2> QED
    BY <2>1, <2>2, <2>3
<1>5. v + d \in Int /\ q + p \in Int
  OBVIOUS
<1> QED
  BY <1>3, <1>4, <1>5, Residue

(* What lies between two edges is at some distance from the first, however   *)
(* the edges wrap.                                                          *)
LEMMA BetweenEdges ==
  ASSUME NEW v \in Int, NEW n \in Nat, NEW c \in 0 .. Wide - 1, Between(c, v, v + n)
  PROVE  \E o \in Nat : 0 < o /\ o < n /\ c = U64(v + o)
<1> DEFINE a == U64(v)  b == U64(v + n)
<1>1. Wide \in Int /\ Wide > 0
  BY WindowsAssumption
<1>2. PICK q \in Int : v = q * Wide + a /\ a \in 0 .. Wide - 1
  BY Quotient
<1>3. PICK p \in Int : v + n = p * Wide + b /\ b \in 0 .. Wide - 1
  BY Quotient
<1>4. a < c /\ c < b
  BY DEF Between
<1> HIDE DEF a, b
<1>5. n = (p - q) * Wide + (b - a)
  BY <1>1, <1>2, <1>3
<1>6. (p - q) * Wide >= 0
  <2>1. CASE p - q >= 0
    BY <2>1, <1>1
  <2>2. CASE p - q <= -1
    <3>1. (p - q) * Wide <= -Wide
      BY <2>2, <1>1
    <3> QED
      BY <3>1, <1>1, <1>2, <1>3, <1>5
  <2> QED
    BY <2>1, <2>2
<1>7. c - a \in Nat /\ 0 < c - a /\ c - a < n
  BY <1>1, <1>2, <1>3, <1>4, <1>5, <1>6
<1>8. v + (c - a) \in Int /\ v + (c - a) = q * Wide + c
  BY <1>1, <1>2
<1>9. c = U64(v + (c - a))
  BY <1>8, Residue
<1> QED
  BY <1>7, <1>9

(* On the screen nothing wraps.                                             *)
LEMMA OnScreen ==
  ASSUME NEW v \in Nat, NEW n \in Nat, v + n < Wide, NEW o \in Nat, 0 < o, o < n
  PROVE  Between(U64(v + o), v, v + n)
<1>1. v \in 0 .. Wide - 1 /\ v + o \in 0 .. Wide - 1 /\ v + n \in 0 .. Wide - 1
  BY WindowsAssumption
<1>2. U64(v) = v /\ U64(v + o) = v + o /\ U64(v + n) = v + n
  BY <1>1, Small
<1> QED
  BY <1>2 DEF Between

LEMMA FarGrows ==
  ASSUME NEW m \in 0 .. MaxMoves, NEW n \in m .. MaxMoves
  PROVE  /\ Far(m) \in Nat /\ SpawnAt <= Far(m) /\ Far(m) <= Far(n)
         /\ Far(n) <= Far(MaxMoves)
         /\ n = m + 1 => Far(n) = Far(m) + Reach
<1>1. m \in Nat /\ n \in Nat /\ n - m \in Nat /\ MaxMoves - n \in Nat
      /\ Reach \in Nat /\ SpawnAt \in Nat /\ MaxMoves \in Nat
  BY WindowsAssumption
<1>2. \A k \in Nat : k * Reach \in Nat
  BY <1>1
<1>3. (n - m) * Reach = n * Reach - m * Reach /\ (MaxMoves - n) * Reach = MaxMoves * Reach - n * Reach
  BY <1>1
<1>4. n = m + 1 => (n - m) * Reach = Reach
  BY <1>1
<1>5. /\ m * Reach \in Nat /\ n * Reach \in Nat /\ MaxMoves * Reach \in Nat
      /\ (n - m) * Reach \in Nat /\ (MaxMoves - n) * Reach \in Nat
  BY <1>1, <1>2
<1> DEFINE a == m * Reach  b == n * Reach  c == MaxMoves * Reach
<1> HIDE DEF a, b, c
<1>6. /\ a \in Nat /\ b \in Nat /\ c \in Nat /\ b - a \in Nat /\ c - b \in Nat
      /\ n = m + 1 => b - a = Reach
  BY <1>3, <1>4, <1>5 DEF a, b, c
<1>7. Far(m) = SpawnAt + a /\ Far(n) = SpawnAt + b /\ Far(MaxMoves) = SpawnAt + c
  BY DEF Far, a, b, c
<1>8. /\ SpawnAt + a \in Nat /\ SpawnAt <= SpawnAt + a /\ SpawnAt + a <= SpawnAt + b
      /\ SpawnAt + b <= SpawnAt + c /\ n = m + 1 => SpawnAt + b = SpawnAt + a + Reach
  BY <1>1, <1>6
<1> HIDE DEF Far
<1> QED
  BY <1>1, <1>6, <1>7, <1>8

-----------------------------------------------------------------------------
(* Windows: what the steps leave alone                                      *)

LEMMA WindowFields ==
  ASSUME windows \in Seq(WindowType), NEW i \in DOMAIN windows
  PROVE  /\ windows[i] \in WindowType
         /\ windows[i].x \in Int /\ windows[i].y \in Int
         /\ windows[i].width \in Nat /\ windows[i].height \in Nat /\ windows[i].dragging \in BOOLEAN
<1>1. windows[i] \in WindowType
  BY LenProperties, ElementOfSeq
<1> QED
  BY <1>1 DEF WindowType

(* A window for each window.                                                *)
LEMMA ForEach ==
  ASSUME windows \in Seq(WindowType), NEW f \in [DOMAIN windows -> WindowType]
  PROVE  f \in Seq(WindowType) /\ DOMAIN f = DOMAIN windows
<1>1. Len(windows) \in Nat /\ DOMAIN windows = 1 .. Len(windows)
  BY LenProperties
<1> QED
  BY <1>1

LEMMA QueuedSame ==
  ASSUME NEW w \in WindowType, NEW event \in EventType
  PROVE  /\ Queued(w, event) \in WindowType
         /\ Queued(w, event).x = w.x /\ Queued(w, event).y = w.y
         /\ Queued(w, event).width = w.width /\ Queued(w, event).height = w.height
         /\ Queued(w, event).dragging = w.dragging
<1>1. w.events \in Seq(EventType)
  BY DEF WindowType
<1>2. PICK q \in Seq(EventType) : q = IF Len(w.events) < EventSlots - 1 THEN Append(w.events, event) ELSE w.events
  BY <1>1, AppendProperties
<1>3. Queued(w, event) = [w EXCEPT !.events = q]
  BY <1>2 DEF Queued, WindowType
<1> QED
  BY <1>3 DEF WindowType

LEMMA SameGrip ==
  ASSUME NEW w, NEW v, NEW at, v.x = w.x, v.y = w.y, v.width = w.width, v.height = w.height, Gripped(w, at)
  PROVE  Gripped(v, at)
BY DEF Gripped

LEMMA TravelledIs ==
  ASSUME WmInv
  PROVE  /\ Travelled \in 0 .. MaxMoves /\ Travelled \in moves - 1 .. moves
         /\ todo = <<>> => Travelled = moves
BY WindowsAssumption DEF WmInv, Travelled

(* Windows that stay where they are stay in reach.                          *)
LEMMA NearStays ==
  ASSUME WmInv, Travelled' \in Travelled .. MaxMoves, DOMAIN windows' = DOMAIN windows,
         \A i \in DOMAIN windows : /\ windows'[i].x = windows[i].x /\ windows'[i].y = windows[i].y
                                   /\ windows'[i].width = windows[i].width
                                   /\ windows'[i].height = windows[i].height
  PROVE  \A i \in DOMAIN windows' : Near(windows'[i], Travelled')
<1>0. PICK m \in 0 .. MaxMoves : m = Travelled
  BY TravelledIs
<1>1. PICK n \in m .. MaxMoves : n = Travelled'
  BY <1>0
<1>2. Far(m) <= Far(n) /\ Far(m) \in Nat /\ Far(n) \in Nat
  BY FarGrows
<1> SUFFICES ASSUME NEW i \in DOMAIN windows PROVE Near(windows'[i], n)
  BY <1>1
<1>3. Near(windows[i], m) /\ windows[i].x \in Int /\ windows[i].y \in Int
  BY <1>0, WindowFields DEF WmInv
<1> QED
  BY <1>2, <1>3 DEF Near

-----------------------------------------------------------------------------
(* Windows: one state of the mouse                                          *)

MouseState == [dx : -Reach .. Reach, dy : -Reach .. Reach, left : BOOLEAN, right : BOOLEAN]

Answers(q, s) ==
  /\ q \in Seq(CallType)
  /\ \A k \in DOMAIN q : q[k].call = "move" => k = 1
  /\ \A j, k \in DOMAIN q : IsLeft(q[j]) /\ IsLeft(q[k]) => j = k
  /\ \A k \in DOMAIN q : q[k].call = "leftDown" => s.left
  /\ s.left = leftLast => \A k \in DOMAIN q : q[k].call # "leftDown"
  /\ s.left # leftLast /\ ~s.left => \E k \in DOMAIN q : q[k].call = "leftUp"

LEMMA CallsOfAState ==
  ASSUME NEW s \in MouseState
  PROVE  Answers(Calls(s), s)
<1>0. PICK dx \in -Reach .. Reach, dy \in -Reach .. Reach, left \in BOOLEAN, right \in BOOLEAN :
        dx = s.dx /\ dy = s.dy /\ left = s.left /\ right = s.right
  BY DEF MouseState
<1> PICK q : q = Calls(s)
  OBVIOUS
<1> DEFINE move == [call |-> "move", dx |-> dx, dy |-> dy]
           button == [call |-> IF left THEN "leftDown" ELSE "leftUp"]
           other == [call |-> IF right THEN "rightDown" ELSE "rightUp"]
           A == IF dx # 0 \/ dy # 0 THEN <<move>> ELSE <<>>
           B == IF left # leftLast THEN <<button>> ELSE <<>>
           C == IF right # rightLast THEN <<other>> ELSE <<>>
<1>1. move \in CallType /\ button \in CallType /\ other \in CallType
  BY DEF CallType, EventType
<1>2. /\ move.call = "move" /\ other.call \in {"rightDown", "rightUp"}
      /\ button.call = IF left THEN "leftDown" ELSE "leftUp"
  OBVIOUS
<1> HIDE DEF move, button, other
<1>3. q = (A \o B) \o C
  BY <1>0 DEF Calls, move, button, other
<1>4. /\ A \in Seq(CallType) /\ Len(A) \in {0, 1} /\ (Len(A) = 1 => A[1] = move)
      /\ B \in Seq(CallType) /\ Len(B) = (IF left # leftLast THEN 1 ELSE 0) /\ (Len(B) = 1 => B[1] = button)
      /\ C \in Seq(CallType) /\ Len(C) \in {0, 1} /\ (Len(C) = 1 => C[1] = other)
  BY <1>1
<1> HIDE DEF A, B, C
<1>5. PICK a \in {0, 1}, b \in {0, 1}, c \in {0, 1} : a = Len(A) /\ b = Len(B) /\ c = Len(C)
  BY <1>4
<1> DEFINE D == A \o B
<1>6. /\ D \in Seq(CallType) /\ Len(D) = a + b
      /\ \A k \in 1 .. a + b : D[k] = IF k <= a THEN A[k] ELSE B[k - a]
  BY <1>4, <1>5, ConcatProperties
<1> HIDE DEF D
<1>7. /\ q \in Seq(CallType) /\ Len(q) = a + b + c
      /\ \A k \in 1 .. a + b + c : q[k] = IF k <= a + b THEN D[k] ELSE C[k - (a + b)]
  <2>1. q = D \o C
    BY <1>3 DEF D
  <2>2. /\ D \o C \in Seq(CallType) /\ Len(D \o C) = Len(D) + Len(C)
        /\ \A k \in 1 .. Len(D) + Len(C) : (D \o C)[k] = IF k <= Len(D) THEN D[k] ELSE C[k - Len(D)]
    BY <1>4, <1>6, ConcatProperties
  <2> QED
    BY <1>5, <1>6, <2>1, <2>2
<1>8. DOMAIN q = 1 .. a + b + c
  BY <1>7, LenProperties
<1>9. ASSUME NEW k \in DOMAIN q
      PROVE  \/ k = 1 /\ q[k] = move
             \/ k = a + 1 /\ q[k] = button /\ left # leftLast
             \/ k = a + b + 1 /\ q[k] = other
  <2>0. k \in 1 .. a + b + c
    BY <1>8
  <2>1. CASE k <= a
    <3>1. k = 1 /\ a = 1 /\ k \in 1 .. a + b
      BY <2>0, <2>1
    <3>2. q[k] = A[1]
      BY <2>0, <2>1, <3>1, <1>6, <1>7
    <3> QED
      BY <3>1, <3>2, <1>4, <1>5
  <2>2. CASE a < k /\ k <= a + b
    <3>1. k = a + 1 /\ b = 1 /\ k \in 1 .. a + b /\ k - a = 1
      BY <2>0, <2>2
    <3>2. ~(k <= a)
      BY <2>0, <2>2
    <3>3. D[k] = B[k - a]
      BY <3>1, <3>2, <1>6
    <3>4. q[k] = D[k]
      BY <2>0, <2>2, <1>7
    <3>5. q[k] = B[1]
      BY <3>1, <3>3, <3>4
    <3> QED
      BY <3>1, <3>5, <1>4, <1>5
  <2>3. CASE k > a + b
    <3>1. k = a + b + 1 /\ c = 1 /\ k - (a + b) = 1
      BY <2>0, <2>3
    <3>2. ~(k <= a + b)
      BY <2>0, <2>3
    <3>3. q[k] = C[k - (a + b)]
      BY <2>0, <3>2, <1>7
    <3>4. q[k] = C[1]
      BY <3>1, <3>3
    <3> QED
      BY <3>1, <3>4, <1>4, <1>5
  <2> QED
    BY <2>0, <2>1, <2>2, <2>3
<1>10. left # leftLast => a + 1 \in DOMAIN q /\ q[a + 1] = button
  <2>1. SUFFICES ASSUME left # leftLast PROVE a + 1 \in DOMAIN q /\ q[a + 1] = button
    OBVIOUS
  <2>2. b = 1 /\ B[1] = button
    BY <2>1, <1>4, <1>5
  <2>3. a + 1 \in 1 .. a + b /\ a + 1 \in 1 .. a + b + c /\ (a + 1) - a = 1
    BY <2>2
  <2>5. ~(a + 1 <= a) /\ a + 1 <= a + b
    BY <2>2
  <2>6. D[a + 1] = B[1]
    BY <2>3, <2>5, <1>6
  <2>4. a + 1 \in DOMAIN q /\ q[a + 1] = B[1]
    BY <2>3, <2>5, <2>6, <1>7, <1>8
  <2> QED
    BY <2>2, <2>4
<1>11. \A k \in DOMAIN q : /\ q[k].call = "move" => k = 1
                           /\ IsLeft(q[k]) => k = a + 1 /\ q[k] = button /\ left # leftLast
  BY <1>2, <1>9 DEF IsLeft
<1>12. \A k \in DOMAIN q : q[k].call = "leftDown" => left /\ left # leftLast
  BY <1>2, <1>11 DEF IsLeft
<1>13. left # leftLast /\ ~left => \E k \in DOMAIN q : q[k].call = "leftUp"
  BY <1>2, <1>10
<1>14. \A j, k \in DOMAIN q : IsLeft(q[j]) /\ IsLeft(q[k]) => j = k
  BY <1>11
<1> QED
  BY <1>0, <1>7, <1>11, <1>12, <1>13, <1>14 DEF Answers

LEMMA HandleMouseKeeps ==
  ASSUME WmInv, NEW m \in Moves, NEW left \in BOOLEAN, NEW right \in BOOLEAN,
         HandleMouse([dx |-> m[1], dy |-> m[2], left |-> left, right |-> right])
  PROVE  WmInv'
<1> DEFINE s == [dx |-> m[1], dy |-> m[2], left |-> left, right |-> right]
<1>1. /\ todo = <<>> /\ moves \in 0 .. MaxMoves - 1 /\ moves' = moves + 1
      /\ todo' = Calls(s) /\ leftLast' = left /\ rightLast' = right
      /\ UNCHANGED <<windows, cursor, slipped>>
  BY WindowsAssumption DEF HandleMouse, WmInv
<1>2. m[1] \in -Reach .. Reach /\ m[2] \in -Reach .. Reach
  BY WindowsAssumption
<1>3. /\ todo' \in Seq(CallType)
      /\ \A k \in DOMAIN todo' : todo'[k].call = "move" => k = 1
      /\ \A j, k \in DOMAIN todo' : IsLeft(todo'[j]) /\ IsLeft(todo'[k]) => j = k
      /\ \A k \in DOMAIN todo' : todo'[k].call = "leftDown" => left
      /\ left = leftLast => \A k \in DOMAIN todo' : todo'[k].call # "leftDown"
      /\ left # leftLast /\ ~left => \E k \in DOMAIN todo' : todo'[k].call = "leftUp"
  <2>1. s \in MouseState
    BY <1>2 DEF MouseState
  <2>2. Answers(todo', s) /\ s.left = left
    BY <1>1, <2>1, CallsOfAState
  <2> QED
    BY <2>2 DEF Answers
<1>4. TodoInv'
  BY <1>1, <1>3 DEF TodoInv, IsLeft
<1>5. Travelled' \in Travelled .. MaxMoves
  <2>1. Travelled = moves
    BY <1>1, TravelledIs
  <2>2. Travelled' \in {moves, moves + 1}
    BY <1>1 DEF Travelled
  <2> QED
    BY <1>1, <2>1, <2>2, WindowsAssumption
<1>6. \A i \in DOMAIN windows' : Near(windows'[i], Travelled')
  BY <1>1, <1>5, NearStays
<1>7. DragInv'
  <2>1. Dragging' = Dragging
    BY <1>1 DEF Dragging
  <2>2. ~slipped /\ Dragging # {} => leftLast
    BY <1>1 DEF WmInv, DragInv, Pressed
  <2>3. leftLast => Pressed'
    BY <1>1, <1>3 DEF Pressed
  <2> QED
    BY <1>1, <2>1, <2>2, <2>3 DEF WmInv, DragInv
<1> QED
  BY <1>1, <1>4, <1>6, <1>7, WindowsAssumption DEF WmInv

-----------------------------------------------------------------------------
(* Windows: the events                                                      *)

(* The first call is made, the others stay.                                 *)
LEMMA CallMade ==
  ASSUME WmInv, HandleEvent
  PROVE  /\ todo # <<>> /\ todo[1] \in CallType /\ 1 \in DOMAIN todo
         /\ TodoInv' /\ Travelled' = moves /\ moves \in 1 .. MaxMoves
         /\ Travelled = IF todo[1].call = "move" THEN moves - 1 ELSE moves
         /\ \A k \in DOMAIN todo' : k + 1 \in DOMAIN todo /\ todo'[k] = todo[k + 1]
         /\ \A k \in DOMAIN todo : k # 1 => k - 1 \in DOMAIN todo' /\ todo'[k - 1] = todo[k]
         /\ UNCHANGED <<leftLast, rightLast, moves>>
         /\ \/ todo[1].call = "move" /\ MoveTo(todo[1].dx, todo[1].dy)
            \/ todo[1].call = "leftDown" /\ LeftDown
            \/ todo[1].call = "leftUp" /\ LeftUp
            \/ \E event \in {"rightDown", "rightUp"} : todo[1].call = event /\ RightButton(event)
<1>1. /\ todo # <<>> /\ todo' = Tail(todo) /\ todo \in Seq(CallType)
      /\ UNCHANGED <<leftLast, rightLast, moves>>
  BY DEF HandleEvent, WmInv, TodoInv
<1>2. Len(todo) \in Nat \ {0} /\ DOMAIN todo = 1 .. Len(todo) /\ Head(todo) = todo[1]
  BY <1>1, EmptySeq, LenProperties
<1>3. todo[1] \in CallType
  BY <1>1, <1>2, ElementOfSeq
<1>4. /\ todo' \in Seq(CallType) /\ DOMAIN todo' = 1 .. Len(todo) - 1
      /\ \A k \in 1 .. Len(todo) - 1 : todo'[k] = todo[k + 1]
  BY <1>1, <1>2, HeadTailProperties, LenProperties
<1>5. \A k \in DOMAIN todo' : k + 1 \in DOMAIN todo /\ k # 0 /\ todo'[k] = todo[k + 1]
  BY <1>2, <1>4
<1>6. \A k \in DOMAIN todo : k # 1 => k - 1 \in DOMAIN todo' /\ todo'[k - 1] = todo[k]
  <2> SUFFICES ASSUME NEW k \in DOMAIN todo, k # 1 PROVE k - 1 \in DOMAIN todo' /\ todo'[k - 1] = todo[k]
    OBVIOUS
  <2>1. k - 1 \in 1 .. Len(todo) - 1 /\ (k - 1) + 1 = k
    BY <1>2
  <2> QED
    BY <2>1, <1>4
<1>7. \A k \in DOMAIN todo' : k + 1 # 1 /\ k \in Int
  BY <1>2, <1>4
<1>8. TodoInv'
  <2>1. \A k \in DOMAIN todo' : todo'[k].call # "move"
    BY <1>5, <1>7 DEF WmInv, TodoInv
  <2>2. \A j, k \in DOMAIN todo' : IsLeft(todo'[j]) /\ IsLeft(todo'[k]) => j + 1 = k + 1
    BY <1>5 DEF WmInv, TodoInv
  <2>3. \A j, k \in DOMAIN todo' : j + 1 = k + 1 => j = k
    BY <1>7
  <2>4. \A k \in DOMAIN todo' : todo'[k].call = "leftDown" => leftLast
    BY <1>5 DEF WmInv, TodoInv
  <2>5. \A j, k \in DOMAIN todo' : IsLeft(todo'[j]) /\ IsLeft(todo'[k]) => j = k
    BY <2>2, <2>3
  <2> QED
    BY <1>1, <1>4, <2>1, <2>4, <2>5 DEF TodoInv, IsLeft
<1>9. Travelled' = moves
  <2>1. todo' # <<>> => 1 \in DOMAIN todo'
    BY <1>4, EmptySeq, LenProperties
  <2>2. todo' # <<>> => todo'[1].call # "move"
    BY <2>1, <1>5, <1>7 DEF WmInv, TodoInv
  <2> QED
    BY <1>1, <2>2 DEF Travelled
<1>10. moves \in 1 .. MaxMoves /\ Travelled = IF todo[1].call = "move" THEN moves - 1 ELSE moves
  BY <1>1, WindowsAssumption DEF Travelled, WmInv
<1>11. \/ todo[1].call = "move" /\ MoveTo(todo[1].dx, todo[1].dy)
       \/ todo[1].call = "leftDown" /\ LeftDown
       \/ todo[1].call = "leftUp" /\ LeftUp
       \/ \E event \in {"rightDown", "rightUp"} : todo[1].call = event /\ RightButton(event)
  BY <1>2 DEF HandleEvent
<1>12. 1 \in DOMAIN todo
  BY <1>2
<1> QED
  BY <1>1, <1>3, <1>5, <1>6, <1>8, <1>9, <1>10, <1>11, <1>12

LEMMA PressedStays ==
  ASSUME WmInv, HandleEvent, ~IsLeft(todo[1]), Pressed
  PROVE  Pressed'
<1>1. /\ \A k \in DOMAIN todo' : k + 1 \in DOMAIN todo /\ todo'[k] = todo[k + 1]
      /\ \A k \in DOMAIN todo : k # 1 => k - 1 \in DOMAIN todo' /\ todo'[k - 1] = todo[k]
      /\ leftLast' = leftLast
  BY CallMade
<1>2. (\E k \in DOMAIN todo : todo[k].call = "leftUp") => \E k \in DOMAIN todo' : todo'[k].call = "leftUp"
  BY <1>1 DEF IsLeft
<1>3. (\A k \in DOMAIN todo : todo[k].call # "leftDown") => \A k \in DOMAIN todo' : todo'[k].call # "leftDown"
  BY <1>1
<1> QED
  BY <1>1, <1>2, <1>3 DEF Pressed

(* The window that is dragged and the cursor move together.                 *)
LEMMA GripMoves ==
  ASSUME NEW w \in WindowType, NEW v \in WindowType, NEW c, NEW e, NEW dx \in Int, NEW dy \in Int,
         v.x = w.x + dx, v.y = w.y + dy, v.width = w.width, v.height = w.height,
         e.x = U64(c.x + dx), e.y = U64(c.y + dy), Gripped(w, c)
  PROVE  Gripped(v, e)
<1>1. PICK ox \in Nat, oy \in Nat :
        /\ 0 < ox /\ ox < w.width /\ 0 < oy /\ oy < w.height + TitleBar
        /\ c.x = U64(w.x + ox) /\ c.y = U64(w.y - TitleBar + oy)
  BY DEF Gripped
<1>2. w.x \in Int /\ w.y \in Int /\ TitleBar \in Int
  BY WindowsAssumption DEF WindowType
<1>3. /\ (w.x + ox) + dx = (w.x + dx) + ox
      /\ (w.y - TitleBar + oy) + dy = (w.y + dy) - TitleBar + oy
      /\ w.x + ox \in Int /\ w.y - TitleBar + oy \in Int
  BY <1>2
<1>4. e.x = U64(v.x + ox)
  <2>1. U64(U64(w.x + ox) + dx) = U64((w.x + ox) + dx)
    BY <1>3, MovesAlong
  <2>2. (w.x + ox) + dx = v.x + ox
    BY <1>3
  <2> QED
    BY <1>1, <2>1, <2>2
<1>5. e.y = U64(v.y - TitleBar + oy)
  <2>1. U64(U64(w.y - TitleBar + oy) + dy) = U64((w.y - TitleBar + oy) + dy)
    BY <1>3, MovesAlong
  <2>2. (w.y - TitleBar + oy) + dy = v.y - TitleBar + oy
    BY <1>3
  <2> QED
    BY <1>1, <2>1, <2>2
<1> QED
  BY <1>1, <1>4, <1>5 DEF Gripped

LEMMA MoveKeeps ==
  ASSUME WmInv, HandleEvent, todo[1].call = "move"
  PROVE  WmInv'
<1>1. /\ todo[1] \in CallType /\ TodoInv' /\ Travelled' = moves /\ moves \in 1 .. MaxMoves
      /\ Travelled = moves - 1 /\ UNCHANGED <<leftLast, rightLast, moves>>
      /\ MoveTo(todo[1].dx, todo[1].dy)
  BY CallMade
<1>2. PICK dx \in -Reach .. Reach, dy \in -Reach .. Reach : dx = todo[1].dx /\ dy = todo[1].dy
  BY <1>1 DEF CallType, EventType
<1>3. Reach \in Nat /\ dx \in Int /\ dy \in Int
  BY WindowsAssumption
<1>4. /\ windows' = [i \in DOMAIN windows |->
                       IF i \in FirstOf(Dragging) THEN [windows[i] EXCEPT !.x = windows[i].x + dx, !.y = windows[i].y + dy]
                       ELSE windows[i]]
      /\ cursor' = [x |-> U64(cursor.x + dx), y |-> U64(cursor.y + dy)] /\ slipped' = slipped
  <2>1. \A w : [w EXCEPT !.x = @ + dx, !.y = @ + dy] = [w EXCEPT !.x = w.x + dx, !.y = w.y + dy]
    OBVIOUS
  <2> QED
    BY <1>1, <1>2, <2>1 DEF MoveTo
<1>5. ASSUME NEW i \in DOMAIN windows
      PROVE  /\ windows'[i] \in WindowType
             /\ windows'[i].width = windows[i].width /\ windows'[i].height = windows[i].height
             /\ windows'[i].dragging = windows[i].dragging
             /\ i \in FirstOf(Dragging) => windows'[i].x = windows[i].x + dx /\ windows'[i].y = windows[i].y + dy
             /\ windows'[i].x <= windows[i].x + Reach /\ windows'[i].y <= windows[i].y + Reach
  <2>1. windows[i] \in WindowType /\ windows[i].x \in Int /\ windows[i].y \in Int
    BY WindowFields DEF WmInv
  <2>2. \/ windows'[i] = windows[i] /\ i \notin FirstOf(Dragging)
        \/ windows'[i] = [windows[i] EXCEPT !.x = windows[i].x + dx, !.y = windows[i].y + dy]
    BY <1>4
  <2>3. CASE windows'[i] = windows[i] /\ i \notin FirstOf(Dragging)
    BY <1>3, <2>1, <2>3
  <2>4. CASE windows'[i] = [windows[i] EXCEPT !.x = windows[i].x + dx, !.y = windows[i].y + dy]
    <3>1. windows[i].x + dx \in Int /\ windows[i].y + dy \in Int
      BY <1>3, <2>1
    <3>2. /\ windows'[i] \in WindowType
          /\ windows'[i].x = windows[i].x + dx /\ windows'[i].y = windows[i].y + dy
          /\ windows'[i].width = windows[i].width /\ windows'[i].height = windows[i].height
          /\ windows'[i].dragging = windows[i].dragging
      BY <2>1, <2>4, <3>1 DEF WindowType
    <3> QED
      BY <1>3, <2>1, <3>2
  <2> QED
    BY <2>2, <2>3, <2>4
<1>6. windows' \in Seq(WindowType) /\ DOMAIN windows' = DOMAIN windows
  <2>1. windows' \in [DOMAIN windows -> WindowType]
    BY <1>4, <1>5
  <2> QED
    BY <2>1, ForEach DEF WmInv
<1>7. cursor' \in [x : 0 .. Wide - 1, y : 0 .. Wide - 1]
  <2>1. cursor.x + dx \in Int /\ cursor.y + dy \in Int
    BY WindowsAssumption DEF WmInv
  <2>2. U64(cursor.x + dx) \in 0 .. Wide - 1 /\ U64(cursor.y + dy) \in 0 .. Wide - 1
    BY <2>1, Quotient
  <2> QED
    BY <1>4, <2>2
<1>8. ASSUME NEW i \in DOMAIN windows' PROVE Near(windows'[i], Travelled')
  <2>1. PICK m \in 0 .. MaxMoves, n \in 0 .. MaxMoves : m = Travelled /\ n = moves /\ n = m + 1
    BY <1>1, WindowsAssumption
  <2>2. Far(n) = Far(m) + Reach /\ Far(m) \in Nat
    BY <2>1, FarGrows
  <2>3. i \in DOMAIN windows /\ Near(windows[i], m)
    BY <1>6, <2>1 DEF WmInv
  <2>4. windows[i].x \in Int /\ windows[i].y \in Int /\ windows'[i].x \in Int /\ windows'[i].y \in Int
    BY <1>5, <2>3 , WindowFields DEF WmInv, WindowType
  <2>5. windows'[i].x <= Far(n) /\ windows'[i].y <= Far(n)
    BY <1>3, <1>5, <2>2, <2>3, <2>4 DEF Near
  <2> QED
    BY <1>1, <1>5, <2>1, <2>3, <2>5 DEF Near
<1>9. DragInv'
  <2> SUFFICES ASSUME ~slipped
      PROVE  /\ \A c, d \in Dragging' : c = d
             /\ \A d \in Dragging' : Gripped(windows'[d], cursor')
             /\ Dragging' # {} => Pressed'
    BY <1>4 DEF DragInv
  <2>1. Dragging' = Dragging
    BY <1>5, <1>6 DEF Dragging
  <2>2. /\ \A c, d \in Dragging : c = d
        /\ \A d \in Dragging : d \in DOMAIN windows /\ Gripped(windows[d], cursor)
        /\ Dragging # {} => Pressed
    BY DEF WmInv, DragInv, Dragging
  <2>3. ASSUME NEW d \in Dragging PROVE Gripped(windows'[d], cursor')
    <3>1. d \in FirstOf(Dragging) /\ d \in DOMAIN windows
      <4>1. \A j \in Dragging : d <= j
        <5>1. d \in Int
          BY <2>2, LenProperties DEF WmInv
        <5> QED
          BY <2>2, <5>1
      <4> QED
        BY <2>2, <4>1 DEF FirstOf
    <3>2. windows[d] \in WindowType /\ Gripped(windows[d], cursor)
      BY <2>2, <3>1, WindowFields DEF WmInv
    <3>3. cursor'.x = U64(cursor.x + dx) /\ cursor'.y = U64(cursor.y + dy)
      BY <1>4
    <3> QED
      BY <1>3, <1>5, <3>1, <3>2, <3>3, GripMoves
  <2>4. Dragging # {} => Pressed'
    <3>1. ~IsLeft(todo[1])
      BY DEF IsLeft
    <3> QED
      BY <2>2, <3>1, PressedStays
  <2> QED
    BY <2>1, <2>2, <2>3, <2>4
<1>10. todo' # <<>> => moves' > 0
  BY <1>1, WindowsAssumption
<1> QED
  BY <1>1, <1>4, <1>6, <1>7, <1>8, <1>9, <1>10 DEF WmInv

(* The first window under the cursor is gripped where the cursor is.        *)
LEMMA GripOfTheFirst ==
  ASSUME windows \in Seq(WindowType), cursor \in [x : 0 .. Wide - 1, y : 0 .. Wide - 1],
         NEW i \in DOMAIN windows, HitsFrame(windows[i])
  PROVE  Gripped(windows[i], cursor)
<1>1. PICK x \in Int, y \in Int, width \in Nat, height \in Nat :
        x = windows[i].x /\ y = windows[i].y /\ width = windows[i].width /\ height = windows[i].height
  BY WindowFields
<1>2. cursor.x \in 0 .. Wide - 1 /\ cursor.y \in 0 .. Wide - 1
  OBVIOUS
<1>3. Between(cursor.x, x, x + width) /\ Between(cursor.y, y - TitleBar, y + height)
  BY <1>1 DEF HitsFrame
<1>4. PICK ox \in Nat : 0 < ox /\ ox < width /\ cursor.x = U64(x + ox)
  BY <1>2, <1>3, BetweenEdges
<1>5. /\ y - TitleBar \in Int /\ height + TitleBar \in Nat
      /\ y + height = (y - TitleBar) + (height + TitleBar)
  BY WindowsAssumption
<1>6. Between(cursor.y, y - TitleBar, (y - TitleBar) + (height + TitleBar))
  BY <1>3, <1>5
<1>7. PICK oy \in Nat : 0 < oy /\ oy < height + TitleBar /\ cursor.y = U64((y - TitleBar) + oy)
  BY <1>2, <1>5, <1>6, BetweenEdges
<1> QED
  BY <1>1, <1>4, <1>7 DEF Gripped

LEMMA FirstIsOne ==
  ASSUME NEW S, S \subseteq Int
  PROVE  FirstOf(S) \subseteq S /\ \A i, j \in FirstOf(S) : i = j
BY DEF FirstOf

LEMMA LeftDownKeeps ==
  ASSUME WmInv, HandleEvent, todo[1].call = "leftDown", LeftDown
  PROVE  WmInv'
<1>1. /\ 1 \in DOMAIN todo /\ TodoInv' /\ Travelled' = moves /\ moves \in 1 .. MaxMoves
      /\ Travelled = moves /\ UNCHANGED <<leftLast, rightLast, moves>>
      /\ \A k \in DOMAIN todo' : k + 1 \in DOMAIN todo /\ todo'[k] = todo[k + 1]
  BY CallMade
<1>2. PICK hit : hit = FirstOf(Under("left"))
  OBVIOUS
<1>3. /\ windows' = [i \in DOMAIN windows |->
                       IF i \in hit THEN Queued([windows[i] EXCEPT !.dragging = TRUE, !.active = TRUE], "leftDown")
                       ELSE IF \E h \in hit : i > h THEN windows[i]
                       ELSE [windows[i] EXCEPT !.active = FALSE]]
      /\ cursor' = cursor /\ slipped' = slipped
  BY <1>2 DEF LeftDown
<1>4. ASSUME NEW i \in DOMAIN windows
      PROVE  /\ windows'[i] \in WindowType
             /\ windows'[i].x = windows[i].x /\ windows'[i].y = windows[i].y
             /\ windows'[i].width = windows[i].width /\ windows'[i].height = windows[i].height
             /\ windows'[i].dragging => windows[i].dragging \/ i \in hit
  <2>1. windows[i] \in WindowType
    BY WindowFields DEF WmInv
  <2> DEFINE pressed == [windows[i] EXCEPT !.dragging = TRUE, !.active = TRUE]
             inactive == [windows[i] EXCEPT !.active = FALSE]
  <2>2. /\ pressed \in WindowType /\ pressed.x = windows[i].x /\ pressed.y = windows[i].y
        /\ pressed.width = windows[i].width /\ pressed.height = windows[i].height
    BY <2>1 DEF WindowType
  <2>3. /\ inactive \in WindowType /\ inactive.x = windows[i].x /\ inactive.y = windows[i].y
        /\ inactive.width = windows[i].width /\ inactive.height = windows[i].height
        /\ inactive.dragging = windows[i].dragging
    BY <2>1 DEF WindowType
  <2>4. \/ i \in hit /\ windows'[i] = Queued(pressed, "leftDown")
        \/ windows'[i] = windows[i]
        \/ windows'[i] = inactive
    BY <1>3
  <2> HIDE DEF pressed, inactive
  <2>5. CASE i \in hit /\ windows'[i] = Queued(pressed, "leftDown")
    <3>1. "leftDown" \in EventType /\ pressed \in WindowType
      BY <2>2 DEF EventType
    <3>2. /\ Queued(pressed, "leftDown") \in WindowType
          /\ Queued(pressed, "leftDown").x = pressed.x /\ Queued(pressed, "leftDown").y = pressed.y
          /\ Queued(pressed, "leftDown").width = pressed.width
          /\ Queued(pressed, "leftDown").height = pressed.height
      BY <3>1, QueuedSame
    <3> QED
      BY <2>2, <2>5, <3>2
  <2>6. CASE windows'[i] = windows[i]
    BY <2>1, <2>6
  <2>7. CASE windows'[i] = inactive
    BY <2>3, <2>7
  <2> QED
    BY <2>4, <2>5, <2>6, <2>7
<1>5. windows' \in Seq(WindowType) /\ DOMAIN windows' = DOMAIN windows
  <2>1. windows' \in [DOMAIN windows -> WindowType]
    BY <1>3, <1>4
  <2> QED
    BY <2>1, ForEach DEF WmInv
<1>6. \A i \in DOMAIN windows' : Near(windows'[i], Travelled')
  <2>1. Travelled' \in Travelled .. MaxMoves
    <3>1. Travelled' = moves /\ Travelled = moves /\ moves \in 1 .. MaxMoves
      BY <1>1
    <3> QED
      BY <3>1, WindowsAssumption
  <2> QED
    BY <2>1, <1>4, <1>5, NearStays
<1>7. /\ \A i \in hit : i \in DOMAIN windows /\ HitsFrame(windows[i])
      /\ \A i, j \in hit : i = j
  <2>0. DOMAIN windows \subseteq Int
    BY LenProperties DEF WmInv
  <2>1. Under("left") \subseteq Int
    BY <2>0 DEF Under
  <2>2. \A i \in Under("left") : i \in DOMAIN windows /\ HitsFrame(windows[i])
    BY DEF Under
  <2> QED
    BY <1>2, <2>1, <2>2, FirstIsOne
<1>8. DragInv'
  <2> SUFFICES ASSUME ~slipped
      PROVE  /\ \A c, d \in Dragging' : c = d
             /\ \A d \in Dragging' : Gripped(windows'[d], cursor')
             /\ Dragging' # {} => Pressed'
    BY <1>3 DEF DragInv
  <2>1. Dragging = {}
    <3>1. \A k \in DOMAIN todo : todo[k].call # "leftUp"
      BY <1>1 DEF WmInv, TodoInv, IsLeft
    <3>2. ~Pressed
      BY <1>1, <3>1 DEF Pressed
    <3> QED
      BY <3>2 DEF WmInv, DragInv
  <2>2. \A d \in Dragging' : d \in hit
    BY <1>4, <1>5, <2>1 DEF Dragging
  <2>3. ASSUME NEW d \in Dragging' PROVE Gripped(windows'[d], cursor')
    <3>1. d \in DOMAIN windows /\ HitsFrame(windows[d])
      BY <1>7, <2>2
    <3>2. Gripped(windows[d], cursor)
      BY <3>1, GripOfTheFirst DEF WmInv
    <3> QED
      BY <1>3, <1>4, <3>1, <3>2, SameGrip
  <2>4. Pressed'
    <3>1. leftLast
      BY <1>1 DEF WmInv, TodoInv
    <3>2. \A k \in DOMAIN todo' : k + 1 # 1
      <4>1. todo' \in Seq(CallType)
        BY <1>1 DEF TodoInv
      <4>2. DOMAIN todo' = 1 .. Len(todo') /\ Len(todo') \in Nat
        BY <4>1, LenProperties
      <4> QED
        BY <4>2
    <3>3. \A k \in DOMAIN todo' : todo'[k].call # "leftDown"
      BY <1>1, <3>2 DEF WmInv, TodoInv, IsLeft
    <3> QED
      BY <1>1, <3>1, <3>3 DEF Pressed
  <2> QED
    BY <1>7, <2>2, <2>3, <2>4
<1>9. moves' > 0 /\ moves' \in 0 .. MaxMoves
  <2>1. moves' = moves /\ moves \in 1 .. MaxMoves
    BY <1>1
  <2> QED
    BY <2>1, WindowsAssumption
<1> QED
  BY <1>1, <1>3, <1>5, <1>6, <1>8, <1>9 DEF WmInv

(* A dragged window within reach is under the cursor.                       *)
LEMMA GripIsUnder ==
  ASSUME NEW w \in WindowType, NEW n \in 0 .. MaxMoves, Near(w, n), Gripped(w, cursor),
         w.x >= 0, w.y >= TitleBar
  PROVE  HitsFrame(w)
<1>1. PICK ox \in Nat, oy \in Nat :
        /\ 0 < ox /\ ox < w.width /\ 0 < oy /\ oy < w.height + TitleBar
        /\ cursor.x = U64(w.x + ox) /\ cursor.y = U64(w.y - TitleBar + oy)
  BY DEF Gripped
<1>2. PICK x \in Nat, y \in Nat, width \in Nat, height \in Nat :
        x = w.x /\ y = w.y /\ width = w.width /\ height = w.height /\ y >= TitleBar
  BY WindowsAssumption DEF WindowType
<1>3. PICK far \in Nat : far = Far(MaxMoves) /\ Far(n) \in Nat /\ Far(n) <= far
  <2>1. MaxMoves \in n .. MaxMoves
    BY WindowsAssumption
  <2>2. Far(n) \in Nat /\ Far(n) <= Far(MaxMoves)
    BY <2>1, FarGrows
  <2>3. MaxMoves \in 0 .. MaxMoves /\ MaxMoves \in MaxMoves .. MaxMoves
    BY WindowsAssumption
  <2>4. Far(MaxMoves) \in Nat
    BY <2>3, FarGrows
  <2> QED
    BY <2>2, <2>4
<1>4. PICK s \in Sizes : width = s[1] /\ height = s[2]
  BY <1>2 DEF Near
<1>5. far + width < Wide /\ far + height < Wide
  BY <1>3, <1>4, EdgesAssumption DEF Far
<1>6. x <= far /\ y <= far
  <2>1. x <= Far(n) /\ y <= Far(n)
    BY <1>2 DEF Near
  <2> QED
    BY <1>3, <2>1
<1>7. Wide \in Nat /\ TitleBar \in Nat
  BY WindowsAssumption
<1>8. /\ x + width < Wide
      /\ y - TitleBar \in Nat /\ height + TitleBar \in Nat
      /\ (y - TitleBar) + (height + TitleBar) = y + height /\ y + height < Wide
  BY <1>2, <1>3, <1>5, <1>6, <1>7
<1>9. Between(cursor.x, x, x + width)
  BY <1>1, <1>2, <1>8, OnScreen
<1>10. Between(cursor.y, y - TitleBar, y + height)
  <2>1. Between(U64((y - TitleBar) + oy), y - TitleBar, (y - TitleBar) + (height + TitleBar))
    BY <1>1, <1>2, <1>8, OnScreen
  <2> QED
    BY <1>1, <1>2, <1>8, <2>1
<1> QED
  BY <1>2, <1>9, <1>10 DEF HitsFrame

LEMMA LeftUpKeeps ==
  ASSUME WmInv, HandleEvent, todo[1].call = "leftUp", LeftUp
  PROVE  WmInv'
<1>1. /\ TodoInv' /\ Travelled' = moves /\ moves \in 1 .. MaxMoves
      /\ Travelled = moves /\ UNCHANGED <<leftLast, rightLast, moves>>
  BY CallMade
<1>2. PICK over : over = ReleasedOver
  OBVIOUS
<1>3. /\ windows' = [i \in DOMAIN windows |->
                       IF i \in over THEN Queued([windows[i] EXCEPT !.dragging = FALSE], "leftUp")
                       ELSE windows[i]]
      /\ cursor' = cursor /\ slipped' = (slipped \/ \E d \in Dragging : OutOfReach(d))
  BY <1>2 DEF LeftUp
<1>4. ASSUME NEW i \in DOMAIN windows
      PROVE  /\ windows'[i] \in WindowType
             /\ windows'[i].x = windows[i].x /\ windows'[i].y = windows[i].y
             /\ windows'[i].width = windows[i].width /\ windows'[i].height = windows[i].height
             /\ windows'[i].dragging => windows[i].dragging /\ i \notin over
  <2>1. windows[i] \in WindowType
    BY WindowFields DEF WmInv
  <2> DEFINE released == [windows[i] EXCEPT !.dragging = FALSE]
  <2>2. /\ released \in WindowType /\ released.x = windows[i].x /\ released.y = windows[i].y
        /\ released.width = windows[i].width /\ released.height = windows[i].height
        /\ ~released.dragging
    BY <2>1 DEF WindowType
  <2>3. \/ windows'[i] = Queued(released, "leftUp")
        \/ windows'[i] = windows[i] /\ i \notin over
    BY <1>3
  <2> HIDE DEF released
  <2>4. CASE windows'[i] = Queued(released, "leftUp")
    <3>1. "leftUp" \in EventType /\ released \in WindowType
      BY <2>2 DEF EventType
    <3>2. /\ Queued(released, "leftUp") \in WindowType
          /\ Queued(released, "leftUp").x = released.x /\ Queued(released, "leftUp").y = released.y
          /\ Queued(released, "leftUp").width = released.width
          /\ Queued(released, "leftUp").height = released.height
          /\ Queued(released, "leftUp").dragging = released.dragging
      BY <3>1, QueuedSame
    <3> QED
      BY <2>2, <2>4, <3>2
  <2>5. CASE windows'[i] = windows[i] /\ i \notin over
    BY <2>1, <2>5
  <2> QED
    BY <2>3, <2>4, <2>5
<1>5. windows' \in Seq(WindowType) /\ DOMAIN windows' = DOMAIN windows
  <2>1. windows' \in [DOMAIN windows -> WindowType]
    BY <1>3, <1>4
  <2> QED
    BY <2>1, ForEach DEF WmInv
<1>6. \A i \in DOMAIN windows' : Near(windows'[i], Travelled')
  <2>1. Travelled' \in Travelled .. MaxMoves
    <3>1. Travelled' = moves /\ Travelled = moves /\ moves \in 1 .. MaxMoves
      BY <1>1
    <3> QED
      BY <3>1, WindowsAssumption
  <2> QED
    BY <2>1, <1>4, <1>5, NearStays
<1>7. DragInv'
  <2> SUFFICES ASSUME ~slipped' PROVE Dragging' = {}
    BY DEF DragInv
  <2>1. ~slipped /\ \A d \in Dragging : ~OutOfReach(d)
    BY <1>3
  <2>2. ASSUME NEW d \in Dragging PROVE d \in over
    <3>1. PICK n \in 0 .. MaxMoves : n = Travelled
      BY TravelledIs
    <3>2. d \in DOMAIN windows /\ windows[d] \in WindowType
      BY WindowFields DEF Dragging, WmInv
    <3>3. Gripped(windows[d], cursor) /\ Near(windows[d], n)
      BY <2>1, <3>1, <3>2 DEF WmInv, DragInv
    <3>4. ~(windows[d].x < 0) /\ ~(windows[d].y < TitleBar) /\ \A i \in 1 .. d - 1 : ~HitsFrame(windows[i])
      BY <2>1 DEF OutOfReach
    <3>5. windows[d].x >= 0 /\ windows[d].y >= TitleBar
      <4>1. windows[d].x \in Int /\ windows[d].y \in Int
        BY <3>2 DEF WindowType
      <4> QED
        BY <3>4, <4>1, WindowsAssumption
    <3>6. HitsFrame(windows[d])
      BY <3>2, <3>3, <3>5, GripIsUnder
    <3>7. DOMAIN windows = 1 .. Len(windows) /\ Len(windows) \in Nat
      BY LenProperties DEF WmInv
    <3>8. ASSUME NEW j \in Under("left") PROVE d <= j
      <4>1. j \in DOMAIN windows /\ HitsFrame(windows[j])
        BY DEF Under
      <4>2. j \notin 1 .. d - 1
        BY <3>4, <4>1
      <4> QED
        BY <3>2, <3>7, <4>1, <4>2
    <3>9. d \in Under("left")
      BY <3>2, <3>6 DEF Under
    <3> QED
      BY <1>2, <3>8, <3>9 DEF ReleasedOver, FirstOf
  <2>3. \A d \in Dragging' : d \in Dragging /\ d \notin over
    BY <1>4, <1>5 DEF Dragging
  <2> QED
    BY <2>2, <2>3
<1>8. moves' > 0 /\ moves' \in 0 .. MaxMoves
  <2>1. moves' = moves /\ moves \in 1 .. MaxMoves
    BY <1>1
  <2> QED
    BY <2>1, WindowsAssumption
<1>9. slipped' \in BOOLEAN /\ leftLast' \in BOOLEAN /\ rightLast' \in BOOLEAN
  BY <1>1, <1>3 DEF WmInv
<1> QED
  BY <1>1, <1>3, <1>5, <1>6, <1>7, <1>8, <1>9 DEF WmInv

(* Nothing that bears on a drag changes.                                    *)
LEMMA SameDrag ==
  ASSUME WmInv, windows' \in Seq(WindowType), DOMAIN windows' = DOMAIN windows,
         \A i \in DOMAIN windows : /\ windows'[i].x = windows[i].x /\ windows'[i].y = windows[i].y
                                   /\ windows'[i].width = windows[i].width
                                   /\ windows'[i].height = windows[i].height
                                   /\ windows'[i].dragging = windows[i].dragging,
         cursor' = cursor, slipped' = slipped, Pressed => Pressed'
  PROVE  DragInv'
<1>1. Dragging' = Dragging
  BY DEF Dragging
<1> SUFFICES ASSUME ~slipped
    PROVE  /\ \A c, d \in Dragging : c = d
           /\ \A d \in Dragging : Gripped(windows'[d], cursor)
           /\ Dragging # {} => Pressed'
  BY <1>1 DEF DragInv
<1>2. /\ \A c, d \in Dragging : c = d
      /\ \A d \in Dragging : d \in DOMAIN windows /\ Gripped(windows[d], cursor)
      /\ Dragging # {} => Pressed
  BY DEF WmInv, DragInv, Dragging
<1>3. ASSUME NEW d \in Dragging PROVE Gripped(windows'[d], cursor)
  BY <1>2, SameGrip
<1> QED
  BY <1>2, <1>3

LEMMA RightKeeps ==
  ASSUME WmInv, HandleEvent, NEW event \in {"rightDown", "rightUp"}, todo[1].call = event, RightButton(event)
  PROVE  WmInv'
<1>1. /\ TodoInv' /\ Travelled' = moves /\ moves \in 1 .. MaxMoves
      /\ Travelled = moves /\ UNCHANGED <<leftLast, rightLast, moves>>
  BY CallMade
<1>2. /\ windows' = [i \in DOMAIN windows |->
                       IF i \in FirstOf(Under("right")) THEN Queued(windows[i], event) ELSE windows[i]]
      /\ cursor' = cursor /\ slipped' = slipped
  BY DEF RightButton
<1>3. ASSUME NEW i \in DOMAIN windows
      PROVE  /\ windows'[i] \in WindowType
             /\ windows'[i].x = windows[i].x /\ windows'[i].y = windows[i].y
             /\ windows'[i].width = windows[i].width /\ windows'[i].height = windows[i].height
             /\ windows'[i].dragging = windows[i].dragging
  <2>1. windows[i] \in WindowType /\ event \in EventType
    BY WindowFields DEF WmInv, EventType
  <2>2. windows'[i] = Queued(windows[i], event) \/ windows'[i] = windows[i]
    BY <1>2
  <2> QED
    BY <2>1, <2>2, QueuedSame
<1>4. windows' \in Seq(WindowType) /\ DOMAIN windows' = DOMAIN windows
  <2>1. windows' \in [DOMAIN windows -> WindowType]
    BY <1>2, <1>3
  <2> QED
    BY <2>1, ForEach DEF WmInv
<1>5. \A i \in DOMAIN windows' : Near(windows'[i], Travelled')
  <2>1. Travelled' \in Travelled .. MaxMoves
    <3>1. Travelled' = moves /\ Travelled = moves /\ moves \in 1 .. MaxMoves
      BY <1>1
    <3> QED
      BY <3>1, WindowsAssumption
  <2> QED
    BY <2>1, <1>3, <1>4, NearStays
<1>6. DragInv'
  <2>1. ~IsLeft(todo[1])
    BY DEF IsLeft
  <2>2. Pressed => Pressed'
    BY <2>1, PressedStays
  <2> QED
    BY <1>2, <1>3, <1>4, <2>2, SameDrag
<1>7. moves' > 0 /\ moves' \in 0 .. MaxMoves
  <2>1. moves' = moves /\ moves \in 1 .. MaxMoves
    BY <1>1
  <2> QED
    BY <2>1, WindowsAssumption
<1> QED
  BY <1>1, <1>2, <1>4, <1>5, <1>6, <1>7 DEF WmInv

LEMMA HandleEventKeeps ==
  ASSUME WmInv, HandleEvent
  PROVE  WmInv'
<1>1. \/ todo[1].call = "move"
      \/ todo[1].call = "leftDown" /\ LeftDown
      \/ todo[1].call = "leftUp" /\ LeftUp
      \/ \E event \in {"rightDown", "rightUp"} : todo[1].call = event /\ RightButton(event)
  BY CallMade
<1> QED
  BY <1>1, MoveKeeps, LeftDownKeeps, LeftUpKeeps, RightKeeps

-----------------------------------------------------------------------------
(* Windows: the calls of the programs                                       *)

(* What a program does to a window leaves the mouse thread where it is.     *)
LEMMA MouseWaits ==
  ASSUME WmInv, UNCHANGED <<cursor, leftLast, rightLast, todo, moves>>
  PROVE  /\ cursor' \in [x : 0 .. Wide - 1, y : 0 .. Wide - 1]
         /\ leftLast' \in BOOLEAN /\ rightLast' \in BOOLEAN
         /\ moves' \in 0 .. MaxMoves /\ (todo' # <<>> => moves' > 0)
         /\ TodoInv' /\ Travelled' = Travelled /\ (Pressed => Pressed')
BY DEF WmInv, TodoInv, Travelled, Pressed

LEMMA AllocateKeeps ==
  ASSUME WmInv, NEW s \in Sizes, AllocateWindow(s[1], s[2])
  PROVE  WmInv'
<1> DEFINE new == [x |-> SpawnAt, y |-> SpawnAt, width |-> s[1], height |-> s[2], buffer |-> s[1] * s[2],
                   dragging |-> FALSE, active |-> FALSE, events |-> <<>>]
<1>1. windows' = Append(windows, new) /\ UNCHANGED <<cursor, leftLast, rightLast, todo, moves, slipped>>
  BY DEF AllocateWindow
<1>2. s[1] \in Nat /\ s[2] \in Nat /\ SpawnAt \in Nat
  BY WindowsAssumption
<1>3. s[1] * s[2] \in Int
  BY <1>2
<1>4. /\ new \in WindowType /\ ~new.dragging
      /\ new.x = SpawnAt /\ new.y = SpawnAt /\ new.width = s[1] /\ new.height = s[2]
  <2>1. <<>> \in Seq(EventType)
    BY EmptySeq
  <2> QED
    BY <1>2, <1>3, <2>1 DEF WindowType
<1> HIDE DEF new
<1>5. PICK n \in Nat : n = Len(windows) /\ DOMAIN windows = 1 .. n
  BY LenProperties DEF WmInv
<1>6. /\ windows' \in Seq(WindowType) /\ Len(windows') = n + 1
      /\ \A i \in 1 .. n : windows'[i] = windows[i]
      /\ windows'[n + 1] = new
  BY <1>1, <1>4, <1>5, AppendProperties DEF WmInv
<1>7. DOMAIN windows' = 1 .. n + 1
  BY <1>6, LenProperties
<1>8. \A i \in DOMAIN windows' : i \in DOMAIN windows \/ i = n + 1
  BY <1>5, <1>7
<1>9. /\ cursor' \in [x : 0 .. Wide - 1, y : 0 .. Wide - 1]
      /\ leftLast' \in BOOLEAN /\ rightLast' \in BOOLEAN
      /\ moves' \in 0 .. MaxMoves /\ (todo' # <<>> => moves' > 0)
      /\ TodoInv' /\ Travelled' = Travelled /\ (Pressed => Pressed')
  BY <1>1, MouseWaits
<1>10. ASSUME NEW i \in DOMAIN windows' PROVE Near(windows'[i], Travelled)
  <2>1. CASE i \in DOMAIN windows
    BY <1>5, <1>6, <2>1 DEF WmInv
  <2>2. CASE i = n + 1
    <3>1. PICK m \in 0 .. MaxMoves : m = Travelled
      BY TravelledIs
    <3>2. m \in m .. MaxMoves
      BY WindowsAssumption
    <3>3. SpawnAt <= Far(m)
      BY <3>2, FarGrows
    <3> QED
      BY <1>4, <1>6, <2>2, <3>1, <3>3 DEF Near
  <2> QED
    BY <1>8, <2>1, <2>2
<1>11. Dragging' = Dragging /\ Dragging \subseteq DOMAIN windows
  BY <1>4, <1>5, <1>6, <1>7, <1>8 DEF Dragging
<1>12. DragInv'
  <2> SUFFICES ASSUME ~slipped
      PROVE  /\ \A c, d \in Dragging : c = d
             /\ \A d \in Dragging : Gripped(windows'[d], cursor)
             /\ Dragging # {} => Pressed'
    BY <1>1, <1>11 DEF DragInv
  <2>1. /\ \A c, d \in Dragging : c = d
        /\ \A d \in Dragging : Gripped(windows[d], cursor)
        /\ Dragging # {} => Pressed
    BY DEF WmInv, DragInv
  <2>2. \A d \in Dragging : windows'[d] = windows[d]
    BY <1>5, <1>6, <1>11
  <2> QED
    BY <1>9, <2>1, <2>2
<1>13. \A i \in DOMAIN windows' : Near(windows'[i], Travelled')
  BY <1>9, <1>10
<1>14. slipped' \in BOOLEAN
  BY <1>1 DEF WmInv
<1> QED
  BY <1>6, <1>9, <1>12, <1>13, <1>14 DEF WmInv

LEMMA PollKeeps ==
  ASSUME WmInv, NEW j \in DOMAIN windows, PollEvent(j)
  PROVE  WmInv'
<1>1. windows[j].events \in Seq(EventType) /\ windows[j].events # <<>>
  BY WindowFields DEF WmInv, WindowType, PollEvent
<1>2. PICK q \in Seq(EventType) : q = Tail(windows[j].events)
  BY <1>1, HeadTailProperties
<1>3. /\ windows' = [windows EXCEPT ![j].events = q]
      /\ UNCHANGED <<cursor, leftLast, rightLast, todo, moves, slipped>>
  BY <1>2 DEF PollEvent
<1>4. ASSUME NEW i \in DOMAIN windows
      PROVE  /\ windows'[i] \in WindowType
             /\ windows'[i].x = windows[i].x /\ windows'[i].y = windows[i].y
             /\ windows'[i].width = windows[i].width /\ windows'[i].height = windows[i].height
             /\ windows'[i].dragging = windows[i].dragging
  <2>1. windows[i] \in WindowType
    BY WindowFields DEF WmInv
  <2>2. windows'[i] = windows[i] \/ windows'[i] = [windows[i] EXCEPT !.events = q]
    BY <1>3
  <2> QED
    BY <1>2, <2>1, <2>2 DEF WindowType
<1>5. windows' \in Seq(WindowType) /\ DOMAIN windows' = DOMAIN windows
  <2>1. DOMAIN windows' = DOMAIN windows
    BY <1>3
  <2>2. windows' \in [DOMAIN windows -> WindowType]
    BY <1>3, <1>4, <2>1
  <2> QED
    BY <2>2, ForEach DEF WmInv
<1>6. /\ cursor' \in [x : 0 .. Wide - 1, y : 0 .. Wide - 1]
      /\ leftLast' \in BOOLEAN /\ rightLast' \in BOOLEAN
      /\ moves' \in 0 .. MaxMoves /\ (todo' # <<>> => moves' > 0)
      /\ TodoInv' /\ Travelled' = Travelled /\ (Pressed => Pressed')
  BY <1>3, MouseWaits
<1>7. \A i \in DOMAIN windows' : Near(windows'[i], Travelled')
  <2>1. Travelled' \in Travelled .. MaxMoves
    BY <1>6, TravelledIs, WindowsAssumption
  <2> QED
    BY <2>1, <1>4, <1>5, NearStays
<1>8. DragInv'
  BY <1>3, <1>4, <1>5, <1>6, SameDrag
<1>9. slipped' \in BOOLEAN
  BY <1>3 DEF WmInv
<1> QED
  BY <1>5, <1>6, <1>7, <1>8, <1>9 DEF WmInv

(* A window is resized while it is dragged only if that is a slip.          *)
LEMMA ResizeKeeps ==
  ASSUME WmInv, NEW j \in DOMAIN windows, NEW s \in Sizes, NEW fails \in BOOLEAN,
         WindowResize(j, s[1], s[2], fails)
  PROVE  WmInv'
<1>1. /\ \/ windows' = windows
         \/ windows' = [windows EXCEPT ![j].buffer = 0]
         \/ windows' = [windows EXCEPT ![j].buffer = s[1] * s[2], ![j].width = s[1], ![j].height = s[2]]
      /\ slipped' = (slipped \/ windows[j].dragging)
      /\ UNCHANGED <<cursor, leftLast, rightLast, todo, moves>>
  BY DEF WindowResize
<1>2. s[1] \in Nat /\ s[2] \in Nat
  BY WindowsAssumption
<1>3. PICK area \in Int : area = s[1] * s[2]
  BY <1>2
<1>4. PICK w \in WindowType : w = windows[j]
  BY WindowFields DEF WmInv
<1> DEFINE emptied == [w EXCEPT !.buffer = 0]
           sized == [w EXCEPT !.buffer = area, !.width = s[1], !.height = s[2]]
<1>5. \/ windows' = windows
      \/ windows' = [windows EXCEPT ![j] = emptied]
      \/ windows' = [windows EXCEPT ![j] = sized]
  BY <1>1, <1>3, <1>4
<1>6. /\ emptied \in WindowType /\ emptied.x = w.x /\ emptied.y = w.y
      /\ emptied.width = w.width /\ emptied.height = w.height /\ emptied.dragging = w.dragging
  BY <1>4 DEF WindowType
<1>7. /\ sized \in WindowType /\ sized.x = w.x /\ sized.y = w.y
      /\ sized.width = s[1] /\ sized.height = s[2] /\ sized.dragging = w.dragging
  BY <1>2, <1>3, <1>4 DEF WindowType
<1> HIDE DEF emptied, sized
<1>8. PICK v \in {w, emptied, sized} : windows' = [windows EXCEPT ![j] = v]
  <2>1. windows \in [1 .. Len(windows) -> WindowType]
    BY LenProperties DEF WmInv
  <2>2. windows = [windows EXCEPT ![j] = w]
    BY <2>1, <1>4
  <2> QED
    BY <1>5, <2>2
<1>9. /\ v \in WindowType /\ v.x = w.x /\ v.y = w.y /\ v.dragging = w.dragging
      /\ \/ v.width = w.width /\ v.height = w.height
         \/ v.width = s[1] /\ v.height = s[2]
  BY <1>4, <1>6, <1>7
<1>10. /\ DOMAIN windows' = DOMAIN windows /\ windows'[j] = v
       /\ \A i \in DOMAIN windows : i # j => windows'[i] = windows[i]
  BY <1>8
<1>11. \A i \in DOMAIN windows : windows[i] \in WindowType
  BY WindowFields DEF WmInv
<1>12. windows' \in Seq(WindowType)
  <2>1. windows' \in [DOMAIN windows -> WindowType]
    BY <1>8, <1>9, <1>11
  <2> QED
    BY <2>1, ForEach DEF WmInv
<1>13. /\ cursor' \in [x : 0 .. Wide - 1, y : 0 .. Wide - 1]
       /\ leftLast' \in BOOLEAN /\ rightLast' \in BOOLEAN
       /\ moves' \in 0 .. MaxMoves /\ (todo' # <<>> => moves' > 0)
       /\ TodoInv' /\ Travelled' = Travelled /\ (Pressed => Pressed')
  BY <1>1, MouseWaits
<1>14. ASSUME NEW i \in DOMAIN windows PROVE Near(windows'[i], Travelled)
  <2>1. Near(windows[i], Travelled)
    BY DEF WmInv
  <2>2. CASE i = j
    BY <1>4, <1>9, <1>10, <2>1, <2>2 DEF Near
  <2>3. CASE i # j
    BY <1>10, <2>1, <2>3
  <2> QED
    BY <2>2, <2>3
<1>15. \A i \in DOMAIN windows' : Near(windows'[i], Travelled')
  BY <1>10, <1>13, <1>14
<1>16. DragInv'
  <2> SUFFICES ASSUME ~slipped, ~windows[j].dragging
      PROVE  /\ \A c, d \in Dragging' : c = d
             /\ \A d \in Dragging' : Gripped(windows'[d], cursor)
             /\ Dragging' # {} => Pressed'
    BY <1>1 DEF DragInv
  <2>1. /\ \A c, d \in Dragging : c = d
        /\ \A d \in Dragging : Gripped(windows[d], cursor)
        /\ Dragging # {} => Pressed
    BY DEF WmInv, DragInv
  <2>2. Dragging' = Dragging /\ \A d \in Dragging : d \in DOMAIN windows /\ d # j
    BY <1>4, <1>9, <1>10 DEF Dragging
  <2>3. \A d \in Dragging : windows'[d] = windows[d]
    BY <1>10, <2>2
  <2> QED
    BY <1>13, <2>1, <2>2, <2>3
<1>17. slipped' \in BOOLEAN
  BY <1>1, <1>4 DEF WmInv, WindowType
<1> QED
  BY <1>12, <1>13, <1>15, <1>16, <1>17 DEF WmInv

-----------------------------------------------------------------------------
(* Windows: the theorem                                                     *)

LEMMA WmStarts ==
  ASSUME WindowsInit
  PROVE  WmInv
<1>1. /\ windows = <<>> /\ cursor = [x |-> 0, y |-> 0] /\ todo = <<>>
      /\ leftLast = FALSE /\ rightLast = FALSE /\ slipped = FALSE /\ moves = 0
  BY DEF WindowsInit
<1>2. windows \in Seq(WindowType) /\ DOMAIN windows = {}
  BY <1>1, EmptySeq, LenProperties
<1>3. cursor \in [x : 0 .. Wide - 1, y : 0 .. Wide - 1] /\ moves \in 0 .. MaxMoves
  BY <1>1, WindowsAssumption
<1>4. TodoInv
  <2>1. todo \in Seq(CallType) /\ DOMAIN todo = {}
    BY <1>1, EmptySeq, LenProperties
  <2> QED
    BY <2>1 DEF TodoInv
<1>5. DragInv
  BY <1>2 DEF DragInv, Dragging
<1> QED
  BY <1>1, <1>2, <1>3, <1>4, <1>5 DEF WmInv

LEMMA WmKeeps ==
  ASSUME WmInv, [WindowsNext]_wmVars
  PROVE  WmInv'
<1>1. CASE \E m \in Moves, left, right \in BOOLEAN :
             HandleMouse([dx |-> m[1], dy |-> m[2], left |-> left, right |-> right])
  BY <1>1, HandleMouseKeeps
<1>2. CASE HandleEvent
  BY <1>2, HandleEventKeeps
<1>3. CASE \E s \in Sizes : AllocateWindow(s[1], s[2])
  BY <1>3, AllocateKeeps
<1>4. CASE \E i \in DOMAIN windows, s \in Sizes, fails \in BOOLEAN : WindowResize(i, s[1], s[2], fails)
  BY <1>4, ResizeKeeps
<1>5. CASE \E i \in DOMAIN windows : PollEvent(i)
  BY <1>5, PollKeeps
<1>6. CASE UNCHANGED wmVars
  BY <1>6 DEF wmVars, WmInv, TodoInv, Travelled, DragInv, Dragging, Pressed
<1> QED
  BY <1>1, <1>2, <1>3, <1>4, <1>5, <1>6 DEF WindowsNext

(* A window is dragged only while the left button is down or its release is  *)
(* still to be told, and no two windows are, for any number of windows and   *)
(* any moves of the mouse, as long as every release was within reach of the  *)
(* window dragged: the drag that wm_handle_mouse_event starts on the title   *)
(* bar or the window it also ends.                                          *)
THEOREM DragsEnd == WindowsSpec => []DragEndsWithTheButton
<1>1. WindowsInit => WmInv
  BY WmStarts
<1>2. WmInv /\ [WindowsNext]_wmVars => WmInv'
  BY WmKeeps
<1>3. WmInv => DragEndsWithTheButton
  <2> SUFFICES ASSUME WmInv, ~slipped
      PROVE  /\ Cardinality(Dragging) <= 1
             /\ \A d \in Dragging : leftLast \/ \E k \in DOMAIN todo : todo[k].call = "leftUp"
    BY DEF DragEndsWithTheButton
  <2>1. (\A c, d \in Dragging : c = d) /\ (Dragging # {} => Pressed)
    BY DEF WmInv, DragInv
  <2>2. Cardinality(Dragging) <= 1
    <3>1. CASE Dragging = {}
      BY <3>1, FS_EmptySet
    <3>2. CASE Dragging # {}
      <4>1. PICK d : Dragging = {d}
        BY <2>1, <3>2
      <4> QED
        BY <4>1, FS_Singleton
    <3> QED
      BY <3>1, <3>2
  <2> QED
    BY <2>1, <2>2 DEF Pressed
<1> QED
  BY <1>1, <1>2, <1>3, PTL DEF WindowsSpec

-----------------------------------------------------------------------------
(* Mouse: the invariant                                                     *)

ByteType == [byte : Int, of : Nat \ {0}, at : 1 .. PacketSize]
ReportType ==
  [state : [dx : Int, dy : Int, ds : Int, left : BOOLEAN, right : BOOLEAN], of : Nat \ {0}, whole : BOOLEAN]

(* Bytes are numbered as the mouse sends them; this many have come or been   *)
(* lost.                                                                    *)
Place(b) == PacketSize * (b.of - 1) + b.at
Passed == PacketSize * Len(sent) - Len(unsent)

IsSent(b) == b.of \in DOMAIN sent /\ b.byte = BytesOf(sent[b.of])[b.at]

UnsentInv ==
  /\ unsent \in Seq(ByteType) /\ Len(unsent) <= PacketSize
  /\ \A k \in DOMAIN unsent : IsSent(unsent[k]) /\ Place(unsent[k]) = Passed + k

BufferInv ==
  /\ packetBuffer \in Seq(ByteType) /\ Len(packetBuffer) < PacketSize
  /\ \A i \in DOMAIN packetBuffer : IsSent(packetBuffer[i]) /\ Place(packetBuffer[i]) <= Passed
  /\ \A i, j \in DOMAIN packetBuffer : i < j => Place(packetBuffer[i]) < Place(packetBuffer[j])

(* The bytes since something went wrong are the last ones sent, and with a   *)
(* whole packet of them behind its buffer the driver is in step.            *)
CalmInv ==
  /\ calm \in 0 .. 2 * PacketSize
  /\ \A i \in DOMAIN packetBuffer :
       i + calm > Len(packetBuffer)
         => /\ Place(packetBuffer[i]) = Passed - (Len(packetBuffer) - i)
            /\ ~Confusing(packetBuffer[i])
  /\ calm >= Len(packetBuffer) + PacketSize => InStep

(* A report is of a packet before what is in the buffer.                    *)
Begun(r) == PacketSize * (r.of - 1) + 1
Right(r) == r.whole => r.of \in DOMAIN sent /\ r.state = Asked(sent[r.of])
ReportsInv ==
  /\ heard \in Seq(ReportType) /\ mouseStates \in Seq(ReportType)
  /\ \A i \in DOMAIN Reported :
       /\ Right(Reported[i])
       /\ Begun(Reported[i]) <= Passed
       /\ \A k \in DOMAIN packetBuffer : Begun(Reported[i]) < Place(packetBuffer[k])
       /\ \A j \in 1 .. i - 1 : Reported[j].of <= Reported[i].of
                                /\ (Reported[i].whole => Reported[j].of < Reported[i].of)

(* The packets whose bytes have all passed.                                 *)
Gone == IF unsent = <<>> THEN Len(sent) ELSE Len(sent) - 1
Counted == {i \in 1 .. Gone : IsValid(sent[i].head)}
Plain == lost = 0 /\ \A i \in DOMAIN sent : ~Begins(sent[i].dx) /\ ~Begins(sent[i].dy) /\ ~Begins(sent[i].dz)
CountInv ==
  /\ lost \in Nat /\ dropped \in Nat
  /\ Plain => InStep /\ Len(Reported) + dropped = Cardinality(Counted)

MouseInv == sent \in Seq(Packets) /\ UnsentInv /\ BufferInv /\ CalmInv /\ ReportsInv /\ CountInv

-----------------------------------------------------------------------------
(* Mouse: bytes                                                             *)

LEMMA BytesOfAPacket ==
  ASSUME NEW p \in Packets
  PROVE  /\ BytesOf(p)[1] = p.head /\ BytesOf(p)[2] = p.dx /\ BytesOf(p)[3] = p.dy /\ BytesOf(p)[4] = p.dz
         /\ \A k \in 1 .. PacketSize : BytesOf(p)[k] \in Int
         /\ Begins(p.head)
<1>1. p.head \in Int /\ p.dx \in Int /\ p.dy \in Int /\ p.dz \in Int
  BY MouseAssumption
<1> QED
  BY <1>1, StatusAssumption DEF BytesOf, PacketSize

LEMMA ByteFields ==
  ASSUME NEW b \in ByteType
  PROVE  /\ b.of \in Nat \ {0} /\ b.at \in 1 .. 4 /\ b.byte \in Int
         /\ Place(b) = 4 * (b.of - 1) + b.at /\ Place(b) \in Int
BY DEF ByteType, Place, PacketSize

(* Where a byte belongs follows from its number.                            *)
LEMMA SamePlace ==
  ASSUME NEW m \in Int, NEW n \in Int, NEW i \in 1 .. 4, NEW j \in 1 .. 4, 4 * (m - 1) + i = 4 * (n - 1) + j
  PROVE  m = n /\ i = j
OBVIOUS

LEMMA FirstByteBegins ==
  ASSUME sent \in Seq(Packets), NEW b \in ByteType, IsSent(b)
  PROVE  /\ b.of \in DOMAIN sent /\ sent[b.of] \in Packets /\ b.byte = BytesOf(sent[b.of])[b.at]
         /\ b.at = 1 => Begins(b.byte)
<1>1. b.of \in DOMAIN sent /\ b.byte = BytesOf(sent[b.of])[b.at]
  BY DEF IsSent
<1>2. sent[b.of] \in Packets
  BY <1>1, LenProperties, ElementOfSeq
<1>3. BytesOf(sent[b.of])[1] = sent[b.of].head /\ Begins(sent[b.of].head)
  BY <1>2, BytesOfAPacket
<1> QED
  BY <1>1, <1>2, <1>3

LEMMA StepIs ==
  ASSUME NEW u \in 0 .. 4, NEW n \in 0 .. 3
  PROVE  /\ u % PacketSize = (PacketSize - n) % PacketSize <=> IF n = 0 THEN u \in {0, 4} ELSE u = 4 - n
<1>1. CASE n = 0
  BY <1>1 DEF PacketSize
<1>2. CASE n = 1
  BY <1>2 DEF PacketSize
<1>3. CASE n = 2
  BY <1>3 DEF PacketSize
<1>4. CASE n = 3
  BY <1>4 DEF PacketSize
<1> QED
  BY <1>1, <1>2, <1>3, <1>4

LEMMA StateTyped ==
  ASSUME NEW buf, \A k \in 1 .. 4 : buf[k].byte \in Int
  PROVE  StateFrom(buf) \in [dx : Int, dy : Int, ds : Int, left : BOOLEAN, right : BOOLEAN]
<1>1. \A raw \in Int : \A sign \in BOOLEAN : Moved(raw, sign) \in Int
  BY DEF Moved
<1>2. \A byte, bit : Has(byte, bit) \in BOOLEAN
  BY DEF Has
<1>3. buf[2].byte \in Int /\ buf[3].byte \in Int /\ buf[4].byte \in Int
  OBVIOUS
<1>4. Moved(buf[2].byte, Has(buf[1].byte, 16)) \in Int /\ -Moved(buf[3].byte, Has(buf[1].byte, 32)) \in Int
  BY <1>1, <1>2, <1>3
<1>5. Moved(buf[4].byte, buf[4].byte >= 128) \in Int
  BY <1>3 DEF Moved
<1> QED
  BY <1>2, <1>4, <1>5 DEF StateFrom

(* The bytes of one packet give the state it asks for.                      *)
LEMMA WholeIsRight ==
  ASSUME sent \in Seq(Packets), NEW buf \in Seq(ByteType), Len(buf) = 4,
         \A i \in 1 .. 4 : IsSent(buf[i]), Whole(buf)
  PROVE  StateFrom(buf) = Asked(sent[buf[1].of])
<1>1. DOMAIN buf = 1 .. 4
  BY LenProperties
<1>2. \A i \in 1 .. 4 : buf[i].byte = BytesOf(sent[buf[1].of])[i]
  BY <1>1 DEF Whole, IsSent
<1> DEFINE bytes == BytesOf(sent[buf[1].of])
<1>3. /\ buf[1].byte = bytes[1] /\ buf[2].byte = bytes[2] /\ buf[3].byte = bytes[3] /\ buf[4].byte = bytes[4]
  BY <1>2
<1> DEFINE asked == [k \in 1 .. PacketSize |-> [byte |-> bytes[k]]]
<1>4. asked[1].byte = bytes[1] /\ asked[2].byte = bytes[2] /\ asked[3].byte = bytes[3] /\ asked[4].byte = bytes[4]
  BY DEF PacketSize
<1>5. Asked(sent[buf[1].of]) = StateFrom(asked)
  BY DEF Asked
<1> HIDE DEF bytes, asked
<1> QED
  BY <1>3, <1>4, <1>5 DEF StateFrom

(* The packet begins at the first later byte that could begin one.          *)
LEMMA Synced ==
  ASSUME NEW buf \in Seq(ByteType), Len(buf) = 4
  PROVE  \/ /\ SyncPackets(buf) = <<>> /\ \A i \in 2 .. 4 : ~Begins(buf[i].byte)
         \/ \E m \in 2 .. 4 :
              /\ Begins(buf[m].byte)
              /\ SyncPackets(buf) \in Seq(ByteType) /\ Len(SyncPackets(buf)) = 5 - m
              /\ \A i \in 1 .. 5 - m : SyncPackets(buf)[i] = buf[m + i - 1]
<1>1. CASE Later(buf) = {}
  BY <1>1 DEF SyncPackets, Later, PacketSize
<1>2. CASE Later(buf) # {}
  <2> DEFINE m == CHOOSE i \in Later(buf) : \A j \in Later(buf) : i <= j
  <2>1. Later(buf) \subseteq 2 .. 4 /\ \A i \in Later(buf) : Begins(buf[i].byte)
    BY DEF Later, PacketSize
  <2>2. \E i \in Later(buf) : \A j \in Later(buf) : i <= j
    BY <1>2, <2>1
  <2>3. m \in Later(buf)
    BY <2>2
  <2>4. SyncPackets(buf) = SubSeq(buf, m, 4)
    BY <1>2 DEF SyncPackets, PacketSize
  <2> HIDE DEF m
  <2>5. m \in 2 .. 4 /\ Begins(buf[m].byte)
    BY <2>1, <2>3
  <2>6. /\ SubSeq(buf, m, 4) \in Seq(ByteType) /\ Len(SubSeq(buf, m, 4)) = 5 - m
        /\ \A i \in 1 .. 5 - m : SubSeq(buf, m, 4)[i] = buf[m + i - 1]
    <3>1. \A i \in m .. 4 : buf[i] \in ByteType
      <4>1. \A i \in 1 .. 4 : buf[i] \in ByteType
        BY ElementOfSeq
      <4> QED
        BY <2>5, <4>1
    <3>2. /\ SubSeq(buf, m, 4) \in Seq(ByteType)
          /\ Len(SubSeq(buf, m, 4)) = IF m <= 4 THEN 4 - m + 1 ELSE 0
          /\ \A i \in 1 .. 4 - m + 1 : SubSeq(buf, m, 4)[i] = buf[m + i - 1]
      BY <3>1, <2>5, SubSeqProperties
    <3>3. m <= 4 /\ 4 - m + 1 = 5 - m
      BY <2>5
    <3> QED
      BY <3>2, <3>3
  <2> QED
    BY <2>4, <2>5, <2>6
<1> QED
  BY <1>1, <1>2

LEMMA FourLong ==
  ASSUME NEW S, NEW f \in [1 .. 4 -> S]
  PROVE  f \in Seq(S) /\ Len(f) = 4
<1>1. f \in Seq(S)
  BY SeqDef
<1>2. Len(f) \in Nat /\ 1 .. Len(f) = 1 .. 4
  BY <1>1, LenProperties
<1> QED
  BY <1>1, <1>2

-----------------------------------------------------------------------------
(* Mouse: the mouse and the thread                                          *)

LEMMA MouseCounts ==
  ASSUME MouseInv
  PROVE  /\ Len(sent) \in Nat /\ DOMAIN sent = 1 .. Len(sent)
         /\ Len(unsent) \in 0 .. 4 /\ DOMAIN unsent = 1 .. Len(unsent)
         /\ Len(packetBuffer) \in 0 .. 3 /\ DOMAIN packetBuffer = 1 .. Len(packetBuffer)
         /\ Passed = 4 * Len(sent) - Len(unsent) /\ Passed \in Int
         /\ calm \in 0 .. 8 /\ lost \in Nat /\ dropped \in Nat
         /\ sent \in Seq(Packets) /\ unsent \in Seq(ByteType) /\ packetBuffer \in Seq(ByteType)
         /\ (unsent = <<>> <=> Len(unsent) = 0)
<1>1. sent \in Seq(Packets) /\ unsent \in Seq(ByteType) /\ packetBuffer \in Seq(ByteType)
  BY DEF MouseInv, UnsentInv, BufferInv
<1>2. Len(unsent) <= 4 /\ Len(packetBuffer) < 4 /\ calm \in 0 .. 8 /\ lost \in Nat /\ dropped \in Nat
  BY DEF MouseInv, UnsentInv, BufferInv, CalmInv, CountInv, PacketSize
<1>3. /\ Len(sent) \in Nat /\ DOMAIN sent = 1 .. Len(sent)
      /\ Len(unsent) \in Nat /\ DOMAIN unsent = 1 .. Len(unsent)
      /\ Len(packetBuffer) \in Nat /\ DOMAIN packetBuffer = 1 .. Len(packetBuffer)
  BY <1>1, LenProperties
<1>4. unsent = <<>> <=> Len(unsent) = 0
  BY <1>1, EmptySeq
<1>5. Passed = 4 * Len(sent) - Len(unsent)
  BY DEF Passed, PacketSize
<1>6. Len(unsent) \in 0 .. 4 /\ Len(packetBuffer) \in 0 .. 3 /\ Passed \in Int
  <2> PICK u \in Nat, n \in Nat, l \in Nat : u = Len(unsent) /\ n = Len(packetBuffer) /\ l = Len(sent)
    BY <1>3
  <2>1. u <= 4 /\ n < 4
    BY <1>2
  <2>2. u \in 0 .. 4 /\ n \in 0 .. 3
    BY <2>1
  <2>3. 4 * l - u \in Int
    OBVIOUS
  <2> QED
    BY <1>5, <2>2, <2>3
<1> QED
  BY <1>1, <1>2, <1>3, <1>4, <1>5, <1>6

LEMMA ReportedIs ==
  ASSUME MouseInv
  PROVE  /\ Reported \in Seq(ReportType) /\ Len(Reported) \in Nat /\ DOMAIN Reported = 1 .. Len(Reported)
         /\ \A i \in DOMAIN Reported : Reported[i] \in ReportType /\ Reported[i].of \in Nat /\ Reported[i].whole \in BOOLEAN
<1>1. Reported \in Seq(ReportType)
  BY ConcatProperties DEF MouseInv, ReportsInv, Reported
<1>2. Len(Reported) \in Nat /\ DOMAIN Reported = 1 .. Len(Reported)
  BY <1>1, LenProperties
<1>3. \A i \in DOMAIN Reported : Reported[i] \in ReportType
  BY <1>1, <1>2, ElementOfSeq
<1> QED
  BY <1>1, <1>2, <1>3 DEF ReportType

LEMMA SendPacketKeeps ==
  ASSUME MouseInv, NEW p \in Packets, SendPacket(p)
  PROVE  MouseInv'
<1>1. PICK n \in Nat : n = Len(sent) /\ DOMAIN sent = 1 .. n /\ sent \in Seq(Packets)
  BY MouseCounts
<1>2. /\ unsent = <<>> /\ sent' = Append(sent, p)
      /\ unsent' = [k \in 1 .. PacketSize |-> [byte |-> BytesOf(p)[k], of |-> Len(sent'), at |-> k]]
      /\ UNCHANGED <<lost, packetBuffer, mouseStates, dropped, heard, calm>>
  BY DEF SendPacket
<1>3. /\ sent' \in Seq(Packets) /\ Len(sent') = n + 1 /\ DOMAIN sent' = 1 .. n + 1
      /\ \A i \in 1 .. n : sent'[i] = sent[i]
      /\ sent'[n + 1] = p
  <2>1. /\ sent' \in Seq(Packets) /\ Len(sent') = n + 1
        /\ \A i \in 1 .. n : sent'[i] = sent[i]
        /\ sent'[n + 1] = p
    BY <1>1, <1>2, AppendProperties
  <2> QED
    BY <2>1, LenProperties
<1>4. unsent' = [k \in 1 .. 4 |-> [byte |-> BytesOf(p)[k], of |-> n + 1, at |-> k]]
  BY <1>2, <1>3 DEF PacketSize
<1>5. /\ unsent' \in Seq(ByteType) /\ Len(unsent') = 4 /\ DOMAIN unsent' = 1 .. 4
      /\ unsent' # <<>>
  <2>1. ASSUME NEW k \in 1 .. 4 PROVE [byte |-> BytesOf(p)[k], of |-> n + 1, at |-> k] \in ByteType
    <3>1. BytesOf(p)[k] \in Int
      BY BytesOfAPacket DEF PacketSize
    <3> QED
      BY <3>1 DEF ByteType, PacketSize
  <2>2. unsent' \in [1 .. 4 -> ByteType]
    BY <1>4, <2>1
  <2>3. unsent' \in Seq(ByteType) /\ Len(unsent') = 4
    BY <2>2, FourLong
  <2>4. Len(<<>>) = 0
    BY EmptySeq
  <2>5. unsent' # <<>>
    BY <2>3, <2>4
  <2> QED
    BY <2>2, <2>3, <2>5
<1>6. Passed = 4 * n /\ Passed' = 4 * n
  <2>1. Len(unsent) = 0
    BY <1>2, MouseCounts
  <2> QED
    BY <1>1, <1>3, <1>5, <2>1 DEF Passed, PacketSize
<1>7. ASSUME NEW b, IsSent(b) PROVE IsSent(b)'
  BY <1>1, <1>3, <1>7 DEF IsSent
<1>8. UnsentInv'
  <2>1. ASSUME NEW k \in 1 .. 4 PROVE IsSent(unsent[k])' /\ Place(unsent'[k]) = 4 * n + k
    <3>1. unsent'[k].of = n + 1 /\ unsent'[k].at = k /\ unsent'[k].byte = BytesOf(p)[k]
      BY <1>4
    <3> QED
      BY <1>1, <1>3, <3>1 DEF IsSent, Place, PacketSize
  <2> QED
    BY <1>5, <1>6, <2>1 DEF UnsentInv, PacketSize
<1>9. BufferInv'
  BY <1>2, <1>6, <1>7 DEF MouseInv, BufferInv
<1>13. InStep => InStep'
  <2> SUFFICES ASSUME InStep PROVE InStep'
    OBVIOUS
  <2>1. PICK m \in 0 .. 3 : m = Len(packetBuffer)
    BY MouseCounts
  <2>2. Len(unsent) = 0 /\ 0 \in 0 .. 4 /\ 4 \in 0 .. 4
    BY <1>2, MouseCounts
  <2>3. 0 % PacketSize = (PacketSize - m) % PacketSize
    BY <2>1, <2>2 DEF InStep
  <2>4. m = 0
    <3>1. IF m = 0 THEN 0 \in {0, 4} ELSE 0 = 4 - m
      BY <2>2, <2>3, StepIs
    <3> QED
      BY <3>1
  <2>5. 4 % PacketSize = (PacketSize - m) % PacketSize
    BY <2>2, <2>4, StepIs
  <2>6. packetBuffer = <<>>
    BY <2>1, <2>4, MouseCounts, EmptySeq
  <2> QED
    BY <1>2, <1>5, <2>1, <2>5, <2>6 DEF InStep
<1>10. CalmInv'
  BY <1>2, <1>6, <1>13 DEF MouseInv, CalmInv
<1>11. ReportsInv'
  <2>1. Reported' = Reported
    BY <1>2 DEF Reported
  <2>2. \A i \in DOMAIN Reported : Right(Reported[i]) => Right(Reported[i])'
    BY <1>1, <1>3, <2>1 DEF Right
  <2> QED
    BY <1>2, <1>6, <2>1, <2>2 DEF MouseInv, ReportsInv
<1>12. CountInv'
  <2>1. Reported' = Reported
    BY <1>2 DEF Reported
  <2>2. Plain' => Plain
    BY <1>1, <1>2, <1>3 DEF Plain
  <2>3. Gone' = n /\ Gone = n
    BY <1>1, <1>2, <1>3, <1>5 DEF Gone
  <2>4. Counted' = Counted
    BY <1>1, <1>3, <2>3 DEF Counted
  <2> QED
    BY <1>2, <1>13, <2>1, <2>2, <2>4 DEF MouseInv, CountInv
<1> QED
  BY <1>3, <1>8, <1>9, <1>10, <1>11, <1>12 DEF MouseInv

(* A byte leaves the wire.                                                  *)
LEMMA ByteComes ==
  ASSUME MouseInv, unsent # <<>>, unsent' = Tail(unsent), sent' = sent
  PROVE  /\ UnsentInv' /\ Passed' = Passed + 1 /\ Len(unsent') = Len(unsent) - 1 /\ Len(unsent) \in 1 .. 4
         /\ (unsent' = <<>> <=> Len(unsent') = 0)
         /\ Head(unsent) \in ByteType /\ IsSent(Head(unsent)) /\ Place(Head(unsent)) = Passed + 1
<1>1. PICK u \in 1 .. 4 : u = Len(unsent) /\ DOMAIN unsent = 1 .. u /\ unsent \in Seq(ByteType)
  <2>1. Len(unsent) \in 0 .. 4 /\ Len(unsent) # 0 /\ DOMAIN unsent = 1 .. Len(unsent) /\ unsent \in Seq(ByteType)
    BY MouseCounts
  <2>2. Len(unsent) \in 1 .. 4
    BY <2>1
  <2> QED
    BY <2>1, <2>2
<1>2. /\ unsent' \in Seq(ByteType) /\ Len(unsent') = u - 1 /\ Head(unsent) = unsent[1]
      /\ \A k \in 1 .. u - 1 : unsent'[k] = unsent[k + 1]
      /\ Head(unsent) \in ByteType
  BY <1>1, HeadTailProperties
<1>3. DOMAIN unsent' = 1 .. u - 1 /\ (unsent' = <<>> <=> Len(unsent') = 0)
  BY <1>2, LenProperties, EmptySeq
<1>4. \A k \in 1 .. u : IsSent(unsent[k]) /\ Place(unsent[k]) = Passed + k
  BY <1>1 DEF MouseInv, UnsentInv
<1>5. Passed' = Passed + 1 /\ Passed \in Int
  <2>1. Passed = 4 * Len(sent) - u /\ Len(sent) \in Int /\ Passed' = 4 * Len(sent) - (u - 1)
    BY <1>1, <1>2, MouseCounts DEF Passed, PacketSize
  <2> QED
    BY <2>1
<1>6. UnsentInv'
  <2>1. ASSUME NEW k \in 1 .. u - 1 PROVE IsSent(unsent[k])' /\ Place(unsent'[k]) = Passed' + k
    <3>1. k + 1 \in 1 .. u /\ unsent'[k] = unsent[k + 1]
      BY <1>2
    <3>2. IsSent(unsent[k + 1]) /\ Place(unsent[k + 1]) = Passed + (k + 1)
      BY <1>4, <3>1
    <3>3. Place(unsent'[k]) = Passed' + k
      <4>1. Passed + (k + 1) = (Passed + 1) + k
        BY <1>5
      <4> QED
        BY <1>5, <3>1, <3>2, <4>1
    <3> QED
      BY <3>1, <3>2, <3>3 DEF IsSent
  <2> QED
    BY <1>2, <1>3, <2>1 DEF UnsentInv, PacketSize
<1>7. IsSent(Head(unsent)) /\ Place(Head(unsent)) = Passed + 1
  BY <1>2, <1>4
<1> QED
  BY <1>1, <1>2, <1>3, <1>5, <1>6, <1>7

LEMMA LoseByteKeeps ==
  ASSUME MouseInv, LoseByte
  PROVE  MouseInv'
<1>1. /\ unsent # <<>> /\ unsent' = Tail(unsent) /\ lost' = lost + 1 /\ calm' = 0
      /\ UNCHANGED <<sent, packetBuffer, mouseStates, dropped, heard>>
  BY DEF LoseByte
<1>2. UnsentInv' /\ Passed' = Passed + 1 /\ Passed \in Int
  BY <1>1, ByteComes, MouseCounts
<1>3. \A b : IsSent(b)' <=> IsSent(b)
  BY <1>1 DEF IsSent
<1>4. \A i \in DOMAIN packetBuffer : packetBuffer[i] \in ByteType /\ Place(packetBuffer[i]) \in Int
  BY MouseCounts, ElementOfSeq, ByteFields
<1>5. BufferInv'
  BY <1>1, <1>2, <1>3, <1>4 DEF MouseInv, BufferInv
<1>6. CalmInv'
  <2>1. Len(packetBuffer) \in 0 .. 3 /\ DOMAIN packetBuffer = 1 .. Len(packetBuffer)
    BY MouseCounts
  <2>2. \A i \in DOMAIN packetBuffer : ~(i + 0 > Len(packetBuffer))
    BY <2>1
  <2>3. ~(0 >= Len(packetBuffer) + 4) /\ 0 \in 0 .. 2 * 4
    BY <2>1
  <2> QED
    BY <1>1, <2>2, <2>3 DEF CalmInv, PacketSize
<1>7. ReportsInv'
  <2>1. Reported' = Reported
    BY <1>1 DEF Reported
  <2>2. \A i \in DOMAIN Reported : Right(Reported[i]) => Right(Reported[i])'
    BY <1>1, <2>1 DEF Right
  <2>3. \A i \in DOMAIN Reported : Begun(Reported[i]) \in Int
    BY ReportedIs DEF Begun, PacketSize
  <2> QED
    BY <1>1, <1>2, <2>1, <2>2, <2>3 DEF MouseInv, ReportsInv
<1>8. CountInv'
  <2>1. lost \in Nat /\ dropped \in Nat /\ lost + 1 # 0 /\ lost + 1 \in Nat
    BY MouseCounts
  <2> QED
    BY <1>1, <2>1 DEF CountInv, Plain
<1> QED
  BY <1>1, <1>2, <1>5, <1>6, <1>7, <1>8 DEF MouseInv

(* The thread hands on the oldest.                                          *)
LEMMA ProcessPacketKeeps ==
  ASSUME MouseInv, ProcessPacket
  PROVE  MouseInv'
<1>1. /\ mouseStates # <<>> /\ heard' = Append(heard, Head(mouseStates)) /\ mouseStates' = Tail(mouseStates)
      /\ UNCHANGED <<sent, unsent, lost, packetBuffer, dropped, calm>>
  BY DEF ProcessPacket
<1>2. heard \in Seq(ReportType) /\ mouseStates \in Seq(ReportType)
  BY DEF MouseInv, ReportsInv
<1>3. PICK h \in Nat, m \in Nat : h = Len(heard) /\ m = Len(mouseStates) /\ m # 0
  BY <1>1, <1>2, EmptySeq, LenProperties
<1>4. /\ Head(mouseStates) = mouseStates[1] /\ Head(mouseStates) \in ReportType
      /\ mouseStates' \in Seq(ReportType) /\ Len(mouseStates') = m - 1
      /\ \A k \in 1 .. m - 1 : mouseStates'[k] = mouseStates[k + 1]
  BY <1>1, <1>2, <1>3, HeadTailProperties
<1>5. /\ heard' \in Seq(ReportType) /\ Len(heard') = h + 1
      /\ \A k \in 1 .. h : heard'[k] = heard[k]
      /\ heard'[h + 1] = mouseStates[1]
  BY <1>1, <1>2, <1>3, <1>4, AppendProperties
<1>6. /\ Reported \in Seq(ReportType) /\ Len(Reported) = h + m
      /\ \A k \in 1 .. h + m : Reported[k] = IF k <= h THEN heard[k] ELSE mouseStates[k - h]
  BY <1>2, <1>3, ConcatProperties DEF Reported
<1>7. PICK r : r = Reported'
  OBVIOUS
<1>8. r \in Seq(ReportType) /\ Len(r) = h + m
      /\ \A k \in 1 .. h + m : r[k] = IF k <= h + 1 THEN heard'[k] ELSE mouseStates'[k - (h + 1)]
  <2>1. /\ r \in Seq(ReportType) /\ Len(r) = (h + 1) + (m - 1)
        /\ \A k \in 1 .. (h + 1) + (m - 1) : r[k] = IF k <= h + 1 THEN heard'[k] ELSE mouseStates'[k - (h + 1)]
    BY <1>4, <1>5, <1>7, ConcatProperties DEF Reported
  <2>2. (h + 1) + (m - 1) = h + m
    OBVIOUS
  <2> QED
    BY <2>1, <2>2
<1>9. ASSUME NEW k \in 1 .. h + m PROVE r[k] = Reported[k]
  <2>1. CASE k <= h
    BY <1>5, <1>6, <1>8, <2>1
  <2>2. CASE k = h + 1
    <3>1. k - h = 1 /\ ~(k <= h) /\ k <= h + 1
      BY <2>2
    <3> QED
      BY <1>5, <1>6, <1>8, <2>2, <3>1
  <2>3. CASE k > h + 1
    <3>1. k - (h + 1) \in 1 .. m - 1 /\ (k - (h + 1)) + 1 = k - h /\ ~(k <= h) /\ ~(k <= h + 1)
      BY <2>3
    <3> QED
      BY <1>4, <1>6, <1>8, <3>1
  <2> QED
    BY <2>1, <2>2, <2>3
<1>10. Reported' = Reported
  BY <1>6, <1>7, <1>8, <1>9, SeqEqual
<1>11. ReportsInv'
  BY <1>1, <1>4, <1>5, <1>10 DEF MouseInv, ReportsInv, Right, Passed
<1>12. UnsentInv' /\ BufferInv' /\ CalmInv'
  BY <1>1 DEF MouseInv, UnsentInv, BufferInv, CalmInv, InStep, Passed, IsSent
<1>13. CountInv'
  BY <1>1, <1>10 DEF MouseInv, CountInv, InStep, Plain, Counted, Gone
<1> QED
  BY <1>1, <1>11, <1>12, <1>13 DEF MouseInv

-----------------------------------------------------------------------------
(* Mouse: the driver                                                        *)

(* What is known of the driver's bytes when one has come, with calm at c:   *)
(* they are in the order sent, the last is the last sent, and those since   *)
(* something went wrong are next to each other.                             *)
Come(buf, c) ==
  /\ buf \in Seq(ByteType) /\ Len(buf) = Len(packetBuffer) + 1
  /\ \A i \in 1 .. Len(buf) : IsSent(buf[i]) /\ Place(buf[i]) <= Passed + 1
  /\ \A i, j \in 1 .. Len(buf) : i < j => Place(buf[i]) < Place(buf[j])
  /\ \A i \in 1 .. Len(buf) :
       i + c > Len(buf) => Place(buf[i]) = Passed + 1 - (Len(buf) - i) /\ ~Confusing(buf[i])

LEMMA ByteHasCome ==
  ASSUME MouseInv, unsent # <<>>, unsent' = Tail(unsent), sent' = sent,
         NEW buf, buf = Append(packetBuffer, Head(unsent)), NEW c,
         c = IF Confusing(Head(unsent)) THEN 0 ELSE IF calm < 2 * PacketSize THEN calm + 1 ELSE calm
  PROVE  /\ Come(buf, c) /\ c \in 0 .. 8 /\ (c > 0 => c <= calm + 1)
         /\ \A i \in 1 .. Len(packetBuffer) : buf[i] = packetBuffer[i]
         /\ buf[Len(packetBuffer) + 1] = Head(unsent)
<1>1. PICK n \in 0 .. 3 : n = Len(packetBuffer) /\ DOMAIN packetBuffer = 1 .. n
  BY MouseCounts
<1>2. PICK p \in Int : p = Passed
  BY MouseCounts
<1>3. PICK b \in ByteType : b = Head(unsent) /\ IsSent(b) /\ Place(b) = p + 1
  BY <1>2, ByteComes
<1>4. /\ buf \in Seq(ByteType) /\ Len(buf) = n + 1
      /\ \A i \in 1 .. n : buf[i] = packetBuffer[i]
      /\ buf[n + 1] = b
  BY <1>1, <1>3, MouseCounts, AppendProperties
<1>5. \A i \in 1 .. n + 1 : i \in 1 .. n \/ i = n + 1
  OBVIOUS
<1>6. /\ \A i \in 1 .. n : IsSent(packetBuffer[i]) /\ Place(packetBuffer[i]) <= p
      /\ \A i, j \in 1 .. n : i < j => Place(packetBuffer[i]) < Place(packetBuffer[j])
      /\ \A i \in 1 .. n : i + calm > n => Place(packetBuffer[i]) = p - (n - i) /\ ~Confusing(packetBuffer[i])
  BY <1>1, <1>2 DEF MouseInv, BufferInv, CalmInv
<1>7. \A i \in 1 .. n : Place(packetBuffer[i]) \in Int
  <2>1. \A i \in 1 .. n : packetBuffer[i] \in ByteType
    BY <1>1, MouseCounts, ElementOfSeq
  <2> QED
    BY <2>1, ByteFields
<1>8. c \in 0 .. 8 /\ (c > 0 => c <= calm + 1 /\ ~Confusing(b))
  <2>1. PICK k \in 0 .. 8 : k = calm
    BY MouseCounts
  <2>2. c = IF Confusing(b) THEN 0 ELSE IF k < 8 THEN k + 1 ELSE k
    BY <1>3, <2>1 DEF PacketSize
  <2>3. CASE Confusing(b)
    BY <2>2, <2>3
  <2>4. CASE ~Confusing(b)
    BY <2>1, <2>2, <2>4
  <2> QED
    BY <2>3, <2>4
<1>9. ASSUME NEW i \in 1 .. n + 1 PROVE IsSent(buf[i]) /\ Place(buf[i]) <= p + 1
  <2>1. CASE i \in 1 .. n
    BY <1>4, <1>6, <1>7, <2>1
  <2>2. CASE i = n + 1
    BY <1>3, <1>4, <2>2
  <2> QED
    BY <1>5, <2>1, <2>2
<1>10. ASSUME NEW i \in 1 .. n + 1, NEW j \in 1 .. n + 1, i < j PROVE Place(buf[i]) < Place(buf[j])
  <2>1. i \in 1 .. n
    BY <1>10
  <2>2. CASE j \in 1 .. n
    BY <1>4, <1>6, <1>10, <2>1, <2>2
  <2>3. CASE j = n + 1
    <3>1. Place(packetBuffer[i]) <= p /\ Place(packetBuffer[i]) \in Int
      BY <1>6, <1>7, <2>1
    <3>2. Place(packetBuffer[i]) < p + 1
      BY <3>1
    <3> QED
      BY <1>3, <1>4, <2>1, <2>3, <3>2
  <2> QED
    BY <1>5, <2>2, <2>3
<1>11. ASSUME NEW i \in 1 .. n + 1, i + c > n + 1
       PROVE  Place(buf[i]) = p + 1 - (n + 1 - i) /\ ~Confusing(buf[i])
  <2>0. c \in Int /\ calm \in Int
    BY <1>8, MouseCounts
  <2>4. c > 0
    BY <1>11, <2>0
  <2>1. c > 0 /\ c <= calm + 1 /\ ~Confusing(b) /\ c \in Int /\ calm \in Int
    BY <1>8, <2>0, <2>4
  <2>2. CASE i \in 1 .. n
    <3>1. i + calm > n
      BY <1>11, <2>1
    <3>2. Place(packetBuffer[i]) = p - (n - i) /\ ~Confusing(packetBuffer[i]) /\ buf[i] = packetBuffer[i]
      BY <1>4, <1>6, <2>2, <3>1
    <3>3. p - (n - i) = p + 1 - (n + 1 - i)
      OBVIOUS
    <3> QED
      BY <3>2, <3>3
  <2>3. CASE i = n + 1
    <3>1. p + 1 = p + 1 - (n + 1 - i)
      BY <2>3
    <3> QED
      BY <1>3, <1>4, <2>1, <2>3, <3>1
  <2> QED
    BY <1>5, <2>2, <2>3
<1>12. Come(buf, c)
  BY <1>1, <1>2, <1>4, <1>9, <1>10, <1>11 DEF Come
<1> QED
  BY <1>1, <1>3, <1>4, <1>8, <1>12

(* In step, the byte that comes is the next of the packet.                  *)
LEMMA StepsOn ==
  ASSUME MouseInv, InStep, unsent # <<>>, NEW buf, buf = Append(packetBuffer, Head(unsent))
  PROVE  /\ Len(unsent) = 4 - Len(packetBuffer)
         /\ \A i \in 1 .. Len(packetBuffer) + 1 : buf[i].at = i /\ buf[i].of = Len(sent)
<1>1. PICK n \in 0 .. 3 : n = Len(packetBuffer) /\ DOMAIN packetBuffer = 1 .. n
  BY MouseCounts
<1>2. PICK u \in 1 .. 4 : u = Len(unsent) /\ DOMAIN unsent = 1 .. u
  <2>1. Len(unsent) \in 0 .. 4 /\ Len(unsent) # 0 /\ DOMAIN unsent = 1 .. Len(unsent)
    BY MouseCounts
  <2>2. Len(unsent) \in 1 .. 4
    BY <2>1
  <2> QED
    BY <2>1, <2>2
<1>3. u = 4 - n
  <2>1. u \in 0 .. 4 /\ u % PacketSize = (PacketSize - n) % PacketSize
    BY <1>1, <1>2 DEF InStep
  <2>2. IF n = 0 THEN u \in {0, 4} ELSE u = 4 - n
    BY <2>1, StepIs
  <2> QED
    BY <2>2
<1>4. PICK l \in Nat : l = Len(sent) /\ Passed = 4 * l - u
  BY <1>2, MouseCounts
<1>5. PICK b \in ByteType : b = Head(unsent) /\ Place(b) = (4 * l - u) + 1
  <2>1. unsent \in Seq(ByteType) /\ Head(unsent) = unsent[1]
    BY MouseCounts, HeadTailProperties
  <2>2. unsent[1] \in ByteType
    BY <1>2, <2>1, ElementOfSeq
  <2>3. Place(unsent[1]) = Passed + 1
    BY <1>2 DEF MouseInv, UnsentInv
  <2> QED
    BY <1>4, <2>1, <2>2, <2>3
<1>6. b.of = l /\ b.at = n + 1
  <2>1. b.of \in Int /\ b.at \in 1 .. 4 /\ 4 * (b.of - 1) + b.at = (4 * l - u) + 1
    BY <1>5, ByteFields
  <2>2. (4 * l - u) + 1 = 4 * (l - 1) + (n + 1) /\ n + 1 \in 1 .. 4
    BY <1>3
  <2>3. PICK m \in Int, a \in 1 .. 4 : m = b.of /\ a = b.at
    BY <2>1
  <2>4. 4 * (m - 1) + a = 4 * (l - 1) + (n + 1)
    BY <2>1, <2>2, <2>3
  <2>5. m = l /\ a = n + 1
    BY <2>2, <2>4, SamePlace
  <2> QED
    BY <2>3, <2>5
<1>7. /\ \A i \in 1 .. n : buf[i] = packetBuffer[i]
      /\ buf[n + 1] = b
  BY <1>1, <1>5, MouseCounts, AppendProperties
<1>8. ASSUME NEW i \in 1 .. n PROVE packetBuffer[i].at = i /\ packetBuffer[i].of = l
  <2>1. packetBuffer # <<>>
    BY <1>1, EmptySeq
  <2> QED
    BY <1>1, <1>4, <2>1 DEF InStep, Whole
<1>9. ASSUME NEW i \in 1 .. n + 1 PROVE buf[i].at = i /\ buf[i].of = l
  <2>1. CASE i \in 1 .. n
    BY <1>7, <1>8, <2>1
  <2>2. CASE i = n + 1
    BY <1>6, <1>7, <2>2
  <2>3. i \in 1 .. n \/ i = n + 1
    OBVIOUS
  <2> QED
    BY <2>1, <2>2, <2>3
<1> QED
  BY <1>1, <1>2, <1>3, <1>4, <1>9

LEMMA PlacesAround ==
  ASSUME NEW l \in Int, NEW m \in 1 .. 4, NEW i \in 1 .. 4
  PROVE  /\ i >= m => /\ i - m + 1 \in 1 .. 4
                      /\ 4 * l - (m - 1) - (4 - i) = 4 * (l - 1) + (i - m + 1)
         /\ i < m => /\ i - m + 5 \in 1 .. 4 /\ l - 1 \in Int
                     /\ 4 * l - (m - 1) - (4 - i) = 4 * ((l - 1) - 1) + (i - m + 5)
OBVIOUS

NextToEachOther(buf, last) ==
  \A i \in 1 .. 4 : IsSent(buf[i]) /\ Place(buf[i]) = last - (4 - i) /\ ~Confusing(buf[i])
BeginsAt(buf, m, left, packet) ==
  /\ \A i \in 1 .. 4 : Begins(buf[i].byte) <=> i = m
  /\ left = m - 1
  /\ \A i \in m .. 4 : buf[i].at = i - m + 1 /\ buf[i].of = packet

(* A packet's worth of calm bytes holds a first byte, and what follows it is  *)
(* the beginning of that packet.                                            *)
LEMMA CalmBytes ==
  ASSUME MouseInv, NEW buf \in Seq(ByteType), Len(buf) = 4, NEW p \in Int, NEW l \in Int, NEW u \in 0 .. 3,
         p = 4 * l - u, NextToEachOther(buf, p)
  PROVE  \E m \in 1 .. 4 : BeginsAt(buf, m, u, l)
<1>0. \A i \in 1 .. 4 : IsSent(buf[i]) /\ Place(buf[i]) = p - (4 - i) /\ ~Confusing(buf[i])
  BY DEF NextToEachOther
<1>1. \A i \in 1 .. 4 : buf[i] \in ByteType
  BY ElementOfSeq
<1>2. \A i \in 1 .. 4 : /\ buf[i].of \in Int /\ buf[i].at \in 1 .. 4
                       /\ 4 * (buf[i].of - 1) + buf[i].at = p - (4 - i)
  <2>1. \A i \in 1 .. 4 : /\ buf[i].of \in Nat \ {0} /\ buf[i].at \in 1 .. 4
                         /\ Place(buf[i]) = 4 * (buf[i].of - 1) + buf[i].at
    BY <1>1, ByteFields
  <2> SUFFICES ASSUME NEW i \in 1 .. 4
               PROVE  /\ buf[i].of \in Int /\ buf[i].at \in 1 .. 4
                      /\ 4 * (buf[i].of - 1) + buf[i].at = p - (4 - i)
    OBVIOUS
  <2>2. Place(buf[i]) = p - (4 - i)
    BY <1>0
  <2>3. 4 * (buf[i].of - 1) + buf[i].at = p - (4 - i)
    BY <2>1, <2>2, Zenon
  <2>4. buf[i].of \in Int /\ buf[i].at \in 1 .. 4
    <3>1. PICK b \in ByteType : b = buf[i]
      BY <1>1
    <3>2. b.of \in Int /\ b.at \in 1 .. 4
      BY <3>1 DEF ByteType, PacketSize
    <3> QED
      BY <3>1, <3>2
  <2> QED
    BY <2>3, <2>4
<1>3. \A i \in 1 .. 4 : Begins(buf[i].byte) <=> buf[i].at = 1
  <2>1. sent \in Seq(Packets)
    BY MouseCounts
  <2>2. \A i \in 1 .. 4 : buf[i].at = 1 => Begins(buf[i].byte)
    BY <1>0, <1>1, <2>1, FirstByteBegins
  <2> QED
    BY <1>0, <2>2 DEF Confusing
<1>4. PICK m \in 1 .. 4 : u = m - 1
  <2>1. u + 1 \in 1 .. 4 /\ u = (u + 1) - 1
    OBVIOUS
  <2> QED
    BY <2>1
<1>5. ASSUME NEW i \in 1 .. 4
      PROVE  IF i >= m THEN buf[i].at = i - m + 1 /\ buf[i].of = l ELSE buf[i].at = i - m + 5 /\ buf[i].of = l - 1
  <2>1. PICK o \in Int, a \in 1 .. 4 : o = buf[i].of /\ a = buf[i].at
    BY <1>2
  <2>4. 4 * (o - 1) + a = 4 * l - (m - 1) - (4 - i)
    BY <1>2, <1>4, <2>1
  <2>2. CASE i >= m
    <3>1. i - m + 1 \in 1 .. 4 /\ 4 * l - (m - 1) - (4 - i) = 4 * (l - 1) + (i - m + 1)
      BY <2>2, PlacesAround
    <3>3. 4 * (o - 1) + a = 4 * (l - 1) + (i - m + 1)
      BY <2>4, <3>1
    <3>2. o = l /\ a = i - m + 1
      BY <3>1, <3>3, SamePlace
    <3> QED
      BY <2>1, <2>2, <3>2
  <2>3. CASE i < m
    <3>1. i - m + 5 \in 1 .. 4 /\ l - 1 \in Int /\ 4 * l - (m - 1) - (4 - i) = 4 * ((l - 1) - 1) + (i - m + 5)
      BY <2>3, PlacesAround
    <3>4. 4 * (o - 1) + a = 4 * ((l - 1) - 1) + (i - m + 5)
      BY <2>4, <3>1
    <3>2. o = l - 1 /\ a = i - m + 5
      BY <3>1, <3>4, SamePlace
    <3>3. ~(i >= m)
      BY <2>3
    <3> QED
      BY <2>1, <3>2, <3>3
  <2> QED
    BY <2>2, <2>3
<1>6. \A i \in m .. 4 : buf[i].at = i - m + 1 /\ buf[i].of = l
  <2> SUFFICES ASSUME NEW i \in m .. 4 PROVE buf[i].at = i - m + 1 /\ buf[i].of = l
    OBVIOUS
  <2>1. i \in 1 .. 4 /\ i >= m
    OBVIOUS
  <2> QED
    BY <1>5, <2>1
<1>7. ASSUME NEW i \in 1 .. 4 PROVE buf[i].at = 1 <=> i = m
  <2>1. CASE i >= m
    <3>1. buf[i].at = i - m + 1
      BY <1>5, <2>1
    <3> QED
      BY <3>1
  <2>2. CASE i < m
    <3>1. ~(i >= m) /\ i # m /\ i - m + 5 # 1
      BY <2>2
    <3>2. buf[i].at = i - m + 5
      BY <1>5, <3>1
    <3> QED
      BY <3>1, <3>2
  <2> QED
    BY <2>1, <2>2
<1>8. \A i \in 1 .. 4 : Begins(buf[i].byte) <=> i = m
  BY <1>3, <1>7
<1> QED
  BY <1>4, <1>6, <1>8 DEF BeginsAt

(* The three ways the handler ends.                                         *)
Handled(buf) ==
  /\ buf \in Seq(ByteType) /\ buf = Append(packetBuffer, Head(unsent))
  /\ Come(buf, calm') /\ calm' \in 0 .. 8 /\ (calm' > 0 => calm' <= calm + 1)
  /\ \A i \in 1 .. Len(packetBuffer) : buf[i] = packetBuffer[i]
  /\ buf[Len(packetBuffer) + 1] = Head(unsent)
  /\ unsent # <<>> /\ unsent' = Tail(unsent) /\ UNCHANGED <<sent, lost, heard>>
Waits(buf) == packetBuffer' = buf /\ UNCHANGED <<mouseStates, dropped>>
Report(buf) == [state |-> StateFrom(buf), of |-> buf[1].of, whole |-> Whole(buf)]
Takes(buf) ==
  /\ IsValid(buf[1].byte) /\ packetBuffer' = <<>>
  /\ \/ mouseStates' = Append(mouseStates, Report(buf)) /\ dropped' = dropped
     \/ mouseStates' = mouseStates /\ dropped' = dropped + 1
Syncs(buf) ==
  /\ ~IsValid(buf[1].byte) /\ packetBuffer' = SyncPackets(buf)
  /\ UNCHANGED <<mouseStates, dropped>>

LEMMA HandleByteIs ==
  ASSUME MouseInv, HandleByte
  PROVE  \E buf : /\ Handled(buf)
                  /\ \/ Len(packetBuffer) < 3 /\ Waits(buf)
                     \/ Len(packetBuffer) = 3 /\ (Takes(buf) \/ Syncs(buf))
<1> PICK buf : buf = Append(packetBuffer, Head(unsent))
  OBVIOUS
<1>1. /\ unsent # <<>> /\ unsent' = Tail(unsent) /\ UNCHANGED <<sent, lost, heard>>
      /\ calm' = IF Confusing(Head(unsent)) THEN 0 ELSE IF calm < 2 * PacketSize THEN calm + 1 ELSE calm
  BY DEF HandleByte
<1>2. /\ Come(buf, calm') /\ calm' \in 0 .. 8 /\ (calm' > 0 => calm' <= calm + 1)
      /\ \A i \in 1 .. Len(packetBuffer) : buf[i] = packetBuffer[i]
      /\ buf[Len(packetBuffer) + 1] = Head(unsent)
  BY <1>1, ByteHasCome
<1>3. buf \in Seq(ByteType) /\ Len(buf) = Len(packetBuffer) + 1
  BY <1>2 DEF Come
<1>4. Len(packetBuffer) \in 0 .. 3
  BY MouseCounts
<1>5. /\ (Len(buf) = 4 <=> Len(packetBuffer) = 3)
      /\ Len(packetBuffer) = 3 \/ Len(packetBuffer) < 3
  BY <1>3, <1>4
<1>10. Handled(buf)
  BY <1>1, <1>2, <1>3 DEF Handled
<1> DEFINE takes == Len(buf) = 4 /\ IsValid(buf[1].byte)
           room == Len(mouseStates) < StateSlots - 1
<1>6. /\ packetBuffer' = IF Len(buf) # 4 THEN buf ELSE IF takes THEN <<>> ELSE SyncPackets(buf)
      /\ mouseStates' = IF takes /\ room THEN Append(mouseStates, Report(buf)) ELSE mouseStates
      /\ dropped' = IF takes /\ ~room THEN dropped + 1 ELSE dropped
  BY DEF HandleByte, PacketSize, Report
<1>7. CASE Len(packetBuffer) < 3
  <2>1. Len(packetBuffer) # 3
    BY <1>4, <1>7
  <2>2. Len(buf) # 4
    BY <1>5, <2>1
  <2>3. Waits(buf)
    BY <1>6, <2>2 DEF Waits
  <2> QED
    BY <1>7, <1>10, <2>3
<1>8. CASE Len(packetBuffer) = 3 /\ IsValid(buf[1].byte)
  <2>1. Len(buf) = 4 /\ takes
    BY <1>5, <1>8
  <2>2. Takes(buf)
    BY <1>6, <1>8, <2>1 DEF Takes
  <2> QED
    BY <1>8, <1>10, <2>2
<1>9. CASE Len(packetBuffer) = 3 /\ ~IsValid(buf[1].byte)
  <2>1. Len(buf) = 4 /\ ~takes
    BY <1>5, <1>9
  <2>2. Syncs(buf)
    BY <1>6, <1>9, <2>1 DEF Syncs
  <2> QED
    BY <1>9, <1>10, <2>2
<1> QED
  BY <1>5, <1>7, <1>8, <1>9

(* The buffer grows: what is known of its bytes stays.                      *)
LEMMA BufferGrows ==
  ASSUME MouseInv, NEW buf, Handled(buf), Waits(buf), Len(packetBuffer) < 3
  PROVE  MouseInv'
<1>1. /\ buf = Append(packetBuffer, Head(unsent)) /\ Come(buf, calm') /\ calm' \in 0 .. 8
      /\ (calm' > 0 => calm' <= calm + 1) /\ buf \in Seq(ByteType)
      /\ \A i \in 1 .. Len(packetBuffer) : buf[i] = packetBuffer[i]
      /\ buf[Len(packetBuffer) + 1] = Head(unsent)
      /\ unsent # <<>> /\ unsent' = Tail(unsent) /\ UNCHANGED <<sent, lost, heard>>
      /\ packetBuffer' = buf /\ UNCHANGED <<mouseStates, dropped>>
  BY DEF Handled, Waits
<1>2. PICK n \in 0 .. 2 : n = Len(packetBuffer) /\ Len(buf) = n + 1
  <2>1. PICK k \in 0 .. 3 : k = Len(packetBuffer) /\ k < 3
    BY MouseCounts
  <2>2. k \in 0 .. 2
    BY <2>1
  <2>3. Len(buf) = Len(packetBuffer) + 1
    BY <1>1 DEF Come
  <2> QED
    BY <2>1, <2>2, <2>3
<1>3. PICK p \in Int : p = Passed /\ Passed' = p + 1
  BY <1>1, ByteComes, MouseCounts
<1>4. UnsentInv' /\ Len(unsent') = Len(unsent) - 1 /\ (unsent' = <<>> <=> Len(unsent') = 0) /\ Len(unsent) \in 1 .. 4
  BY <1>1, ByteComes
<1>5. \A b : IsSent(b)' <=> IsSent(b)
  BY <1>1 DEF IsSent
<1>6. DOMAIN buf = 1 .. n + 1 /\ buf # <<>>
  BY <1>1, <1>2, LenProperties, EmptySeq
<1>7. /\ \A i \in 1 .. n + 1 : IsSent(buf[i]) /\ Place(buf[i]) <= p + 1
      /\ \A i, j \in 1 .. n + 1 : i < j => Place(buf[i]) < Place(buf[j])
      /\ \A i \in 1 .. n + 1 :
           i + calm' > n + 1 => Place(buf[i]) = p + 1 - (n + 1 - i) /\ ~Confusing(buf[i])
  BY <1>1, <1>2, <1>3 DEF Come
<1>8. BufferInv'
  <2>1. n + 1 < 4
    OBVIOUS
  <2> QED
    BY <1>1, <1>2, <1>3, <1>5, <1>6, <1>7, <2>1 DEF BufferInv, PacketSize
<1>9. InStep => InStep' /\ Len(unsent') = 3 - n
  <2> SUFFICES ASSUME InStep PROVE InStep' /\ Len(unsent') = 3 - n
    OBVIOUS
  <2>1. Len(unsent) = 4 - n /\ \A i \in 1 .. n + 1 : buf[i].at = i /\ buf[i].of = Len(sent)
    BY <1>1, <1>2, StepsOn
  <2>2. PICK u \in 0 .. 4 : u = Len(unsent') /\ u = 4 - (n + 1)
    <3>1. 4 - (n + 1) \in 0 .. 4 /\ (4 - n) - 1 = 4 - (n + 1)
      OBVIOUS
    <3> QED
      BY <1>4, <2>1, <3>1
  <2>3. u % PacketSize = (PacketSize - (n + 1)) % PacketSize
    <3>1. n + 1 \in 0 .. 3 /\ n + 1 # 0
      OBVIOUS
    <3> QED
      BY <2>2, <3>1, StepIs
  <2>4. 1 \in 1 .. n + 1
    OBVIOUS
  <2>5. Whole(buf)
    BY <1>6, <2>1, <2>4 DEF Whole
  <2>6. 4 - (n + 1) = 3 - n
    OBVIOUS
  <2> QED
    BY <1>1, <1>2, <2>1, <2>2, <2>3, <2>4, <2>5, <2>6 DEF InStep
<1>10. CalmInv'
  <2>1. ASSUME calm' >= n + 1 + 4 PROVE InStep'
    <3>1. PICK c \in 0 .. 8, d \in 0 .. 8 : c = calm /\ d = calm' /\ d >= n + 1 + 4
      BY <1>1, <2>1, MouseCounts
    <3>2. d > 0
      BY <3>1
    <3>3. d <= c + 1
      BY <1>1, <3>1, <3>2
    <3>6. c >= n + 4
      BY <3>1, <3>3
    <3>4. calm >= n + 4
      BY <3>1, <3>6
    <3>5. InStep
      BY <1>2, <3>4 DEF MouseInv, CalmInv, PacketSize
    <3> QED
      BY <1>9, <3>5
  <2>2. calm' \in 0 .. 2 * 4
    BY <1>1
  <2>3. \A i \in DOMAIN packetBuffer' :
          i + calm' > Len(packetBuffer')
            => Place(packetBuffer'[i]) = Passed' - (Len(packetBuffer') - i) /\ ~Confusing(packetBuffer'[i])
    BY <1>1, <1>2, <1>3, <1>6, <1>7
  <2>4. calm' >= Len(packetBuffer') + 4 => InStep'
    BY <1>1, <1>2, <2>1
  <2> QED
    BY <2>2, <2>3, <2>4 DEF CalmInv, PacketSize
<1>11. Reported' = Reported
  BY <1>1 DEF Reported
<1>12. ReportsInv'
  <2>1. \A i \in DOMAIN Reported : Right(Reported[i]) => Right(Reported[i])'
    BY <1>1, <1>11 DEF Right
  <2>2. ASSUME NEW i \in DOMAIN Reported
        PROVE  /\ Begun(Reported[i]) <= p + 1
               /\ \A k \in 1 .. n + 1 : Begun(Reported[i]) < Place(buf[k])
    <3>1. Begun(Reported[i]) \in Int
      BY ReportedIs DEF Begun, PacketSize
    <3>2. Begun(Reported[i]) <= p /\ \A k \in DOMAIN packetBuffer : Begun(Reported[i]) < Place(packetBuffer[k])
      BY <1>3 DEF MouseInv, ReportsInv
    <3>3. ASSUME NEW k \in 1 .. n + 1 PROVE Begun(Reported[i]) < Place(buf[k])
      <4>1. CASE k \in 1 .. n
        BY <1>1, <1>2, <3>2, <4>1, MouseCounts
      <4>2. CASE k = n + 1
        <5>1. Place(buf[k]) = p + 1
          BY <1>1, <1>2, <1>3, <4>2, ByteComes
        <5>2. Begun(Reported[i]) < p + 1
          BY <3>1, <3>2
        <5> QED
          BY <5>1, <5>2
      <4>3. k \in 1 .. n \/ k = n + 1
        OBVIOUS
      <4> QED
        BY <4>1, <4>2, <4>3
    <3>4. Begun(Reported[i]) <= p + 1
      BY <3>1, <3>2
    <3> QED
      BY <3>3, <3>4
  <2>3. /\ heard \in Seq(ReportType) /\ mouseStates \in Seq(ReportType)
        /\ \A i \in DOMAIN Reported :
             /\ Right(Reported[i])
             /\ \A j \in 1 .. i - 1 : Reported[j].of <= Reported[i].of
                                      /\ (Reported[i].whole => Reported[j].of < Reported[i].of)
    BY DEF MouseInv, ReportsInv
  <2> QED
    BY <1>1, <1>3, <1>6, <1>11, <2>1, <2>2, <2>3 DEF ReportsInv
<1>13. CountInv'
  <2>1. Plain' => Plain
    BY <1>1 DEF Plain
  <2>2. ASSUME Plain PROVE Len(Reported) + dropped = Cardinality(Counted') /\ InStep'
    <3>1. InStep /\ Len(Reported) + dropped = Cardinality(Counted)
      BY <2>2 DEF MouseInv, CountInv
    <3>2. InStep' /\ Len(unsent') = 3 - n
      BY <1>9, <3>1
    <3>3. unsent' # <<>>
      BY <1>4, <3>2
    <3>4. Gone' = Gone
      BY <1>1, <3>3 DEF Gone
    <3>5. Counted' = Counted
      BY <1>1, <3>4 DEF Counted
    <3> QED
      BY <3>1, <3>2, <3>5
  <2> QED
    BY <1>1, <1>11, <2>1, <2>2, MouseCounts DEF CountInv
<1> QED
  BY <1>1, <1>4, <1>8, <1>10, <1>12, <1>13 DEF MouseInv

(* What is known of four bytes.                                             *)
Full(buf) ==
  /\ buf \in Seq(ByteType) /\ Len(buf) = 4 /\ DOMAIN buf = 1 .. 4 /\ sent' = sent
  /\ UnsentInv' /\ Len(unsent') \in 0 .. 3 /\ (unsent' = <<>> <=> Len(unsent') = 0)
  /\ Passed' \in Int /\ Passed' = 4 * Len(sent) - Len(unsent')
  /\ \A i \in 1 .. 4 : IsSent(buf[i]) /\ Place(buf[i]) <= Passed'
  /\ \A i, j \in 1 .. 4 : i < j => Place(buf[i]) < Place(buf[j])
  /\ \A i \in 1 .. 4 : i + calm' > 4 => Place(buf[i]) = Passed' - (4 - i) /\ ~Confusing(buf[i])
  /\ \A i \in DOMAIN Reported :
       Begun(Reported[i]) <= Passed' /\ \A k \in 1 .. 4 : Begun(Reported[i]) < Place(buf[k])
  /\ InStep => unsent' = <<>> /\ \A i \in 1 .. 4 : buf[i].at = i /\ buf[i].of = Len(sent)

LEMMA BufferFull ==
  ASSUME MouseInv, NEW buf, Handled(buf), Len(packetBuffer) = 3
  PROVE  Full(buf)
<1>1. /\ buf = Append(packetBuffer, Head(unsent)) /\ Come(buf, calm') /\ buf \in Seq(ByteType)
      /\ \A i \in 1 .. 3 : buf[i] = packetBuffer[i]
      /\ buf[3 + 1] = Head(unsent)
      /\ unsent # <<>> /\ unsent' = Tail(unsent) /\ sent' = sent
  BY DEF Handled
<1>2. Len(buf) = 4 /\ DOMAIN buf = 1 .. 4
  <2>1. Len(buf) = 3 + 1
    BY <1>1 DEF Come
  <2> QED
    BY <1>1, <2>1, LenProperties
<1>3. PICK p \in Int : p = Passed /\ Passed' = p + 1
  BY <1>1, ByteComes, MouseCounts
<1>4. UnsentInv' /\ Len(unsent') = Len(unsent) - 1 /\ (unsent' = <<>> <=> Len(unsent') = 0)
  BY <1>1, ByteComes
<1>5. PICK l \in Nat, u \in 1 .. 4 : l = Len(sent) /\ u = Len(unsent) /\ p = 4 * l - u
  <2>1. Len(unsent) \in 1 .. 4
    BY <1>1, ByteComes
  <2>2. Len(sent) \in Nat /\ Passed = 4 * Len(sent) - Len(unsent)
    BY MouseCounts
  <2> QED
    BY <1>3, <2>1, <2>2
<1>6. u - 1 \in 0 .. 3 /\ p + 1 = 4 * l - (u - 1) /\ p + 1 \in Int
  BY <1>5
<1>7. /\ \A i \in 1 .. 4 : IsSent(buf[i]) /\ Place(buf[i]) <= p + 1
      /\ \A i, j \in 1 .. 4 : i < j => Place(buf[i]) < Place(buf[j])
      /\ \A i \in 1 .. 4 : i + calm' > 4 => Place(buf[i]) = p + 1 - (4 - i) /\ ~Confusing(buf[i])
  BY <1>1, <1>2, <1>3 DEF Come
<1>8. ASSUME NEW i \in DOMAIN Reported
      PROVE  Begun(Reported[i]) <= p + 1 /\ \A k \in 1 .. 4 : Begun(Reported[i]) < Place(buf[k])
  <2>1. Begun(Reported[i]) \in Int
    BY ReportedIs DEF Begun, PacketSize
  <2>2. Begun(Reported[i]) <= p /\ \A k \in 1 .. 3 : Begun(Reported[i]) < Place(packetBuffer[k])
    BY <1>3, MouseCounts DEF MouseInv, ReportsInv
  <2>3. ASSUME NEW k \in 1 .. 4 PROVE Begun(Reported[i]) < Place(buf[k])
    <3>1. CASE k \in 1 .. 3
      BY <1>1, <2>2, <3>1
    <3>2. CASE k = 4
      <4>1. Place(buf[4]) = p + 1
        BY <1>1, <1>3, ByteComes
      <4>2. Begun(Reported[i]) < p + 1
        BY <2>1, <2>2
      <4> QED
        BY <3>2, <4>1, <4>2
    <3> QED
      BY <3>1, <3>2
  <2>4. Begun(Reported[i]) <= p + 1
    BY <2>1, <2>2
  <2> QED
    BY <2>3, <2>4
<1>9. ASSUME InStep PROVE unsent' = <<>> /\ \A i \in 1 .. 4 : buf[i].at = i /\ buf[i].of = Len(sent)
  <2>1. Len(unsent) = 4 - 3 /\ \A i \in 1 .. 3 + 1 : buf[i].at = i /\ buf[i].of = Len(sent)
    BY <1>1, <1>9, StepsOn
  <2>2. Len(unsent') = 0
    BY <1>4, <2>1
  <2> QED
    BY <1>4, <2>1, <2>2
<1>10. Len(unsent') \in 0 .. 3 /\ Passed' \in Int /\ Passed' = 4 * Len(sent) - Len(unsent')
  BY <1>3, <1>4, <1>5, <1>6
<1>11. /\ \A i \in 1 .. 4 : IsSent(buf[i]) /\ Place(buf[i]) <= Passed'
       /\ \A i \in 1 .. 4 : i + calm' > 4 => Place(buf[i]) = Passed' - (4 - i) /\ ~Confusing(buf[i])
       /\ \A i \in DOMAIN Reported :
            Begun(Reported[i]) <= Passed' /\ \A k \in 1 .. 4 : Begun(Reported[i]) < Place(buf[k])
  BY <1>3, <1>7, <1>8
<1> QED
  BY <1>1, <1>2, <1>4, <1>7, <1>9, <1>10, <1>11 DEF Full

(* With four calm bytes the driver sees where the packet begins.            *)
LEMMA FullAndCalm ==
  ASSUME MouseInv, NEW buf, Full(buf), calm' \in 4 .. 8
  PROVE  \E m \in 1 .. 4 : BeginsAt(buf, m, Len(unsent'), Len(sent))
<1>1. /\ buf \in Seq(ByteType) /\ Len(buf) = 4 /\ Len(unsent') \in 0 .. 3
      /\ Passed' \in Int /\ Passed' = 4 * Len(sent) - Len(unsent')
      /\ \A i \in 1 .. 4 : IsSent(buf[i])
      /\ \A i \in 1 .. 4 : i + calm' > 4 => Place(buf[i]) = Passed' - (4 - i) /\ ~Confusing(buf[i])
  BY DEF Full
<1>2. Len(sent) \in Nat
  BY MouseCounts
<1>3. PICK p \in Int : p = Passed'
  BY <1>1
<1>4. PICK u \in 0 .. 3 : u = Len(unsent')
  BY <1>1
<1>5. PICK l \in Nat : l = Len(sent)
  BY <1>2
<1>6. p = 4 * l - u
  BY <1>1, <1>3, <1>4, <1>5
<1>7. \A i \in 1 .. 4 : i + calm' > 4
  <2>1. PICK c \in 4 .. 8 : c = calm'
    OBVIOUS
  <2>2. \A i \in 1 .. 4 : i + c > 4
    OBVIOUS
  <2> QED
    BY <2>1, <2>2
<1>8. NextToEachOther(buf, p)
  BY <1>1, <1>3, <1>7 DEF NextToEachOther
<1>9. buf \in Seq(ByteType) /\ Len(buf) = 4 /\ p \in Int /\ l \in Int /\ u \in 0 .. 3
  BY <1>1
<1>10. \E m \in 1 .. 4 : BeginsAt(buf, m, u, l)
  BY <1>6, <1>8, <1>9, CalmBytes
<1> QED
  BY <1>4, <1>5, <1>10

(* With an empty buffer the driver is in step when the whole packet is gone. *)
LEMMA EmptyInStep ==
  ASSUME packetBuffer' = <<>>, Len(unsent') = 0
  PROVE  InStep'
<1>1. Len(<<>>) = 0 /\ DOMAIN <<>> = {}
  BY EmptySeq, LenProperties
<1>2. 0 % PacketSize = (PacketSize - 0) % PacketSize
  <2>1. 0 \in 0 .. 4 /\ 0 \in 0 .. 3
    OBVIOUS
  <2> QED
    BY <2>1, StepIs
<1>3. Whole(packetBuffer')
  BY <1>1 DEF Whole
<1> QED
  BY <1>1, <1>2, <1>3 DEF InStep

LEMMA EmptyBufferInv ==
  ASSUME packetBuffer' = <<>>
  PROVE  BufferInv' /\ DOMAIN packetBuffer' = {} /\ Len(packetBuffer') = 0
<1>1. packetBuffer' \in Seq(ByteType) /\ Len(packetBuffer') = 0 /\ DOMAIN packetBuffer' = {}
  BY EmptySeq, LenProperties
<1> QED
  BY <1>1 DEF BufferInv, PacketSize

LEMMA ConcatAppend ==
  ASSUME NEW S, NEW s \in Seq(S), NEW t \in Seq(S), NEW e \in S
  PROVE  s \o Append(t, e) = Append(s \o t, e)
<1>1. s \o t \in Seq(S) /\ <<e>> \in Seq(S)
  BY ConcatProperties
<1>2. Append(t, e) = t \o <<e>> /\ Append(s \o t, e) = (s \o t) \o <<e>>
  BY <1>1, AppendIsConcat
<1>3. (s \o t) \o <<e>> = s \o (t \o <<e>>)
  BY <1>1, ConcatAssociative
<1> QED
  BY <1>2, <1>3

(* A state is reported, or finds the buffer full.                           *)
LEMMA TakesKeeps ==
  ASSUME MouseInv, NEW buf, Handled(buf), Takes(buf), Len(packetBuffer) = 3
  PROVE  MouseInv'
<1>1. /\ IsValid(buf[1].byte) /\ packetBuffer' = <<>> /\ UNCHANGED <<sent, lost, heard>> /\ calm' \in 0 .. 8
      /\ \/ mouseStates' = Append(mouseStates, Report(buf)) /\ dropped' = dropped
         \/ mouseStates' = mouseStates /\ dropped' = dropped + 1
  BY DEF Handled, Takes
<1>2. Full(buf)
  BY BufferFull
<1>3. /\ buf \in Seq(ByteType) /\ Len(buf) = 4 /\ DOMAIN buf = 1 .. 4
      /\ UnsentInv' /\ (unsent' = <<>> <=> Len(unsent') = 0)
      /\ \A i \in 1 .. 4 : IsSent(buf[i]) /\ Place(buf[i]) <= Passed'
      /\ \A i \in DOMAIN Reported :
           Begun(Reported[i]) <= Passed' /\ \A k \in 1 .. 4 : Begun(Reported[i]) < Place(buf[k])
      /\ InStep => unsent' = <<>> /\ \A i \in 1 .. 4 : buf[i].at = i /\ buf[i].of = Len(sent)
  BY <1>2 DEF Full
<1>4. BufferInv' /\ DOMAIN packetBuffer' = {} /\ Len(packetBuffer') = 0
  BY <1>1, EmptyBufferInv
<1>5. PICK b \in ByteType : b = buf[1] /\ IsSent(b)
  <2>1. 1 \in 1 .. 4
    OBVIOUS
  <2> QED
    BY <1>3, <2>1, ElementOfSeq
<1>6. Begins(b.byte)
  BY <1>1, <1>5 DEF IsValid, Begins
<1>7. CalmInv'
  <2>1. ASSUME calm' \in 4 .. 8 PROVE InStep'
    <3>1. PICK m \in 1 .. 4 :
            /\ \A i \in 1 .. 4 : Begins(buf[i].byte) <=> i = m
            /\ Len(unsent') = m - 1
      BY <1>2, <2>1, FullAndCalm DEF BeginsAt
    <3>2. m = 1
      <4>1. 1 \in 1 .. 4
        OBVIOUS
      <4> QED
        BY <1>5, <1>6, <3>1, <4>1
    <3> QED
      BY <1>1, <3>1, <3>2, EmptyInStep
  <2>2. calm' >= 0 + 4 => calm' \in 4 .. 8
    <3>1. PICK c \in 0 .. 8 : c = calm'
      BY <1>1
    <3>2. c >= 0 + 4 => c \in 4 .. 8
      OBVIOUS
    <3> QED
      BY <3>1, <3>2
  <2>3. calm' \in 0 .. 2 * 4
    BY <1>1
  <2> QED
    BY <1>4, <2>1, <2>2, <2>3 DEF CalmInv, PacketSize
<1>8. PICK w \in BOOLEAN : w = Whole(buf)
  BY DEF Whole
<1>9. PICK r \in ReportType : /\ r = Report(buf) /\ r.of = b.of /\ r.whole = w
                              /\ Right(r) /\ Begun(r) <= Place(b) /\ (w => Begun(r) = Place(b))
  <2>1. \A k \in 1 .. 4 : buf[k].byte \in Int
    <3>1. \A k \in 1 .. 4 : buf[k] \in ByteType
      BY <1>3, ElementOfSeq
    <3> QED
      BY <3>1, ByteFields
  <2>2. StateFrom(buf) \in [dx : Int, dy : Int, ds : Int, left : BOOLEAN, right : BOOLEAN]
    BY <2>1, StateTyped
  <2>3. b.of \in Nat \ {0} /\ b.at \in 1 .. 4 /\ Place(b) = 4 * (b.of - 1) + b.at
    BY ByteFields
  <2>4. Report(buf) = [state |-> StateFrom(buf), of |-> b.of, whole |-> w]
    BY <1>5, <1>8 DEF Report
  <2>5. Report(buf) \in ReportType
    BY <2>2, <2>3, <2>4 DEF ReportType
  <2>6. PICK r : r = Report(buf) /\ r.of = b.of /\ r.whole = w /\ r.state = StateFrom(buf)
    BY <2>4
  <2>7. w => b.at = 1
    <3>1. 1 \in 1 .. 4
      OBVIOUS
    <3> QED
      BY <1>3, <1>5, <1>8, <3>1 DEF Whole
  <2>8. Begun(r) <= Place(b) /\ (w => Begun(r) = Place(b))
    <3>1. PICK o \in Int, a \in 1 .. 4 : o = b.of /\ a = b.at
      BY <2>3
    <3>2. Begun(r) = 4 * (o - 1) + 1 /\ Place(b) = 4 * (o - 1) + a /\ (w => a = 1)
      BY <2>3, <2>6, <2>7, <3>1 DEF Begun, PacketSize
    <3> QED
      BY <3>2
  <2>9. Right(r)
    <3>1. sent \in Seq(Packets)
      BY MouseCounts
    <3>2. w => StateFrom(buf) = Asked(sent[b.of])
      BY <1>3, <1>5, <1>8, <3>1, WholeIsRight
    <3>3. b.of \in DOMAIN sent
      BY <1>5 DEF IsSent
    <3> QED
      BY <2>6, <3>2, <3>3 DEF Right
  <2> QED
    BY <2>5, <2>6, <2>8, <2>9
<1>10. PICK h \in Nat : h = Len(Reported) /\ DOMAIN Reported = 1 .. h /\ Reported \in Seq(ReportType)
  BY ReportedIs
<1>11. /\ heard' \in Seq(ReportType) /\ mouseStates' \in Seq(ReportType)
       /\ \/ Reported' = Reported /\ dropped' = dropped + 1
          \/ Reported' = Append(Reported, r) /\ dropped' = dropped
  <2>1. heard \in Seq(ReportType) /\ mouseStates \in Seq(ReportType)
    BY DEF MouseInv, ReportsInv
  <2>2. CASE mouseStates' = Append(mouseStates, Report(buf)) /\ dropped' = dropped
    <3>1. mouseStates' \in Seq(ReportType)
      BY <1>9, <2>1, <2>2, AppendProperties
    <3>2. heard \o Append(mouseStates, r) = Append(heard \o mouseStates, r)
      BY <1>9, <2>1, ConcatAppend
    <3> QED
      BY <1>1, <1>9, <2>1, <2>2, <3>1, <3>2 DEF Reported
  <2>3. CASE mouseStates' = mouseStates /\ dropped' = dropped + 1
    BY <1>1, <2>1, <2>3 DEF Reported
  <2> QED
    BY <1>1, <2>2, <2>3
<1>12. \A i \in 1 .. h :
         /\ Right(Reported[i])
         /\ \A j \in 1 .. i - 1 : Reported[j].of <= Reported[i].of
                                  /\ (Reported[i].whole => Reported[j].of < Reported[i].of)
  BY <1>10 DEF MouseInv, ReportsInv
<1>13. \A q : Right(q)' <=> Right(q)
  BY <1>1 DEF Right
<1>14. ASSUME NEW j \in 1 .. h PROVE Reported[j].of <= r.of /\ (r.whole => Reported[j].of < r.of)
  <2>1. Begun(Reported[j]) < Place(b)
    <3>1. 1 \in 1 .. 4
      OBVIOUS
    <3> QED
      BY <1>3, <1>5, <1>10, <3>1
  <2>2. PICK o \in Int, q \in Int, a \in 1 .. 4 : /\ o = Reported[j].of /\ q = b.of /\ a = b.at
                                                   /\ Place(b) = 4 * (q - 1) + a
    <3>1. Reported[j].of \in Int
      BY <1>10, ReportedIs
    <3>2. b.of \in Int /\ b.at \in 1 .. 4 /\ Place(b) = 4 * (b.of - 1) + b.at
      BY ByteFields
    <3> QED
      BY <3>1, <3>2
  <2>3. 4 * (o - 1) + 1 < 4 * (q - 1) + a
    BY <2>1, <2>2 DEF Begun, PacketSize
  <2>4. o <= q
    BY <2>3
  <2>5. w => 4 * (o - 1) + 1 < 4 * (q - 1) + 1
    BY <1>9, <2>1, <2>2 DEF Begun, PacketSize
  <2>6. w => o < q
    BY <2>5
  <2> QED
    BY <1>9, <2>2, <2>4, <2>6
<1>15. Begun(r) <= Passed'
  <2>1. Place(b) <= Passed' /\ Passed' \in Int
    <3>1. 1 \in 1 .. 4
      OBVIOUS
    <3> QED
      BY <1>2, <1>3, <1>5, <3>1 DEF Full
  <2>2. Begun(r) \in Int /\ Place(b) \in Int
    <3>1. b.of \in Nat /\ Place(b) \in Int
      BY ByteFields
    <3>2. 4 * (b.of - 1) + 1 \in Int
      BY <3>1
    <3> QED
      BY <1>9, <3>1, <3>2 DEF Begun, PacketSize
  <2> QED
    BY <1>9, <2>1, <2>2
<1>16. ReportsInv'
  <2>1. CASE Reported' = Reported
    BY <1>3, <1>4, <1>10, <1>11, <1>12, <1>13, <2>1 DEF ReportsInv
  <2>2. CASE Reported' = Append(Reported, r)
    <3>1. PICK q : q = Reported'
      OBVIOUS
    <3>2. /\ q \in Seq(ReportType) /\ Len(q) = h + 1 /\ DOMAIN q = 1 .. h + 1
          /\ \A i \in 1 .. h : q[i] = Reported[i]
          /\ q[h + 1] = r
      <4>1. /\ q \in Seq(ReportType) /\ Len(q) = h + 1
            /\ \A i \in 1 .. h : q[i] = Reported[i]
            /\ q[h + 1] = r
        BY <1>10, <2>2, <3>1, AppendProperties
      <4> QED
        BY <4>1, LenProperties
    <3>3. ASSUME NEW i \in 1 .. h + 1
          PROVE  /\ Right(q[i]) /\ Begun(q[i]) <= Passed'
                 /\ \A j \in 1 .. i - 1 : q[j].of <= q[i].of /\ (q[i].whole => q[j].of < q[i].of)
      <4>1. CASE i \in 1 .. h
        <5>1. \A j \in 1 .. i - 1 : q[j] = Reported[j]
          BY <3>2, <4>1
        <5> QED
          BY <1>3, <1>10, <1>12, <3>2, <4>1, <5>1
      <4>2. CASE i = h + 1
        <5>1. \A j \in 1 .. i - 1 : j \in 1 .. h
          BY <4>2
        <5> QED
          BY <1>9, <1>14, <1>15, <3>2, <4>2, <5>1
      <4>3. i \in 1 .. h \/ i = h + 1
        OBVIOUS
      <4> QED
        BY <4>1, <4>2, <4>3
    <3> QED
      BY <1>4, <1>11, <1>13, <3>1, <3>2, <3>3 DEF ReportsInv
  <2> QED
    BY <1>11, <2>1, <2>2
<1>17. CountInv'
  <2>1. lost' \in Nat /\ dropped' \in Nat
    BY <1>1, MouseCounts
  <2>2. Plain' => Plain
    BY <1>1 DEF Plain
  <2>3. ASSUME Plain PROVE InStep' /\ Len(Reported') + dropped' = Cardinality(Counted')
    <3>1. InStep /\ h + dropped = Cardinality(Counted)
      BY <2>3, <1>10 DEF MouseInv, CountInv
    <3>2. unsent' = <<>> /\ Len(unsent') = 0 /\ b.at = 1 /\ b.of = Len(sent)
      <4>1. 1 \in 1 .. 4
        OBVIOUS
      <4> QED
        BY <1>3, <1>5, <3>1, <4>1
    <3>3. InStep'
      BY <1>1, <3>2, EmptyInStep
    <3>4. Len(Reported') + dropped' = h + dropped + 1
      <4>1. dropped \in Nat
        BY MouseCounts
      <4>2. CASE Reported' = Reported /\ dropped' = dropped + 1
        BY <1>10, <4>1, <4>2
      <4>3. CASE Reported' = Append(Reported, r) /\ dropped' = dropped
        <5>1. Len(Reported') = h + 1
          BY <1>10, <4>3, AppendProperties
        <5>2. h + 1 + dropped = h + dropped + 1
          BY <4>1
        <5> QED
          BY <4>3, <5>1, <5>2
      <4> QED
        BY <1>11, <4>2, <4>3
    <3>5. PICK l \in Nat : l = Len(sent) /\ l \in 1 .. l /\ DOMAIN sent = 1 .. l
      <4>1. Len(sent) \in Nat /\ DOMAIN sent = 1 .. Len(sent)
        BY MouseCounts
      <4>2. b.of \in DOMAIN sent
        BY <1>5 DEF IsSent
      <4> QED
        BY <3>2, <4>1, <4>2
    <3>6. Gone = l - 1 /\ Gone' = l
      BY <1>1, <3>2, <3>5 DEF Gone, Handled
    <3>7. IsValid(sent[l].head)
      <4>1. sent \in Seq(Packets)
        BY MouseCounts
      <4>2. b.byte = BytesOf(sent[l])[1] /\ sent[l] \in Packets
        BY <1>5, <3>2, <3>5, <4>1, FirstByteBegins
      <4>3. b.byte = sent[l].head
        BY <4>2, BytesOfAPacket
      <4> QED
        BY <1>1, <1>5, <4>3
    <3>8. Counted' = Counted \union {l} /\ l \notin Counted /\ IsFiniteSet(Counted)
      <4>1. Counted = {i \in 1 .. l - 1 : IsValid(sent[i].head)} /\ Counted' = {i \in 1 .. l : IsValid(sent[i].head)}
        BY <1>1, <3>6 DEF Counted
      <4>2. Counted \subseteq 1 .. l - 1 /\ IsFiniteSet(1 .. l - 1)
        BY <4>1, FS_Interval
      <4>3. IsFiniteSet(Counted)
        BY <4>2, FS_Subset
      <4>4. l \notin Counted
        BY <4>1
      <4>5. \A i : i \in 1 .. l <=> i \in 1 .. l - 1 \/ i = l
        BY <3>5
      <4>6. Counted' = Counted \union {l}
        BY <4>1, <4>5, <3>7
      <4> QED
        BY <4>3, <4>4, <4>6
    <3>9. Cardinality(Counted \union {l}) = Cardinality(Counted) + 1
      BY <3>8, FS_AddElement
    <3>10. Cardinality(Counted') = h + dropped + 1
      BY <3>1, <3>8, <3>9
    <3> QED
      BY <3>3, <3>4, <3>10
  <2> QED
    BY <2>1, <2>2, <2>3 DEF CountInv
<1> QED
  BY <1>1, <1>3, <1>4, <1>7, <1>16, <1>17 DEF MouseInv

(* The packet is moved to its first byte.                                   *)
LEMMA SyncsKeeps ==
  ASSUME MouseInv, NEW buf, Handled(buf), Syncs(buf), Len(packetBuffer) = 3
  PROVE  MouseInv'
<1>1. /\ ~IsValid(buf[1].byte) /\ packetBuffer' = SyncPackets(buf) /\ calm' \in 0 .. 8
      /\ UNCHANGED <<sent, lost, heard, mouseStates, dropped>>
  BY DEF Handled, Syncs
<1>2. Full(buf)
  BY BufferFull
<1>3. /\ buf \in Seq(ByteType) /\ Len(buf) = 4 /\ DOMAIN buf = 1 .. 4
      /\ UnsentInv' /\ Len(unsent') \in 0 .. 3 /\ (unsent' = <<>> <=> Len(unsent') = 0)
      /\ \A i \in 1 .. 4 : IsSent(buf[i]) /\ Place(buf[i]) <= Passed'
      /\ \A i, j \in 1 .. 4 : i < j => Place(buf[i]) < Place(buf[j])
      /\ \A i \in 1 .. 4 : i + calm' > 4 => Place(buf[i]) = Passed' - (4 - i) /\ ~Confusing(buf[i])
      /\ \A i \in DOMAIN Reported :
           Begun(Reported[i]) <= Passed' /\ \A k \in 1 .. 4 : Begun(Reported[i]) < Place(buf[k])
      /\ InStep => unsent' = <<>> /\ \A i \in 1 .. 4 : buf[i].at = i /\ buf[i].of = Len(sent)
  BY <1>2 DEF Full
<1> PICK q : q = packetBuffer'
  OBVIOUS
<1>4. PICK n \in 0 .. 3 :
        /\ q = packetBuffer' /\ q \in Seq(ByteType) /\ Len(q) = n /\ DOMAIN q = 1 .. n
        /\ \A i \in 1 .. n : q[i] = buf[4 - n + i]
        /\ n = 0 => \A i \in 2 .. 4 : ~Begins(buf[i].byte)
        /\ n # 0 => Begins(buf[5 - n].byte)
  <2>1. CASE SyncPackets(buf) = <<>> /\ \A i \in 2 .. 4 : ~Begins(buf[i].byte)
    <3>1. packetBuffer' \in Seq(ByteType) /\ DOMAIN packetBuffer' = {} /\ Len(packetBuffer') = 0
      BY <1>1, <2>1, EmptyBufferInv, EmptySeq
    <3>2. 0 \in 0 .. 3 /\ 1 .. 0 = {}
      OBVIOUS
    <3> QED
      BY <2>1, <3>1, <3>2
  <2>2. ASSUME NEW m \in 2 .. 4, Begins(buf[m].byte),
               SyncPackets(buf) \in Seq(ByteType), Len(SyncPackets(buf)) = 5 - m,
               \A i \in 1 .. 5 - m : SyncPackets(buf)[i] = buf[m + i - 1]
        PROVE  \E n \in 0 .. 3 :
                 /\ q = packetBuffer' /\ q \in Seq(ByteType) /\ Len(q) = n /\ DOMAIN q = 1 .. n
                 /\ \A i \in 1 .. n : q[i] = buf[4 - n + i]
                 /\ n = 0 => \A i \in 2 .. 4 : ~Begins(buf[i].byte)
                 /\ n # 0 => Begins(buf[5 - n].byte)
    <3>1. PICK n \in 1 .. 3 : n = 5 - m /\ m = 5 - n /\ \A i \in 1 .. n : m + i - 1 = 4 - n + i
      <4>1. 5 - m \in 1 .. 3 /\ m = 5 - (5 - m) /\ \A i \in 1 .. 5 - m : m + i - 1 = 4 - (5 - m) + i
        OBVIOUS
      <4> QED
        BY <4>1
    <3>2. \A i \in 1 .. n : SyncPackets(buf)[i] = buf[4 - n + i]
      BY <2>2, <3>1
    <3>3. DOMAIN SyncPackets(buf) = 1 .. n
      BY <2>2, <3>1, LenProperties
    <3>4. n \in 0 .. 3 /\ n # 0
      BY <3>1
    <3> QED
      BY <1>1, <2>2, <3>1, <3>2, <3>3, <3>4
  <2> QED
    BY <1>3, <2>1, <2>2, Synced
<1>5. PICK p \in Int, u \in 0 .. 3, c \in 0 .. 8, l \in Nat :
        p = Passed' /\ u = Len(unsent') /\ c = calm' /\ l = Len(sent) /\ DOMAIN sent = 1 .. l
  <2>1. Passed' \in Int
    BY <1>2 DEF Full
  <2>2. Len(sent) \in Nat /\ DOMAIN sent = 1 .. Len(sent)
    BY MouseCounts
  <2> QED
    BY <1>1, <1>3, <2>1, <2>2
<1>6. \A b : IsSent(b)' <=> IsSent(b)
  BY <1>1 DEF IsSent
<1>7. ASSUME NEW i \in 1 .. n
      PROVE  /\ 4 - n + i \in 1 .. 4
             /\ i + c > n => 4 - n + i + c > 4 /\ 4 - (4 - n + i) = n - i
             /\ \A j \in 1 .. n : i < j => 4 - n + i < 4 - n + j
  OBVIOUS
<1>8. BufferInv'
  <2>1. n < 4
    OBVIOUS
  <2>2. \A i \in 1 .. n : IsSent(q[i])' /\ Place(q[i]) <= p
    BY <1>3, <1>4, <1>5, <1>6, <1>7
  <2>3. \A i, j \in 1 .. n : i < j => Place(q[i]) < Place(q[j])
    <3> SUFFICES ASSUME NEW i \in 1 .. n, NEW j \in 1 .. n, i < j PROVE Place(q[i]) < Place(q[j])
      OBVIOUS
    <3>1. 4 - n + i \in 1 .. 4 /\ 4 - n + j \in 1 .. 4 /\ 4 - n + i < 4 - n + j
      BY <1>7
    <3>2. Place(buf[4 - n + i]) < Place(buf[4 - n + j])
      BY <1>3, <3>1
    <3> QED
      BY <1>4, <3>2
  <2> QED
    BY <1>4, <1>5, <2>1, <2>2, <2>3 DEF BufferInv, PacketSize
<1>9. ASSUME c \in 4 .. 8 PROVE InStep'
  <2>1. PICK m \in 1 .. 4 :
          /\ \A i \in 1 .. 4 : Begins(buf[i].byte) <=> i = m
          /\ u = m - 1
          /\ \A i \in m .. 4 : buf[i].at = i - m + 1 /\ buf[i].of = l
    <3>1. calm' \in 4 .. 8
      BY <1>5, <1>9
    <3> QED
      BY <1>2, <1>5, <3>1, FullAndCalm DEF BeginsAt
  <2>2. CASE n = 0
    <3>1. m = 1
      <4>1. m \notin 2 .. 4
        <5>1. \A i \in 2 .. 4 : i \in 1 .. 4 /\ ~Begins(buf[i].byte)
          BY <1>4, <2>2
        <5> QED
          BY <2>1, <5>1
      <4> QED
        BY <4>1
    <3>2. packetBuffer' = <<>> /\ Len(unsent') = 0
      BY <1>4, <1>5, <2>1, <2>2, <3>1, EmptySeq
    <3> QED
      BY <3>2, EmptyInStep
  <2>3. CASE n # 0
    <3>1. m = 5 - n /\ m # 1
      <4>1. 5 - n \in 1 .. 4 /\ 5 - n # 1
        BY <2>3
      <4> QED
        BY <1>4, <2>1, <2>3, <4>1
    <3>2. u = 4 - n
      BY <2>1, <3>1
    <3>3. ASSUME NEW i \in 1 .. n PROVE q[i].at = i /\ q[i].of = l
      <4>1. 4 - n + i \in m .. 4 /\ (4 - n + i) - m + 1 = i
        BY <3>1
      <4> QED
        BY <1>4, <2>1, <4>1
    <3>4. 1 \in 1 .. n
      BY <2>3
    <3>5. Whole(packetBuffer')
      BY <1>4, <3>3, <3>4 DEF Whole
    <3>6. u % PacketSize = (PacketSize - n) % PacketSize
      <4>1. u \in 0 .. 4
        OBVIOUS
      <4> QED
        BY <2>3, <3>2, <4>1, StepIs
    <3> QED
      BY <1>1, <1>4, <1>5, <3>3, <3>4, <3>5, <3>6 DEF InStep
  <2> QED
    BY <2>2, <2>3
<1>10. CalmInv'
  <2>1. c >= n + 4 => c \in 4 .. 8
    OBVIOUS
  <2>2. c \in 0 .. 2 * 4
    OBVIOUS
  <2>3. ASSUME NEW i \in 1 .. n, i + c > n PROVE Place(q[i]) = p - (n - i) /\ ~Confusing(q[i])
    <3>1. 4 - n + i \in 1 .. 4 /\ 4 - n + i + c > 4 /\ 4 - (4 - n + i) = n - i
      BY <1>7, <2>3
    <3>2. Place(buf[4 - n + i]) = p - (4 - (4 - n + i)) /\ ~Confusing(buf[4 - n + i])
      BY <1>3, <1>5, <3>1
    <3> QED
      BY <1>4, <3>1, <3>2
  <2>4. \A i \in DOMAIN packetBuffer' :
          i + calm' > Len(packetBuffer')
            => Place(packetBuffer'[i]) = Passed' - (Len(packetBuffer') - i) /\ ~Confusing(packetBuffer'[i])
    BY <1>4, <1>5, <2>3
  <2>5. calm' >= Len(packetBuffer') + 4 => InStep'
    BY <1>4, <1>5, <1>9, <2>1
  <2>6. calm' \in 0 .. 2 * 4
    BY <1>5, <2>2
  <2> QED
    BY <2>4, <2>5, <2>6 DEF CalmInv, PacketSize
<1>11. Reported' = Reported
  BY <1>1 DEF Reported
<1>12. ReportsInv'
  <2>1. \A i \in DOMAIN Reported : Right(Reported[i]) => Right(Reported[i])'
    BY <1>1, <1>11 DEF Right
  <2>2. \A i \in DOMAIN Reported : \A k \in 1 .. n : Begun(Reported[i]) < Place(q[k])
    BY <1>3, <1>4, <1>7
  <2>3. /\ heard \in Seq(ReportType) /\ mouseStates \in Seq(ReportType)
        /\ \A i \in DOMAIN Reported :
             /\ Right(Reported[i])
             /\ \A j \in 1 .. i - 1 : Reported[j].of <= Reported[i].of
                                      /\ (Reported[i].whole => Reported[j].of < Reported[i].of)
    BY DEF MouseInv, ReportsInv
  <2> QED
    BY <1>1, <1>3, <1>4, <1>11, <2>1, <2>2, <2>3 DEF ReportsInv
<1>13. CountInv'
  <2>1. Plain' => Plain
    BY <1>1 DEF Plain
  <2>2. ASSUME Plain PROVE InStep' /\ Len(Reported) + dropped = Cardinality(Counted')
    <3>1. InStep /\ Len(Reported) + dropped = Cardinality(Counted)
      BY <2>2 DEF MouseInv, CountInv
    <3>2. unsent' = <<>> /\ u = 0 /\ \A i \in 1 .. 4 : buf[i].at = i /\ buf[i].of = l
      BY <1>3, <1>5, <3>1
    <3>3. l \in 1 .. l /\ sent[l] \in Packets /\ \A i \in 1 .. 4 : buf[i].byte = BytesOf(sent[l])[i]
      <4>1. sent \in Seq(Packets)
        BY MouseCounts
      <4>2. \A i \in 1 .. 4 : buf[i].of \in DOMAIN sent /\ buf[i].byte = BytesOf(sent[buf[i].of])[buf[i].at]
        BY <1>3 DEF IsSent
      <4>3. 1 \in 1 .. 4
        OBVIOUS
      <4>4. l \in 1 .. l
        BY <1>5, <3>2, <4>2, <4>3
      <4>5. sent[l] \in Packets
        BY <1>5, <4>1, <4>4, ElementOfSeq
      <4> QED
        BY <3>2, <4>2, <4>4, <4>5
    <3>4. /\ buf[1].byte = sent[l].head /\ ~Begins(buf[2].byte) /\ ~Begins(buf[3].byte) /\ ~Begins(buf[4].byte)
      <4>1. ~Begins(sent[l].dx) /\ ~Begins(sent[l].dy) /\ ~Begins(sent[l].dz)
        BY <1>5, <2>2, <3>3 DEF Plain
      <4>2. 1 \in 1 .. 4 /\ 2 \in 1 .. 4 /\ 3 \in 1 .. 4 /\ 4 \in 1 .. 4
        OBVIOUS
      <4>3. /\ BytesOf(sent[l])[1] = sent[l].head /\ BytesOf(sent[l])[2] = sent[l].dx
            /\ BytesOf(sent[l])[3] = sent[l].dy /\ BytesOf(sent[l])[4] = sent[l].dz
        BY <3>3, BytesOfAPacket
      <4>4. /\ buf[1].byte = BytesOf(sent[l])[1] /\ buf[2].byte = BytesOf(sent[l])[2]
            /\ buf[3].byte = BytesOf(sent[l])[3] /\ buf[4].byte = BytesOf(sent[l])[4]
        BY <3>3, <4>2
      <4> QED
        BY <4>1, <4>3, <4>4
    <3>5. n = 0
      <4>1. SUFFICES ASSUME n # 0 PROVE FALSE
        OBVIOUS
      <4>2. 5 - n \in {2, 3, 4}
        BY <4>1
      <4> QED
        BY <1>4, <3>4, <4>1, <4>2
    <3>6. InStep'
      <4>1. packetBuffer' = <<>> /\ Len(unsent') = 0
        BY <1>4, <1>5, <3>2, <3>5, EmptySeq
      <4> QED
        BY <4>1, EmptyInStep
    <3>7. Gone = l - 1 /\ Gone' = l
      BY <1>1, <1>5, <3>2 DEF Gone, Handled
    <3>8. Counted' = Counted
      <4>1. Counted = {i \in 1 .. l - 1 : IsValid(sent[i].head)} /\ Counted' = {i \in 1 .. l : IsValid(sent[i].head)}
        BY <1>1, <3>7 DEF Counted
      <4>2. \A i : i \in 1 .. l <=> i \in 1 .. l - 1 \/ i = l
        BY <3>3
      <4>3. ~IsValid(sent[l].head)
        BY <1>1, <3>4
      <4> QED
        BY <4>1, <4>2, <4>3
    <3> QED
      BY <3>1, <3>6, <3>8
  <2> QED
    BY <1>1, <1>11, <2>1, <2>2, MouseCounts DEF CountInv
<1> QED
  BY <1>1, <1>3, <1>8, <1>10, <1>12, <1>13 DEF MouseInv

-----------------------------------------------------------------------------
(* Mouse: the theorem                                                       *)

LEMMA MouseStarts ==
  ASSUME MouseInit
  PROVE  MouseInv
<1>1. /\ sent = <<>> /\ unsent = <<>> /\ lost = 0 /\ packetBuffer = <<>> /\ mouseStates = <<>>
      /\ dropped = 0 /\ heard = <<>> /\ calm = 0
  BY DEF MouseInit
<1>2. Len(<<>>) = 0 /\ DOMAIN <<>> = {} /\ \A S : <<>> \in Seq(S)
  BY EmptySeq, LenProperties
<1>3. Passed = 0
  BY <1>1, <1>2 DEF Passed, PacketSize
<1>4. UnsentInv /\ BufferInv
  BY <1>1, <1>2 DEF UnsentInv, BufferInv, PacketSize
<1>5. InStep
  <2>1. 0 % PacketSize = (PacketSize - 0) % PacketSize
    <3>1. 0 \in 0 .. 4 /\ 0 \in 0 .. 3
      OBVIOUS
    <3> QED
      BY <3>1, StepIs
  <2> QED
    BY <1>1, <1>2, <2>1 DEF InStep, Whole
<1>6. CalmInv
  BY <1>1, <1>2, <1>5 DEF CalmInv, PacketSize
<1>7. Reported = <<>>
  <2>1. <<>> \o <<>> = <<>>
    BY <1>2, ConcatEmptySeq
  <2> QED
    BY <1>1, <2>1 DEF Reported
<1>8. ReportsInv
  BY <1>1, <1>2, <1>7 DEF ReportsInv
<1>9. CountInv
  <2>1. Counted = {}
    BY <1>1, <1>2 DEF Counted, Gone
  <2>2. Cardinality(Counted) = 0
    BY <2>1, FS_EmptySet
  <2> QED
    BY <1>1, <1>2, <1>5, <1>7, <2>2 DEF CountInv
<1> QED
  BY <1>1, <1>2, <1>4, <1>6, <1>8, <1>9 DEF MouseInv

LEMMA MouseKeeps ==
  ASSUME MouseInv, [MouseNext]_mouseVars
  PROVE  MouseInv'
<1>1. CASE \E p \in Packets : SendPacket(p)
  BY <1>1, SendPacketKeeps
<1>2. CASE LoseByte
  BY <1>2, LoseByteKeeps
<1>3. CASE HandleByte
  <2>1. PICK buf : Handled(buf) /\ (\/ Len(packetBuffer) < 3 /\ Waits(buf)
                                    \/ Len(packetBuffer) = 3 /\ (Takes(buf) \/ Syncs(buf)))
    BY <1>3, HandleByteIs
  <2> QED
    BY <2>1, BufferGrows, TakesKeeps, SyncsKeeps
<1>4. CASE ProcessPacket
  BY <1>4, ProcessPacketKeeps
<1>5. CASE UNCHANGED mouseVars
  BY <1>5 DEF mouseVars, MouseInv, UnsentInv, BufferInv, CalmInv, ReportsInv, CountInv, InStep, Passed, IsSent,
              Reported, Right, Plain, Counted, Gone
<1> QED
  BY <1>1, <1>2, <1>3, <1>4, <1>5 DEF MouseNext

(* Wherever bytes are lost and whatever the mouse sends: two packets' worth  *)
(* of bytes after the last one that was lost, or that moves and looks like a *)
(* first byte, the driver is in step with the mouse; what it reports from    *)
(* one packet's bytes is what that packet says, in the order sent; and       *)
(* where neither happened no packet is missing but those that overflowed or  *)
(* found the buffer full (ps2_mouse_handle_interrupt,                        *)
(* ps2_mouse_sync_packets).                                                  *)
THEOREM MouseFindsItsPackets == MouseSpec => []MouseResyncs
<1>1. MouseInit => MouseInv
  BY MouseStarts
<1>2. MouseInv /\ [MouseNext]_mouseVars => MouseInv'
  BY MouseKeeps
<1>3. MouseInv => MouseResyncs
  <2> SUFFICES ASSUME MouseInv PROVE MouseResyncs
    OBVIOUS
  <2>1. calm >= 2 * PacketSize - 1 => InStep
    <3>1. PICK n \in 0 .. 3, c \in 0 .. 8 : n = Len(packetBuffer) /\ c = calm
      BY MouseCounts
    <3>2. c >= 2 * 4 - 1 => c >= n + 4
      OBVIOUS
    <3> QED
      BY <3>1, <3>2 DEF MouseInv, CalmInv, PacketSize
  <2>2. \A i \in DOMAIN Reported :
          /\ Reported[i].whole => Reported[i].state = Asked(sent[Reported[i].of])
          /\ \A j \in 1 .. i - 1 : Reported[j].of <= Reported[i].of
                                   /\ (Reported[i].whole => Reported[j].of < Reported[i].of)
    BY DEF MouseInv, ReportsInv, Right
  <2>3. ASSUME unsent = <<>>, lost = 0, \A i \in DOMAIN sent : ~Begins(sent[i].dx) /\ ~Begins(sent[i].dy) /\ ~Begins(sent[i].dz)
        PROVE  Len(Reported) + dropped = Cardinality({i \in DOMAIN sent : IsValid(sent[i].head)})
    <3>1. Plain
      BY <2>3 DEF Plain
    <3>2. Counted = {i \in DOMAIN sent : IsValid(sent[i].head)}
      BY <2>3, MouseCounts DEF Counted, Gone
    <3> QED
      BY <3>1, <3>2 DEF MouseInv, CountInv
  <2> QED
    BY <2>1, <2>2, <2>3 DEF MouseResyncs
<1> QED
  BY <1>1, <1>2, <1>3, PTL DEF MouseSpec

==============================================================================
