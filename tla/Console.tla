------------------------------ MODULE Console ------------------------------
(***************************************************************************)
(* From a key to a command: the interrupt handler of drivers/ps2/keyboard.cpp*)
(* and its key states, the keyboard thread, generic_keyboard.cpp, and the    *)
(* terminal of kterminal.cpp, which edits a line on the screen and runs it.  *)
(*                                                                          *)
(* The queue of key states is std::ring_buffer, its insert and get one step  *)
(* each.  The terminal is the only one to write on the screen; what a command*)
(* prints is some output.  Colours are left out.                             *)
(***************************************************************************)
EXTENDS Integers, Sequences, SequencesExt

CONSTANTS
  Keys,        \* the keyboard: [code, extended]
  KeySlots,    \* entries of global_keyboard_state_buffer
  Columns, Rows,  \* x_rows and y_rows
  Outputs,     \* what commands print
  MaxStrokes   \* bound: keys pressed

ASSUME ConsoleAssumption ==
  /\ KeySlots \in Nat \ {0, 1} /\ Columns \in Nat \ {0, 1} /\ Rows \in Nat \ {0} /\ MaxStrokes \in Nat

VARIABLES
  down,        \* keys that are down
  keyArray,    \* g_key_state_array
  keyStates,   \* global_keyboard_state_buffer
  packet,      \* what the keyboard thread has got out of it, and not handed on yet
  screen, tcursor,      \* what is on the screen, and where the next character goes
  currentInput,
  executing,   \* the keyboard thread is in kterm_execute_command
  commands,    \* commands executed, split in words
  strokes,     \* counts against the bound
  intent,      \* what the strokes mean to the one who types: line and commands
  muddled,     \* the keyboard lagged, lost a key or mistook one for its twin
  tooLong      \* the line has reached the last column, or holds a line break

keyVars == <<down, keyArray, keyStates, packet, strokes, intent, muddled>>
termVars == <<screen, tcursor, currentInput, executing, commands, tooLong>>
consoleVars == <<keyVars, termVars>>

-----------------------------------------------------------------------------
(* generic_keyboard.cpp: a key, and the character it stands for.             *)
PlainKey == [c \in {"1E", "35", "1C", "0E", "0F", "2A", "3A"} |->
               CASE c = "1E" -> "A" [] c = "35" -> "SLASH" [] c = "1C" -> "ENTER" [] c = "0E" -> "BACKSPACE"
                 [] c = "0F" -> "TAB" [] c = "2A" -> "SHIFT" [] c = "3A" -> "CAPSLOCK"]
ExtendedKey == [c \in DOMAIN PlainKey |->
                  CASE c = "35" -> "NUMPAD_DIVIDE" [] c = "1C" -> "NUMPAD_ENTER" [] OTHER -> "NONE"]
ScanToVirtual(code, escaped) == IF escaped THEN ExtendedKey[code] ELSE PlainKey[code]

NoChar == ""
VkToAscii(vk, shift, caps) ==
  CASE vk = "A" -> IF shift # caps THEN "A" ELSE "a"
    [] vk = "SLASH" -> IF shift THEN "?" ELSE "/"
    [] vk = "NUMPAD_DIVIDE" -> "/"
    [] vk = "NUMPAD_ENTER" -> "newline"
    [] OTHER -> NoChar

NoPacket == [code |-> "", pressed |-> FALSE, escaped |-> FALSE]

Shift == "2A"
Caps == "3A"
Holding(code) == keyArray[code].pressed

-----------------------------------------------------------------------------
(* The screen: kterm_write_char and what it calls.                           *)
Put(t, ch) == [t EXCEPT !.cells[t.y + 1][t.x + 1] = ch]
Blank == [c \in 1 .. Columns |-> " "]

Newline(t) ==
  LET s == [Put(t, " ") EXCEPT !.x = 0]
  IN IF t.y + 1 < Rows THEN [s EXCEPT !.y = @ + 1]
     ELSE [s EXCEPT !.cells = Append(Tail(@), Blank)]

WriteOne(t0, ch) ==
  LET t == IF t0.x + 1 >= Columns THEN Newline(t0) ELSE t0
  IN Put(CASE ch = "newline" -> Newline(t)
           [] ch = "return" -> [t EXCEPT !.x = 0]
           [] ch = "backspace" -> [Put(t, " ") EXCEPT !.x = IF @ >= 1 THEN @ - 1 ELSE @]
           [] OTHER -> [Put(t, ch) EXCEPT !.x = @ + 1], "_")
WriteChar(t, ch) == IF ch = "tab" THEN FoldLeft(WriteOne, t, <<" ", " ", " ", " ">>) ELSE WriteOne(t, ch)
WriteStream(t, text) == FoldLeft(WriteChar, t, text)

Terminal == [cells |-> screen, x |-> tcursor.x, y |-> tcursor.y]
Shows(t) == screen' = t.cells /\ tcursor' = [x |-> t.x, y |-> t.y]

Prompt == <<">", " ">>
Opened == WriteStream([cells |-> [r \in 1 .. Rows |-> Blank], x |-> 0, y |-> 0], Prompt)

ConsoleInit ==
  /\ down = {} /\ keyArray = [c \in DOMAIN PlainKey |-> [pressed |-> FALSE, escaped |-> FALSE]]
  /\ keyStates = <<>> /\ packet = NoPacket /\ strokes = 0
  /\ screen = Opened.cells /\ tcursor = [x |-> Opened.x, y |-> Opened.y]
  /\ currentInput = <<>> /\ executing = FALSE /\ commands = <<>>
  /\ intent = [line |-> <<>>, commands |-> <<>>] /\ muddled = FALSE /\ tooLong = FALSE

-----------------------------------------------------------------------------
(* The line: kterm_keyboard_handler, and str_split of kterm_handle_command.  *)
Words(line) ==
  LET put(acc, ch) == IF ch = " " THEN [acc EXCEPT !.open = FALSE]
                      ELSE IF acc.open THEN [acc EXCEPT !.words[Len(acc.words)] = Append(@, ch)]
                      ELSE [open |-> TRUE, words |-> Append(acc.words, <<ch>>)]
  IN FoldLeft(put, [open |-> FALSE, words |-> <<>>], line).words
Runs(all, line) == IF Words(line) = <<>> THEN all ELSE Append(all, Words(line))

Spaces == <<" ", " ", " ", " ">>
Edited(line, vk, shift, caps) ==
  CASE vk = "BACKSPACE" -> IF line = <<>> THEN line ELSE Front(line)
    [] vk = "TAB" -> line \o Spaces
    [] OTHER -> IF VkToAscii(vk, shift, caps) = NoChar THEN line ELSE Append(line, VkToAscii(vk, shift, caps))

(* Mutant: an empty line is not excepted. *)
EchoAlways(vk) == <<"backspace">>

Echo(vk) == IF currentInput = <<>> THEN <<>> ELSE <<"backspace">>
Echoed(vk, shift, caps) ==
  CASE vk = "BACKSPACE" -> Echo(vk)
    [] vk = "TAB" -> Spaces
    [] OTHER -> IF VkToAscii(vk, shift, caps) = NoChar THEN <<>> ELSE <<VkToAscii(vk, shift, caps)>>

OutOfLine(line) == Len(Prompt) + Len(line) + 1 >= Columns \/ \E i \in DOMAIN line : line[i] = "newline"

KeyboardHandler(vk) ==
  IF vk = "ENTER"
  THEN /\ Shows(WriteStream(Terminal, <<"newline">>))
       /\ commands' = Runs(commands, currentInput) /\ executing' = TRUE
       /\ UNCHANGED <<currentInput, tooLong>>
  ELSE /\ Shows(WriteStream(Terminal, Echoed(vk, Holding(Shift), Holding(Caps))))
       /\ currentInput' = Edited(currentInput, vk, Holding(Shift), Holding(Caps))
       /\ tooLong' = (tooLong \/ OutOfLine(currentInput'))
       /\ UNCHANGED <<commands, executing>>

-----------------------------------------------------------------------------
(* ps2_keyboard_handle_interrupt.  A state keeps what the key meant.         *)
Escaped(code, prefixed) == prefixed \/ keyArray[code].escaped

Meant(key) ==
  LET vk == ScanToVirtual(key.code, key.extended)
      shift == \E k \in down : k.code = Shift
      caps == \E k \in down : k.code = Caps
  IN IF vk = "ENTER" THEN [line |-> <<>>, commands |-> Runs(intent.commands, intent.line)]
     ELSE [intent EXCEPT !.line = Edited(@, vk, shift, caps)]

(* A key that a modifier overtakes, in the queue or between the thread's get *)
(* and its look at the modifiers, is read with others than it was typed with;*)
(* a key whose extended twin was used before is taken for the twin.          *)
Waiting == keyStates # <<>> \/ packet # NoPacket
Muddles(key) ==
  \/ key.code \in {Shift, Caps} /\ Waiting
  \/ Len(keyStates) = KeySlots - 1
  \/ ~key.extended /\ keyArray[key.code].escaped

HandleInterrupt(key, pressed, prefixed) ==
  LET state == [code |-> key.code, pressed |-> pressed, escaped |-> Escaped(key.code, prefixed)]
  IN /\ keyArray' = [keyArray EXCEPT ![key.code] = [pressed |-> pressed, escaped |-> state.escaped]]
     /\ keyStates' = IF Len(keyStates) < KeySlots - 1 THEN Append(keyStates, state) ELSE keyStates
     /\ muddled' = (muddled \/ Muddles(key))

PressKey(key) ==
  /\ key \notin down /\ strokes < MaxStrokes
  /\ down' = down \union {key} /\ strokes' = strokes + 1
  /\ HandleInterrupt(key, TRUE, key.extended)
  /\ intent' = Meant(key)
  /\ UNCHANGED <<packet, termVars>>

(* The prefix is not always sent when an extended key comes up.              *)
ReleaseKey(key, prefixed) ==
  /\ key \in down /\ (prefixed => key.extended)
  /\ down' = down \ {key}
  /\ HandleInterrupt(key, FALSE, prefixed)
  /\ UNCHANGED <<packet, strokes, intent, termVars>>

(* ps2_keyboard_process_packet on the keyboard thread: a state leaves the    *)
(* queue, interrupts are on ...                                             *)
TakePacket ==
  /\ ~executing /\ packet = NoPacket /\ keyStates # <<>>
  /\ packet' = Head(keyStates) /\ keyStates' = Tail(keyStates)
  /\ UNCHANGED <<down, keyArray, strokes, intent, muddled, termVars>>

(* ... until fire_event has its mutex, behind which the handlers are called. *)
FireEvent ==
  /\ packet # NoPacket /\ packet' = NoPacket
  /\ IF packet.pressed THEN KeyboardHandler(ScanToVirtual(packet.code, packet.escaped)) ELSE UNCHANGED termVars
  /\ UNCHANGED <<down, keyArray, keyStates, strokes, intent, muddled>>

CommandEnds(output) ==
  /\ executing /\ executing' = FALSE
  /\ Shows(WriteStream(Terminal, output \o <<"newline">> \o Prompt))
  /\ currentInput' = <<>> /\ tooLong' = FALSE
  /\ UNCHANGED <<keyVars, commands>>

ConsoleNext ==
  \/ \E k \in Keys : PressKey(k) \/ \E prefixed \in BOOLEAN : ReleaseKey(k, prefixed)
  \/ TakePacket \/ FireEvent
  \/ \E o \in Outputs : CommandEnds(o)

-----------------------------------------------------------------------------
(* The last line of the screen is the prompt, the input and the cursor, as   *)
(* long as it fits; and once the keyboard thread has caught up, the input and*)
(* the commands run are the ones typed, with the modifiers held at the time, *)
(* unless the thread fell behind a modifier, a key found the queue full, or  *)
(* was taken for its extended twin.                                          *)
LineIsWhatWasTyped ==
  /\ (~executing /\ ~tooLong) =>
       screen[tcursor.y + 1] = [c \in 1 .. Columns |->
         LET line == Prompt \o currentInput \o <<"_">> IN IF c <= Len(line) THEN line[c] ELSE " "]
  /\ (~Waiting /\ ~executing /\ ~muddled) =>
       currentInput = intent.line /\ commands = intent.commands

=============================================================================
