----------------------------- MODULE MCDesktop -----------------------------
(* The mouse and its driver, windows under the cursor, the keyboard and the  *)
(* terminal, a game, and processes with their memory, side by side: a        *)
(* behaviour is one of the five, the others stay as they begin.              *)
EXTENDS Mouse, Windows, Console, Minesweeper, Process

VARIABLE scene

MCPackets ==
  {[head |-> 9, dx |-> 2, dy |-> 1, dz |-> 0], [head |-> 24, dx |-> 8, dy |-> 9, dz |-> 255],
   [head |-> 73, dx |-> 1, dy |-> 8, dz |-> 1], [head |-> 73, dx |-> 1, dy |-> 2, dz |-> 0]}
MCMoves == {<<0, 0>>, <<4, 4>>, <<-4, 0>>, <<0, -2>>}
MCSizes == {<<4, 4>>, <<1, 4>>, <<9, 4>>}
MCKeys == [code : {"1E", "2A", "0E", "0F"}, extended : {FALSE}] \union [code : {"1C"}, extended : BOOLEAN]
MCOutputs == {<<"x", "newline">>}

(* A text of two pages and data of one with three more of zeros, behind each *)
(* other over two large pages; linked askew; and linked over the stack.      *)
Text == [load |-> TRUE, address |-> 8, offset |-> 1, fileSize |-> 2, memorySize |-> 2]
Data == [load |-> TRUE, address |-> 11, offset |-> 5, fileSize |-> 1, memorySize |-> 4]
Comment == [load |-> FALSE, address |-> 0, offset |-> 0, fileSize |-> 3, memorySize |-> 3]
MCImages == {<<Comment, Text, Data>>, <<[Text EXCEPT !.address = 9]>>, <<[Text EXCEPT !.address = 4]>>}
Entry(first, pages) == [first |-> first, pages |-> pages]
MCFirmware == {{Entry(18, 1)}, {Entry(28, 32)}, {Entry(40, 30)}}

Init ==
  /\ scene \in {"mouse", "windows", "console", "game", "process"}
  /\ MouseInit /\ WindowsInit /\ ConsoleInit
  /\ firmware \in IF scene = "process" THEN FirmwareMaps ELSE {CHOOSE f \in FirmwareMaps : TRUE}
  /\ ProcessInit
  /\ bombs \in IF scene = "game" THEN BombChoices ELSE {CHOOSE b \in BombChoices : TRUE}
  /\ GameInit

Next ==
  /\ UNCHANGED scene
  /\ \/ scene = "mouse" /\ MouseNext /\ UNCHANGED <<wmVars, consoleVars, gameVars, processVars>>
     \/ scene = "windows" /\ WindowsNext /\ UNCHANGED <<mouseVars, consoleVars, gameVars, processVars>>
     \/ scene = "console" /\ ConsoleNext /\ UNCHANGED <<mouseVars, wmVars, gameVars, processVars>>
     \/ scene = "game" /\ GameNext /\ UNCHANGED <<mouseVars, wmVars, consoleVars, processVars>>
     \/ scene = "process" /\ ProcessNext /\ UNCHANGED <<mouseVars, wmVars, consoleVars, gameVars>>

vars == <<scene, mouseVars, wmVars, consoleVars, gameVars, processVars>>
Spec == Init /\ [][Next]_vars

=============================================================================
