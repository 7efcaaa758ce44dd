---------------------------- MODULE ByteStream ----------------------------
(***************************************************************************)
(* What a TCP socket promises its listener: of every connection the bytes   *)
(* the peer wrote, in order, each once and none left out, and nothing of a  *)
(* connection any more once a later one has been heard.                     *)
(***************************************************************************)
EXTENDS Integers, Sequences

CONSTANT MaxConn

Conns == 1 .. MaxConn

VARIABLES
  written,    \* how many bytes the peer has written to each connection
  read        \* the bytes heard in each connection: whose they are, which one

vars == <<written, read>>

Init == written = [k \in Conns |-> 0] /\ read = [k \in Conns |-> <<>>]

Write(k) ==
  /\ written' = [written EXCEPT ![k] = @ + 1]
  /\ UNCHANGED read

Read(k) ==
  /\ Len(read[k]) < written[k]
  /\ \A l \in Conns : l > k => read[l] = <<>>
  /\ read' = [read EXCEPT ![k] = Append(@, <<k, Len(@) + 1>>)]
  /\ UNCHANGED written

Next == \E k \in Conns : Write(k) \/ Read(k)

Spec == Init /\ [][Next]_vars
=============================================================================
