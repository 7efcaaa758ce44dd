----------------------------- MODULE MCNetwork -----------------------------
(* The card with its rings, the configuration with its queries, and the     *)
(* codecs, side by side: a behaviour is one of the three, the others stay   *)
(* as they begin.                                                           *)
EXTENDS Nic, NetConfig, NetCodecs

CONSTANTS Characters, Bytes, OptionTypes, MaxInput

VARIABLES scene, input

MCLans == {[servers |-> {"s", "t"}, names |-> {"a"}],
           [servers |-> {"s"}, names |-> {"a", "b", "c"}]}

SeqsUpTo(S, n) == UNION {[1 .. k -> S] : k \in 0 .. n}
Stale == [1 .. 2 -> OptionTypes \union {Pad, End}]
Option == [type : OptionTypes, data : SeqsUpTo({Pad, End}, 2)]
Inputs ==
  [kind : {"name"}, value : SeqsUpTo(Characters \union {Dot}, MaxInput)]
  \union [kind : {"packet"}, value : SeqsUpTo(Bytes, MaxInput - 1)]
  \union [kind : {"options"}, value : SeqsUpTo(Option, MaxInput - 3)]
  \union [kind : {"words"}, value : SeqsUpTo(0 .. Word - 1, MaxInput - 1)]

NoInput == [kind |-> "none", value |-> <<>>]

Init ==
  /\ scene \in {"codec", "nic", "config"}
  /\ IF scene = "codec" THEN input \in Inputs ELSE input = NoInput
  /\ NicInit /\ (scene # "nic" => kind = "e1000")
  /\ NetConfigInit /\ (scene # "config" => lan.servers = {"s"})

Next ==
  /\ UNCHANGED <<scene, input>>
  /\ \/ scene = "nic" /\ NicNext /\ UNCHANGED netVars
     \/ scene = "config" /\ NetConfigNext /\ UNCHANGED nicVars

vars == <<scene, input, nicVars, netVars>>

(* Outside its scene no action that NetConfigFairness names is enabled.     *)
Spec == Init /\ [][Next]_vars /\ (scene = "nic" => NicFairness) /\ NetConfigFairness

(* Names, options and checksums that are written are read back the same,    *)
(* whatever lies behind them; no bytes lead the readers of names out of the *)
(* packet, and none lead the reader of options out of their field, which    *)
(* may be longer than what was received.                                    *)
CodecsAgree ==
  /\ input.kind = "name" => NameSurvives(input.value)
  /\ input.kind = "packet" => PacketIsRead(input.value)
  /\ input.kind = "options" =>
       \A stale \in Stale : OptionIsFound(input.value, stale) /\ OptionIsInField(input.value, stale)
  /\ input.kind = "words" => ChecksumVerifies(input.value)

=============================================================================
