----------------------------- MODULE MCSharing -----------------------------
(* What threads and interrupts of the kernel share: mutexes between threads *)
(* and a ring between an interrupt and a thread, side by side; a behaviour  *)
(* is one of the two, the other stays as it begins.                         *)
EXTENDS KMutex, RingBuffer

VARIABLE scene

sharingVars == <<scene, vars, ringVars>>

SharingInit == scene \in {"mutex", "ring"} /\ Init /\ RingInit

SharingNext ==
  /\ UNCHANGED scene
  /\ \/ scene = "mutex" /\ Next /\ UNCHANGED ringVars
     \/ scene = "ring" /\ RingNext /\ UNCHANGED vars

SharingSpec == SharingInit /\ [][SharingNext]_sharingVars

(* The ring drains in its own scene only, where no thread takes a mutex.    *)
FairSpec ==
  SharingSpec /\ (scene = "mutex" => KMutexFairness) /\ (scene = "ring" => RingFairness)

=============================================================================
