----------------------------- MODULE RadioFrames -----------------------------
(***************************************************************************)
(* What goes over the air, as far as the properties tell frames apart.     *)
(***************************************************************************)
CONSTANTS TxFrames,   \* payloads the device sends
          RxFrames,   \* payloads other stations send
          Garbled,    \* what is left of one whose checksum is wrong
          NoFrame     \* the contents of a buffer nobody has written

ASSUME FramesAssumption ==
  /\ NoFrame \notin TxFrames \cup RxFrames
  /\ Garbled \notin TxFrames \cup RxFrames

Frames == TxFrames \cup RxFrames \cup {Garbled, NoFrame}
=============================================================================
