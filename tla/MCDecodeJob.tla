---------------------------- MODULE MCDecodeJob ----------------------------
(* Every request of up to MaxMessages messages. *)
EXTENDS DecodeJob

CONSTANT MaxMessages

MCJobs == UNION {[1..n -> {"located", "unlocated"}] : n \in 0..MaxMessages}
=============================================================================
