---------------------------- MODULE SequenceFilter ----------------------------
(***************************************************************************)
(* What SelectSeq does for a test of membership, as a recursive function   *)
(* whose equations can be proved: strtok passing over empty levels         *)
(* (module TopicPaths), the settings in use in their order (Settings).     *)
(***************************************************************************)
EXTENDS Naturals, Sequences

(* The sequence s without the elements that are in S. *)
Without(s, S) ==
  LET upTo[n \in 0 .. Len(s)] ==
        IF n = 0 THEN << >>
        ELSE IF s[n] \in S THEN upTo[n - 1] ELSE Append(upTo[n - 1], s[n])
  IN  upTo[Len(s)]
==============================================================================
