----------------------------- MODULE MCChatTurns -----------------------------
(* The instance of ChatTurns that TLC checks. *)
EXTENDS ChatTurns, TLC
=============================================================================
