------------------------------ MODULE MCChatHistory ------------------------------
(* Instance of ChatHistory for TLC: three turns overlap in every way, and the second *)
(* already condenses.                                                                *)
EXTENDS ChatHistory
=============================================================================
