----------------------------- MODULE MCChatPage -----------------------------
(* Dialogs of two question types.                                            *)
EXTENDS ChatPage, TLC

MCQuestions == <<"gender", "occasion">>
Symmetry == Permutations(Conv)
=============================================================================
