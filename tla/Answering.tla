------------------------------ MODULE Answering ------------------------------
(***************************************************************************)
(* How a message is answered: the handler that takes it (Dispatch), and    *)
(* the text that the handler has for it, which is parsed (Templates) and   *)
(* evaluated (Actions).  Dispatch sees all of that as one step; the parts  *)
(* share no state.                                                         *)
(***************************************************************************)
EXTENDS Dispatch, Actions, Templates

AnsweringSpec == DispatchSpec /\ ActionsSpec /\ TemplatesSpec

(* A message is answered by one handler, whom its sender may use, with a text *)
(* of which nothing is lost, that is not evaluated within itself and is       *)
(* silent where it says so.                                                   *)
AnsweringInv == DispatchInv /\ ActionsInv /\ TemplatesInv
=============================================================================
