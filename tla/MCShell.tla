------------------------------ MODULE MCShell -------------------------------
(* A line of few characters.  The words of the commands are made of the    *)
(* letters that also end an escape sequence, so that few keys give all the *)
(* cases: a program is any other word.                                     *)
EXTENDS Shell

LsWord == <<Bracket>>
CatWord == <<ArrowLeft>>
ExitWord == <<ArrowRight>>
StatusWord == <<Escape>>
OtherWords == {<<Enter>>}
=============================================================================
