------------------------------- MODULE MCIpc -------------------------------
(* A listener that sends two events and a program that sends one line of   *)
(* any kind, with one permit for both.                                     *)
EXTENDS Ipc

CONSTANTS l, t
MCMaxEvents == [c \in {l, t} |-> IF c = l THEN 2 ELSE 1]

=============================================================================
