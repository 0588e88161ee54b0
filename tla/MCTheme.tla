------------------------------ MODULE MCTheme -------------------------------
(* One file in which a style is declared again.                            *)
EXTENDS Theme

MCAuthors == {[files |-> {"scene"}, overlays |-> {"none"}, max |-> 2,
               nodes |-> {[is |-> "style", of |-> "normal", to |-> c] : c \in {"red", "green"}}]}
=============================================================================
