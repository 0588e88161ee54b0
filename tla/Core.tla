-------------------------------- MODULE Core --------------------------------
(***************************************************************************)
(* What the library awob-core does for the daemon: themes are put together *)
(* from their files, expressions are read and evaluated, frames are drawn. *)
(* A behaviour is of one of the three.                                     *)
(***************************************************************************)
EXTENDS Renderer, Expr, Theme

VARIABLE running     \* which of them

vars == <<running, rendererVars, exprVars, themeVars>>

One(S) == CHOOSE x \in S : TRUE

Init == /\ running \in {"renderer", "expr", "theme"}
        /\ RendererInit
        /\ ExprInit
        /\ running = "expr" \/ alphabet = One(Alphabets)
        /\ ThemeInit
        /\ running = "theme" \/ (author = One(Authors) /\ force = One(author.overlays))

Next == \/ running = "renderer" /\ RendererNext /\ UNCHANGED <<running, exprVars, themeVars>>
        \/ running = "expr" /\ ExprNext /\ UNCHANGED <<running, rendererVars, themeVars>>
        \/ running = "theme" /\ ThemeNext /\ UNCHANGED <<running, rendererVars, exprVars>>

Spec == Init /\ [][Next]_vars
=============================================================================
