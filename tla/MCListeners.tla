---------------------------- MODULE MCListeners ----------------------------
(* Two devices of two levels, lines of two bytes, two batteries on both    *)
(* sides of two bands and one of no weight, one identifier for several     *)
(* nodes of two names.                                                     *)
EXTENDS Listeners

MCWeight == <<0, 2>>
MCOptions == {[apps |-> TRUE, binaries |-> b, channels |-> c, defaultOnly |-> d] :
                b \in {{}, {"a"}}, c \in {{"speaker"}, {"speaker", "mic"}}, d \in BOOLEAN}
=============================================================================
