----------------------------- MODULE MCKeyboard -----------------------------
(***************************************************************************)
(* Constants for TLC.  "ps2" is the driver's own scan map; "swapped" is a  *)
(* second layout, for kb_setlayout, that exchanges two letters.            *)
(***************************************************************************)
EXTENDS Keyboard

MCSwap(t) == [t EXCEPT ![30] = t[48], ![48] = t[30]]

MCShifted   == [l \in Layouts |-> IF l = "ps2" THEN ps2_layout.shifted
                                  ELSE MCSwap(ps2_layout.shifted)]
MCUnshifted == [l \in Layouts |-> IF l = "ps2" THEN ps2_layout.unshifted
                                  ELSE MCSwap(ps2_layout.unshifted)]

KeyA       == [esc |-> FALSE, code |-> 30]
KeyCaps    == [esc |-> FALSE, code |-> 58]
LeftShift  == [esc |-> FALSE, code |-> 42]
RightShift == [esc |-> FALSE, code |-> 54]
RightCtrl  == [esc |-> TRUE,  code |-> 29]

Modifiers    == {KeyA, LeftShift, KeyCaps, RightCtrl}
TwoShifts    == {KeyA, LeftShift, RightShift}

\* The keyboard of the run that passes is one the theorems speak of.
ASSUME HypothesesHold ==
    PhysKeys = Modifiers => OneKeyPerModifier /\ LayoutsAgree /\ LettersPaired
=============================================================================
