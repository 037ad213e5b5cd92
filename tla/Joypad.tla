------------------------------- MODULE Joypad -------------------------------
(***************************************************************************)
(* The buttons and the register P1.  Four lines go to the processor; each  *)
(* is shared by a button of either row, and the program selects the rows   *)
(* that pull the lines down.  A falling line requests the interrupt.       *)
(***************************************************************************)
EXTENDS Integers

CONSTANT Lines  \* the four lines

Rows == {"dpad", "buttons"}

VARIABLES
  selected, \* rows P1 selects
  pressed,  \* <<row, line>> of the buttons that are down
  joypIf,   \* the joypad's bit of IF
  lastPad   \* history: the last operation, and its button

joypadVars == <<selected, pressed, joypIf, lastPad>>

Buttons == Rows \X Lines

JoypadInit ==
  /\ selected = {} /\ pressed = {} /\ joypIf = FALSE
  /\ lastPad = <<"start">>

\* poll_low_nibble: the lines that are down.
Down(rows, buttons) == {b[2] : b \in {c \in buttons : c[1] \in rows}}

\* has_falling_edge
Falls(before, after) == after \ before # {}

\* Bus::write8 for P1; the bus compares the values read before and after.
WriteP1(rows) ==
  /\ selected' = rows
  /\ joypIf' = (joypIf \/ Falls(Down(selected, pressed), Down(rows, pressed)))
  /\ lastPad' = <<"select">>
  /\ UNCHANGED pressed

\* Bus::set_button_pressed
SetButton(b, down) ==
  LET after == IF down THEN pressed \union {b} ELSE pressed \ {b}
  IN /\ pressed' = after
     /\ joypIf' = (joypIf \/ Falls(Down(selected, pressed), Down(selected, after)))
     /\ lastPad' = <<IF down THEN "press" ELSE "release", b>>
     /\ UNCHANGED selected

\* The processor serves the interrupt, or the program clears the bit.
Acknowledge ==
  /\ joypIf /\ joypIf' = FALSE /\ lastPad' = <<"clear">>
  /\ UNCHANGED <<selected, pressed>>

\* Bus::reset: the machine forgets that buttons are down.
JoypadReset ==
  /\ selected' = {} /\ pressed' = {} /\ joypIf' = FALSE
  /\ lastPad' = <<"reset">>

JoypadNext ==
  \/ \E rows \in SUBSET Rows : WriteP1(rows)
  \/ \E b \in Buttons, down \in BOOLEAN : SetButton(b, down)
  \/ Acknowledge \/ JoypadReset

JoypadSpec == JoypadInit /\ [][JoypadNext]_joypadVars

-----------------------------------------------------------------------------

JoypadTypeOK ==
  /\ selected \subseteq Rows /\ pressed \subseteq Buttons /\ joypIf \in BOOLEAN

(***************************************************************************)
(* A program that keeps one row selected hears of every press in that row: *)
(* a button of the selected row that was up requests the interrupt.  (With *)
(* both rows selected two buttons share a line and the second is not       *)
(* heard.)                                                                 *)
(***************************************************************************)
PressHeard ==
  [][ \A b \in Buttons :
        (lastPad' = <<"press", b>> /\ b \notin pressed /\ selected = {b[1]}) => joypIf' ]_joypadVars

(***************************************************************************)
(* The interrupt is requested only when the program would then read a      *)
(* button down: never by a release, and never by deselecting rows.         *)
(***************************************************************************)
NoIdleRequest ==
  [][ (~joypIf /\ joypIf') =>
        /\ Down(selected', pressed') # {}
        /\ lastPad'[1] # "release" /\ ~(selected' \subseteq selected /\ pressed' \subseteq pressed)
    ]_joypadVars
=============================================================================
