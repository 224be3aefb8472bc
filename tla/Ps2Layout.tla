------------------------------ MODULE Ps2Layout -----------------------------
(***************************************************************************)
(* The default scan map of the keyboard driver and the key codes it is     *)
(* written in.  A printable key's code is its ASCII value, so the tables   *)
(* are numbers.                                                            *)
(***************************************************************************)
EXTENDS Naturals, Sequences

KEY_CTRL     == 129
KEY_SHIFT    == 130
KEY_ALT      == 131
KEY_CAPSLOCK == 145
KEY_NUMLOCK  == 146
KEY_SCRLOCK  == 147
KEY_SCANESC  == 254
KEY_INVALID  == 255

KeyCode  == 0..255
ScanCode == 0..127

LOCAL Inv(n) == [i \in 1..n |-> KEY_INVALID]

\* Scan codes 0x3a..0x7f read the same in both halves of the layout.
LOCAL Upper ==
    <<KEY_CAPSLOCK, 176, 177, 178, 179, 180,
      181, 182, 183, 184, 185, KEY_NUMLOCK, KEY_SCRLOCK, 167,
      168, 169, 171, 164, 165, 166, 172, 161,
      162, 163, 160, 170>> \o Inv(3) \o <<186, 187>> \o Inv(7)
      \o <<KEY_SCANESC, KEY_SCANESC>> \o Inv(30)

LOCAL UnshiftedRow ==
    <<KEY_INVALID, 27, 49, 50, 51, 52, 53, 54,
      55, 56, 57, 48, 45, 61, 8, 9,
      113, 119, 101, 114, 116, 121, 117, 105,
      111, 112, 91, 93, 13, KEY_CTRL, 97, 115,
      100, 102, 103, 104, 106, 107, 108, 59,
      39, 96, KEY_SHIFT, 92, 122, 120, 99, 118,
      98, 110, 109, 44, 46, 47, KEY_SHIFT, 144,
      KEY_ALT, 32>> \o Upper

LOCAL ShiftedRow ==
    <<KEY_INVALID, 27, 33, 64, 35, 36, 37, 94,
      38, 42, 40, 41, 95, 43, 8, 9,
      81, 87, 69, 82, 84, 89, 85, 73,
      79, 80, 123, 125, 13, KEY_CTRL, 65, 83,
      68, 70, 71, 72, 74, 75, 76, 58,
      34, 126, KEY_SHIFT, 124, 90, 88, 67, 86,
      66, 78, 77, 60, 62, 63, KEY_SHIFT, 144,
      KEY_ALT, 32>> \o Upper

ps2_layout ==
    [shifted   |-> [sc \in ScanCode |-> ShiftedRow[sc + 1]],
     unshifted |-> [sc \in ScanCode |-> UnshiftedRow[sc + 1]]]
=============================================================================
