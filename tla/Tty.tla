-------------------------------- MODULE Tty --------------------------------
(***************************************************************************)
(* The terminal of kernel/drivers/tty/tty.c: what each call does to the    *)
(* cursor and to the video memory.  A terminal is a record of tty_row,     *)
(* tty_col, the characters on the screen, and whether a character has been *)
(* written over the kernel; colours are left out.                          *)
(*                                                                         *)
(* Nothing scrolls and nothing bounds tty_row: what is written below the   *)
(* last row lands behind the screen, where it cannot be seen, and further  *)
(* down in the kernel, which is loaded behind the video memory.            *)
(***************************************************************************)
EXTENDS Integers, Sequences, SequencesExt

CONSTANTS
    Width, Height,  \* VGA_WIDTH, VGA_HEIGHT
    KernelCell      \* the kernel's first address, in cells from VGA_MEMORY_START

U16 == 65536              \* tty_row and tty_col are uint16_t

ASSUME TtyAssumption ==
    /\ Width \in 1 .. (U16 - 1) /\ Height \in Nat \ {0}
    /\ KernelCell \in Nat /\ Width * Height =< KernelCell

Cell == 0 .. (Width * Height - 1)

Blank == " "
NL == "newline"
TAB == "tab"
BS == "backspace"

tty_init == [row |-> 0, col |-> 0, vga |-> [c \in Cell |-> Blank], hit |-> FALSE]

Cursor(t) == t.row * Width + t.col

tty_putchar(t, c) ==
    IF Cursor(t) \in Cell THEN [t EXCEPT !.vga[Cursor(t)] = c]
    ELSE [t EXCEPT !.hit = @ \/ Cursor(t) >= KernelCell]

(* Put the character down, and step over it. *)
Print1(t, c) ==
    LET col == (t.col + 1) % U16
        put == tty_putchar(t, c)
    IN  IF col >= Width
        THEN [put EXCEPT !.row = (@ + 1) % U16, !.col = 0]
        ELSE [put EXCEPT !.col = col]

(* Mutant: the cursor stays behind the character that is deleted. *)
BackspaceStays(t) ==
    IF t.row = 0 /\ t.col = 0 THEN t
    ELSE Print1([t EXCEPT !.col = @ - 1], Blank)

(* In the first column the blank goes to the end of the row above, the     *)
(* cursor comes back to the row it left, and steps out of it to the left.  *)
tty_backspace(t) ==
    LET back == IF t.col = 0
                THEN [t EXCEPT !.row = @ - 1, !.col = Width - 1]
                ELSE [t EXCEPT !.col = @ - 1]
    IN  IF t.row = 0 /\ t.col = 0 THEN t
        ELSE [Print1(back, Blank) EXCEPT !.col = (@ - 1) % U16]

tty_newline(t) == [t EXCEPT !.row = (@ + 1) % U16, !.col = 0]

TabStop == <<Blank, Blank, Blank, Blank>>

tty_tab(t) == Print1(Print1(Print1(Print1(t, Blank), Blank), Blank), Blank)

tty_writechar(t, c) ==
    CASE c = NL  -> tty_newline(t)
      [] c = TAB -> tty_tab(t)
      [] c = BS  -> tty_backspace(t)
      [] OTHER   -> Print1(t, c)

tty_writestr(t, s) ==
    LET Write[k \in 0 .. Len(s)] == IF k = 0 THEN t ELSE tty_writechar(Write[k - 1], s[k])
    IN  Write[Len(s)]
=============================================================================
