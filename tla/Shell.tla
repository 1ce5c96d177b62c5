------------------------------- MODULE Shell -------------------------------
(***************************************************************************)
(* The shell (programs/shell) from a key to a command: enki_tty_readline() *)
(* and enki_parse_cmd() of libc/enki/enki.c, strtok() of libc/string, the  *)
(* echo command, and what all of them print on the terminal.               *)
(*                                                                         *)
(* The shell is one task and shares none of this state: a key is a step,   *)
(* and so is everything from the end of a line to the next prompt.         *)
(* Programs that the shell starts, and that print too, are left out.       *)
(***************************************************************************)
EXTENDS Tty, FiniteSetsExt

CONSTANTS
    Size,      \* of the shell's line buffer
    ArgSize,   \* of an argument in struct cmd_arg
    Echo,      \* "echo"
    Banner,    \* what kernel_main() prints
    Char,      \* what keys other than return and backspace stand for
    MaxLines,  \* bound: lines the user types
    MaxRow     \* bound: the row in which the user stops typing

NUL == "nul"

ASSUME ShellAssumption ==
    /\ Size \in Nat /\ ArgSize \in Nat \ {0} /\ MaxLines \in Nat /\ MaxRow \in Nat
    /\ Echo \in Seq(Char) /\ Len(Echo) \in 1 .. (Size - 2)
    /\ Char \cap {NL, BS, NUL} = {}
    /\ Banner \in Seq(Char \cup {NL})

(* 16 bits count the rows down to the kernel, and those that one command   *)
(* prints.                                                                 *)
ASSUME RowsAssumption ==
    KernelCell + Width * (Size + Len(Banner) + 8) =< Width * U16

VARIABLES
    buf,    \* main()'s line buffer
    i,      \* readline()'s index in it
    tty,    \* the terminal
    scmd,   \* enki_parse_cmd()'s copy of the command, on the stack
    last,   \* strtok()'s place in it, or NULL
    args,   \* what the last command gave enki_system(): <<>> if nothing
    typed,  \* history: the line, as the user means it
    shown,  \* history: the text in front of it, as it should be
    lines,  \* history: lines entered
    mess    \* history: what the user can no longer rely on

vars == <<buf, i, tty, scmd, last, args, typed, shown, lines, mess>>

NULL == -1
Prompt == <<">", Blank>>

(* The string at an index of a buffer. *)
CString(b, from) ==
    LET end == Min({j \in DOMAIN b : j >= from /\ b[j] = NUL})
    IN  [k \in 1 .. (end - from) |-> b[from + k - 1]]

strncpy(dst, s) ==
    [j \in DOMAIN dst |->
        IF j < Len(s) THEN s[j + 1] ELSE IF j = Len(s) THEN NUL ELSE dst[j]]

-----------------------------------------------------------------------------
(* strtok() with a blank for delimiter, on p: the buffer p.s, `last`, the  *)
(* arguments so far and the token found.                                   *)

NoToken == <<>>

(* Mutant: `last` is not reset at the end of the string. *)
StrtokKeepsLast(p) ==
    LET from == IF p.last = NULL THEN 0 ELSE p.last
        start == Min({j \in DOMAIN p.s : j >= from /\ p.s[j] # Blank})
        end == Min({j \in DOMAIN p.s : j >= start /\ p.s[j] \in {Blank, NUL}})
        cut == [p.s EXCEPT ![end] = NUL]
    IN  IF p.s[start] = NUL
        THEN [p EXCEPT !.last = start, !.token = NoToken]
        ELSE [p EXCEPT !.s = cut,
                       !.last = IF p.s[end] = Blank THEN end + 1 ELSE end,
                       !.token = CString(cut, start)]

(* A string is only begun with when the one before was read to its end. *)
strtok(p) ==
    LET from == IF p.last = NULL THEN 0 ELSE p.last
        start == Min({j \in DOMAIN p.s : j >= from /\ p.s[j] # Blank})
        end == Min({j \in DOMAIN p.s : j >= start /\ p.s[j] \in {Blank, NUL}})
        cut == [p.s EXCEPT ![end] = NUL]
    IN  IF p.s[start] = NUL
        THEN [p EXCEPT !.last = NULL, !.token = NoToken]
        ELSE [p EXCEPT !.s = cut,
                       !.last = IF p.s[end] = Blank THEN end + 1 ELSE end,
                       !.token = CString(cut, start)]

Truncate(s, n) == SubSeq(s, 1, Min({Len(s), n - 1}))

(* enki_malloc() succeeds `room` times: a token that is left then found no *)
(* memory.                                                                 *)
enki_parse_cmd(cmd, room) ==
    LET Parse[n \in 0 .. room] ==
            IF n = 0
            THEN strtok([s |-> strncpy(scmd, cmd), last |-> last, args |-> <<>>,
                         token |-> NoToken])
            ELSE IF Parse[n - 1].token = NoToken THEN Parse[n - 1]
            ELSE strtok([Parse[n - 1] EXCEPT
                            !.args = Append(@, Truncate(Parse[n - 1].token, ArgSize))])
    IN  Parse[room]

-----------------------------------------------------------------------------
(* A text, as it looks on the screen. *)
Expand(s) == FlattenSeq([k \in DOMAIN s |-> IF s[k] = TAB THEN TabStop ELSE <<s[k]>>])

(* The buffers are on the shell's stack, which process_load_slot() has     *)
(* cleared and where nothing has been before main().                       *)
Init ==
    /\ buf = [j \in 0 .. (Size - 1) |-> NUL]
    /\ i = 0
    /\ tty = tty_writestr(tty_init, Banner \o Prompt)
    /\ scmd = [j \in 0 .. Size |-> NUL]
    /\ last = NULL
    /\ args = <<>>
    /\ typed = <<>>
    /\ shown = Expand(Banner) \o Prompt
    /\ lines = 0
    /\ mess = {}

(* Mutant: no room is left for the terminator. *)
ReadingToTheEnd == i < Size

Reading == i < Size - 1

Typing == ~tty.hit /\ lines < MaxLines /\ tty.row < MaxRow /\ Reading

(* readline() echoes the key, and stores it. *)
Key(c) ==
    /\ Typing
    /\ tty' = tty_writechar(tty, c)
    /\ buf' = [buf EXCEPT ![i] = c]
    /\ i' = i + 1
    /\ typed' = Append(typed, c)
    /\ UNCHANGED <<scmd, last, args, shown, lines, mess>>

(* Mutant: the loop's own i++ is forgotten. *)
BackspaceStopsShort ==
    /\ Typing /\ i >= 1
    /\ tty' = tty_writechar(tty, BS)
    /\ buf' = [buf EXCEPT ![i - 1] = NUL]
    /\ i' = i
    /\ typed' = Front(typed)
    /\ UNCHANGED <<scmd, last, args, shown, lines, mess>>

(* A tab is four blanks on the screen, and one character of the line; in   *)
(* the first column the terminal loses its place.                          *)
Backspace ==
    /\ Typing /\ i >= 1
    /\ tty' = tty_writechar(tty, BS)
    /\ buf' = [buf EXCEPT ![i - 1] = NUL]
    /\ i' = i - 1
    /\ typed' = IF typed = <<>> THEN typed ELSE Front(typed)
    /\ mess' = IF tty.col = 0 \/ buf[i - 1] = TAB THEN mess \cup {"screen"} ELSE mess
    /\ UNCHANGED <<scmd, last, args, shown, lines>>

(* With nothing to delete, the backspace becomes part of the line, and     *)
(* deletes the prompt.                                                     *)
BackspaceOnEmptyLine ==
    /\ Typing /\ i = 0
    /\ tty' = tty_writechar(tty, BS)
    /\ buf' = [buf EXCEPT ![0] = BS]
    /\ i' = 1
    /\ mess' = mess \cup {"line", "screen"}
    /\ UNCHANGED <<scmd, last, args, typed, shown, lines>>

IsEcho(s) == IsPrefix(Echo, s)

(* The text behind "echo ": behind the end of the line if that was all.    *)
cmd_echo(line) == CString(line, Len(Echo) + 1)

(* What the history variables make of the end of a line. *)
Submitted(starved) ==
    /\ typed' = <<>>
    /\ lines' = lines + 1
    /\ shown' = shown \o Expand(typed) \o <<NL>>
                  \o (IF IsEcho(typed)
                      THEN Expand(SubSeq(typed, Len(Echo) + 2, Len(typed))) \o <<NL>>
                      ELSE <<>>)
                  \o Prompt
    /\ mess' = (mess \ {"line", "args"})
                  \cup (IF starved THEN {"args"} ELSE {})
                  \cup (IF typed = Echo THEN {"screen"} ELSE {})

(* cmd_handler(): echo *)
SubmitEcho ==
    LET line == [buf EXCEPT ![i] = NUL]
    IN  /\ IsEcho(CString(line, 0))
        /\ tty' = tty_writestr(tty, <<NL>> \o cmd_echo(line) \o <<NL>> \o Prompt)
        /\ args' = <<>>
        /\ buf' = line
        /\ i' = 0
        /\ Submitted("args" \in mess)
        /\ UNCHANGED <<scmd, last>>

(* cmd_handler(): enki_system_run(); room bounds the mallocs that succeed. *)
SubmitCommand(room) ==
    LET line == [buf EXCEPT ![i] = NUL]
        p == enki_parse_cmd(CString(line, 0), room)
    IN  /\ ~IsEcho(CString(line, 0))
        /\ tty' = tty_writestr(tty, <<NL>> \o Prompt)
        /\ scmd' = p.s
        /\ last' = p.last
        /\ args' = p.args
        /\ buf' = line
        /\ i' = 0
        /\ Submitted(p.token # NoToken)

(* Return, or a full buffer, ends the line. *)
Submit ==
    /\ ~tty.hit /\ lines < MaxLines
    /\ SubmitEcho \/ \E room \in 0 .. (Size \div 2) : SubmitCommand(room)

(* enki_getkey_block() polls. *)
Poll == Reading /\ UNCHANGED vars

(* What a kernel does that has been written over is not modelled. *)
Ruined == tty.hit /\ UNCHANGED vars

Next ==
    \/ \E c \in Char : Key(c)
    \/ Backspace \/ BackspaceOnEmptyLine
    \/ Submit
    \/ Poll \/ Ruined

Spec == Init /\ [][Next]_vars

-----------------------------------------------------------------------------
(* Properties *)

(* Indices stay inside the buffers, whatever is typed: the line buffer and *)
(* the copy that strtok() cuts into pieces are always terminated.          *)
TypeOK ==
    /\ buf \in [0 .. (Size - 1) -> Char \cup {NUL, BS}]
    /\ i \in 0 .. (Size - 1)
    /\ tty.row \in 0 .. (U16 - 1) /\ tty.col \in 0 .. (U16 - 1)
    /\ tty.vga \in [Cell -> Char \cup {Blank, ">", BS}] /\ tty.hit \in BOOLEAN
    /\ scmd \in [0 .. Size -> Char \cup {NUL, BS}]
    /\ last \in {NULL} \cup 0 .. Size
    /\ scmd[Size] = NUL /\ buf[Size - 1] = NUL

(* readline() holds what the user typed, deletions included, unless a      *)
(* backspace was typed on the empty line.                                  *)
LineIsTyped ==
    "line" \notin mess => i = Len(typed) /\ CString([buf EXCEPT ![i] = NUL], 0) = typed

(* The cells of a text that starts at the top of the screen. *)
CellOf(text) ==
    LET At[k \in 1 .. (Len(text) + 1)] ==
            IF k = 1 THEN 0
            ELSE IF text[k - 1] = NL THEN (At[k - 1] \div Width + 1) * Width
            ELSE At[k - 1] + 1
    IN  At

(* The character of a text that is shown in a cell. *)
Rendered(text, cell) ==
    [c \in Cell |->
        LET here == {k \in DOMAIN text : cell[k] = c /\ text[k] # NL}
        IN  IF here = {} THEN Blank ELSE text[Min(here)]]

(* The screen shows the banner, the prompts, the lines and what echo       *)
(* printed, through wraps, tabs and deletions, as far as they fit on it;   *)
(* the cursor is behind them; and the kernel is written over if, and only  *)
(* if, they run into it: as long as no backspace was typed where the       *)
(* terminal cannot undo it.                                                *)
ScreenShowsText ==
    LET text == shown \o Expand(typed)
        cell == CellOf(text)
    IN  "screen" \notin mess =>
            /\ tty.hit <=> cell[Len(text) + 1] > KernelCell
            /\ ~tty.hit => Cursor(tty) = cell[Len(text) + 1] /\ tty.vga = Rendered(text, cell)

(* Where a maximal run without a blank begins, and the run. *)
Starts(s) == {k \in DOMAIN s : s[k] # Blank /\ (k = 1 \/ s[k - 1] = Blank)}
Word(s, k) == SubSeq(s, k, Min({e \in k .. Len(s) : e = Len(s) \/ s[e + 1] = Blank}))

(* All of them in order, each up to the size of an argument. *)
AreWords(s, a) ==
    \E first \in [DOMAIN a -> Starts(s)] :
        /\ \A m, n \in DOMAIN a : m < n => first[m] < first[n]
        /\ \A k \in Starts(s) : \E n \in DOMAIN a : first[n] = k
        /\ \A n \in DOMAIN a : a[n] = Truncate(Word(s, first[n]), ArgSize)

(* A command is given the words of its line when there is memory for them; *)
(* and a command that found none spoils the next one at most, where        *)
(* strtok() goes on with the old line.                                     *)
ArgsAreWords ==
    [][Submit /\ "line" \notin mess /\ "args" \notin mess \cup mess'
         => IF IsEcho(typed) THEN args' = <<>> ELSE AreWords(typed, args')]_vars
=============================================================================
