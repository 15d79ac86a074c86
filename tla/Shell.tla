------------------------------- MODULE Shell -------------------------------
(***************************************************************************)
(* The kernel shell (kernel/src/commandline.rs): run_command_line reads    *)
(* keys, edits a line, executes it and prints through the terminal; ls and *)
(* cat read the ramdisk.                                                   *)
(*                                                                         *)
(* What a line means is chosen freely: any line that is neither blank nor  *)
(* a comment may be any command, with right or wrong arguments, or none.   *)
(* What a command prints is one of Texts, what a file holds one of         *)
(* Contents.  The registry and the file system exist when the shell runs.  *)
(***************************************************************************)
EXTENDS Terminal, USTar

CONSTANTS
    Typed,     \* the characters that are typed, Delete ("del") may be one
    MaxLine,   \* bound: the characters in a line
    Texts,     \* messages, as tokens
    Contents   \* what files hold, as tokens

ASSUME ShellAssumption ==
    /\ Typed \subseteq Chars \cup {"del"}
    /\ MaxLine \in Nat
    /\ {">", "-"} \subseteq Chars
    /\ Texts \subseteq Seq(Written) /\ Contents \subseteq Seq(Written)

VARIABLES
    spc,            \* "prompt", "read", "exec", "walk", "off", "panicked"
    input_buffer,
    prev_ret_code,
    tidy            \* history: see LineOnScreen

svars == <<spc, input_buffer, prev_ret_code, tidy>>
shell_vars == <<tty, out, ustar_vars, svars>>

\* "[{}] > ": longer for a negative code.
Prompt(code) == IF code < 0 THEN <<"-", ">">> ELSE <<">">>

ShellInit ==
    /\ TerminalInit
    /\ USTarInit
    /\ out = <<>>
    /\ spc = "prompt"
    /\ input_buffer = <<>>
    /\ prev_ret_code = 0
    /\ tidy = FALSE

\* The prompt, at the start and after each line.
ShowPrompt ==
    /\ spc = "prompt"
    /\ out = <<>>
    /\ out' = Prompt(prev_ret_code)
    /\ input_buffer' = <<>>
    /\ spc' = "read"
    /\ tidy' = (Len(Prompt(prev_ret_code)) < Width)
    /\ UNCHANGED <<tty, ustar_vars, prev_ret_code>>

-----------------------------------------------------------------------------
(* A key, when the output of the one before is out.                        *)

Reading == spc = "read" /\ out = <<>>

\* What the terminal shows of the first n characters of a line: Delete has
\* nothing to its right to take.
Seen(buf) ==
    LET seen[n \in 0 .. Len(buf)] ==
            IF n = 0 THEN <<>>
            ELSE IF buf[n] = "del" THEN seen[n - 1] ELSE Append(seen[n - 1], buf[n])
    IN  seen

Visible(buf) == Seen(buf)[Len(buf)]

\* Any character that is not Backspace or Enter, Delete included.
TypeKey(c) ==
    /\ Reading
    /\ Len(input_buffer) < MaxLine
    /\ out' = <<c>>
    /\ input_buffer' = Append(input_buffer, c)
    /\ tidy' = (tidy /\ (c = "del" \/ cursor_x + 1 < Width))
    /\ UNCHANGED <<tty, ustar_vars, spc, prev_ret_code>>

\* Backspace: pop on an empty buffer does nothing, the terminal erases anyway.
EraseKey ==
    /\ Reading
    /\ out' = <<"backspace">>
    /\ input_buffer' = IF input_buffer = <<>> THEN <<>>
                       ELSE SubSeq(input_buffer, 1, Len(input_buffer) - 1)
    /\ tidy' = (tidy /\ input_buffer # <<>> /\ input_buffer = Visible(input_buffer))
    /\ UNCHANGED <<tty, ustar_vars, spc, prev_ret_code>>

\* buf.trim() is empty or starts with #.
Skipped(buf) ==
    \A n \in DOMAIN buf :
        buf[n] # " " => \E k \in 1 .. n : buf[k] = "#" /\ \A j \in 1 .. (k - 1) : buf[j] = " "

\* Enter; process_command returns the code before for a skipped line.
EnterKey ==
    /\ Reading
    /\ out' = <<"\n">>
    /\ spc' = IF Skipped(input_buffer) THEN "prompt" ELSE "exec"
    /\ tidy' = FALSE
    /\ UNCHANGED <<tty, ustar_vars, input_buffer, prev_ret_code>>

-----------------------------------------------------------------------------
(* exec_command.                                                           *)

Returns(code, text) ==
    /\ prev_ret_code' = code
    /\ out' = text
    /\ spc' = "prompt"
    /\ UNCHANGED <<tty, input_buffer, tidy>>

Exec == spc = "exec" /\ out = <<>>

\* search finds no command.
NotFound ==
    /\ Exec
    /\ \E t \in Texts : Returns(-1, t \o <<"\n">>)
    /\ UNCHANGED ustar_vars

\* license, credits, whoami, help, res; shutdown with an unknown machine.
Message ==
    /\ Exec
    /\ \E t \in Texts : Returns(0, t \o <<"\n">>)
    /\ UNCHANGED ustar_vars

\* shutdown or cat with the wrong number of arguments.
Usage ==
    /\ Exec
    /\ \E t \in Texts : Returns(1, t \o <<"\n">>)
    /\ UNCHANGED ustar_vars

smiley == Exec /\ Returns(0, <<"face", "\n">>) /\ UNCHANGED ustar_vars

clear == Exec /\ Returns(0, <<"clear">>) /\ UNCHANGED ustar_vars

\* shutdown writes to a port: the last step on the machine it names, without
\* effect on another one.
shutdown ==
    /\ Exec
    /\ \/ /\ spc' = "off"
          /\ UNCHANGED <<tty, out, input_buffer, prev_ret_code, tidy>>
       \/ Returns(0, <<>>)
    /\ UNCHANGED ustar_vars

panic_ ==
    /\ Exec
    /\ spc' = "panicked"
    /\ UNCHANGED <<tty, out, ustar_vars, input_buffer, prev_ret_code, tidy>>

ls ==
    /\ Exec
    /\ StartWalk("ls", "")
    /\ spc' = "walk"
    /\ UNCHANGED <<tty, out, input_buffer, prev_ret_code, tidy>>

cat ==
    /\ Exec
    /\ \E name \in Names : StartWalk("cat", name)
    /\ spc' = "walk"
    /\ UNCHANGED <<tty, out, input_buffer, prev_ret_code, tidy>>

Walk ==
    /\ spc = "walk"
    /\ WalkStep
    /\ UNCHANGED <<tty, out, svars>>

\* "Found {} files" and a line for each.
LsPrints ==
    /\ spc = "walk"
    /\ walk = "listed"
    /\ \E t \in Texts : Returns(0, t \o <<"\n">>)
    /\ EndWalk

CatPrints ==
    /\ spc = "walk"
    /\ walk = "read"
    /\ \/ found # <<>> /\ \E c \in Contents : Returns(0, c \o <<"\n">>)
       \/ found = <<>> /\ \E t \in Texts : Returns(1, t \o <<"\n">>)
    /\ EndWalk

-----------------------------------------------------------------------------

WriteOut == Write /\ UNCHANGED <<ustar_vars, svars>>

Stopped == spc \in {"off", "panicked"} /\ UNCHANGED shell_vars

Work ==
    \/ WriteOut \/ ShowPrompt
    \/ NotFound \/ Message \/ Usage \/ smiley \/ clear \/ shutdown \/ panic_ \/ ls \/ cat
    \/ Walk \/ LsPrints \/ CatPrints

Keys == (\E c \in Typed : TypeKey(c)) \/ EraseKey \/ EnterKey

ShellNext == Work \/ Keys \/ Stopped

\* The poll of the shell task runs on until it waits for a key.
ShellSpec == ShellInit /\ [][ShellNext]_shell_vars /\ WF_shell_vars(Work)

-----------------------------------------------------------------------------

ShellTypeOK ==
    /\ TerminalTypeOK
    /\ USTarTypeOK
    /\ spc \in {"read", "exec", "walk", "prompt", "off", "panicked"}
    /\ input_buffer \in Seq(Typed)
    /\ Len(input_buffer) <= MaxLine
    /\ prev_ret_code \in {-1, 0, 1}
    /\ tidy \in BOOLEAN

\* The line on the screen is the line that Enter executes, but for the Deletes
\* in it: the cursor's row holds the prompt and the visible part of the input
\* buffer and nothing else, wherever the text before it was scrolled.  `tidy'
\* says that the line has stayed inside its row and no Backspace has met its
\* start or a Delete, which it takes from the buffer instead of what it takes
\* from the screen.  The line's glyphs are drawn, after Backspace too; nothing
\* else is drawn in its row unless a delete has left the glyph of NUL in the
\* cells behind it.
LineOnScreen ==
    Reading /\ tidy =>
        LET line == Prompt(prev_ret_code) \o Visible(input_buffer) IN
        /\ cursor_x = Len(line)
        /\ \A x \in 0 .. (Width - 1) :
              LET k == cursor_y * Width + x
                  c == IF x < Len(line) THEN line[x + 1] ELSE NUL
                  shown == IF c = NUL THEN {} ELSE Glyph(k, c)
              IN  /\ text_buf[k] = c
                  /\ shown \subseteq screen[k]
                  /\ ~erased => shown = screen[k]

\* Every command but shutdown and panic comes back to the prompt, whatever
\* the archive looks like.
CommandReturns == (spc = "exec") ~> (spc \in {"read", "off", "panicked"})

=============================================================================
