------------------------------ MODULE Console ------------------------------
(***************************************************************************)
(* munux-os/kernel/kernel.c as the user sees it: the boot sequence of      *)
(* kernel_main(), the shell, the log that goes to the screen (module       *)
(* Terminal) and to COM1 (module Serial), sys_write() of syscall.c, and    *)
(* kernel_panic().                                                         *)
(*                                                                         *)
(* One thread does all this.  What it has still to print is in todo, in    *)
(* order; it goes on when todo is empty.  A string goes to the screen in   *)
(* one step and to COM1 character by character, because the UART makes the *)
(* thread wait.  Texts are abstracted to a character and its newlines, the *)
(* names of the commands to a choice; the line is kept character by        *)
(* character.                                                              *)
(***************************************************************************)
EXTENDS Terminal, Serial

CONSTANTS
    LINE,       \* sizeof(line)
    Letters,    \* printable characters the user types
    ECHO        \* the length of "echo "

ASSUME ConsoleAssumption ==
    /\ LINE \in Nat \ {0} /\ ECHO \in Nat \ {0}
    /\ 2 * LINE <= CELLS
    /\ "\n" \notin Letters /\ BS \notin Letters

VARIABLES
    screen,
    pc,         \* "call", "check" (boot), "prompt", "read", "exec", "panic"
    stage, up,  \* the boot: its next stage, and what is initialised
    todo,       \* the output that is under way
    line,       \* the first len characters of line[]
    home        \* the cell where the prompt begins

vars == <<screen, com1, pc, stage, up, todo, line, home>>

-----------------------------------------------------------------------------
(* Output                                                                  *)

Vga(text) == <<[to |-> "vga", text |-> text]>>
Com(text) == <<[to |-> "com", text |-> text]>>
klog(text) == Vga(text) \o Com(text)

\* sys_write() gives every character to both in turn.
sys_write(text) ==
    [i \in 1 .. 2 * Len(text) |->
        [to |-> IF i % 2 = 1 THEN "vga" ELSE "com", text |-> <<text[(i + 1) \div 2]>>]]

Text == <<"t">>
Line == <<"t", "\n">>
Prompt == <<">">>

print_vga ==
    /\ todo # << >> /\ pc # "panic"
    /\ Head(todo).to = "vga"
    /\ screen' = terminal_writestring(screen, Head(todo).text)
    /\ todo' = Tail(todo)
    /\ UNCHANGED <<com1, pc, stage, up, line, home>>

\* serial_writestring() up to its end.
print_com ==
    /\ todo # << >> /\ pc # "panic"
    /\ Head(todo).to = "com"
    /\ LET text == Head(todo).text
       IN  /\ serial_putchar(Head(text))
           /\ todo' = IF Len(text) = 1 THEN Tail(todo) ELSE Com(Tail(text)) \o Tail(todo)
    /\ UNCHANGED <<screen, pc, stage, up, line, home>>

drain == uart_drains /\ UNCHANGED <<screen, pc, stage, up, todo, line, home>>

-----------------------------------------------------------------------------
(* The boot: what each stage uses and initialises, what it prints before   *)
(* and after, and whether it is a check that may end in kernel_panic().    *)

Stage(uses, gives, before, after, checks) ==
    [uses |-> uses, gives |-> gives, before |-> before, after |-> after, checks |-> checks]

boot_clear == Stage({}, {"screen"}, << >>, << >>, FALSE)
boot_serial == Stage({}, {"serial"}, << >>, Vga(Line), FALSE)
idt_init == Stage({}, {"idt"}, Vga(Line), << >>, FALSE)
detect_memory == Stage({}, {"memory"}, << >>, klog(Line), FALSE)
pmm_init == Stage({"memory"}, {"frames"}, Vga(Line), << >>, FALSE)
vmm_init == Stage({"frames"}, {"paging"}, Vga(Line), << >>, FALSE)
heap_init == Stage({"paging", "frames"}, {"heap"}, Vga(Line), << >>, FALSE)
rust_heap_smoke == Stage({"heap"}, {}, Vga(Line), Vga(Line), TRUE)
timer_init == Stage({"idt"}, {"timer"}, Vga(Line), klog(Line), FALSE)
keyboard_init == Stage({"idt"}, {"keyboard"}, << >>, klog(Line), FALSE)
sti == Stage({"idt", "timer", "keyboard"}, {"interrupts"}, << >>, klog(Line), FALSE)
boot_selfcheck == Stage({"timer", "interrupts"}, {}, klog(Line), klog(Text) \o klog(Line), TRUE)
libk_selfcheck == Stage({}, {}, << >>, klog(Line), TRUE)
vfs_selftest == Stage({"heap"}, {}, << >>, klog(Line), TRUE)
vfs_init == Stage({"heap"}, {"vfs"}, << >>, << >>, FALSE)
syscall_selfcheck == Stage({"idt", "vfs"}, {}, sys_write(Line), klog(Line), TRUE)
disk_init == Stage({}, {"disk"}, << >>, << >>, FALSE)
bcache_selftest == Stage({"heap", "disk"}, {}, << >>, klog(Line), TRUE)
ext2_selftest == Stage({"heap", "disk"}, {}, << >>, klog(Line), TRUE)
no_disk == Stage({}, {}, << >>, klog(Line), FALSE)

\* Mutant: interrupts are enabled before the keyboard's handler is there.
Boot_sti_early ==
    <<boot_clear, boot_serial, idt_init, detect_memory, pmm_init, vmm_init, heap_init,
      rust_heap_smoke, timer_init, sti, keyboard_init, boot_selfcheck, libk_selfcheck,
      vfs_selftest, vfs_init, syscall_selfcheck, disk_init, bcache_selftest, ext2_selftest,
      no_disk>>

\* kernel_main().
Boot ==
    <<boot_clear, boot_serial, idt_init, detect_memory, pmm_init, vmm_init, heap_init,
      rust_heap_smoke, timer_init, keyboard_init, sti, boot_selfcheck, libk_selfcheck,
      vfs_selftest, vfs_init, syscall_selfcheck, disk_init, bcache_selftest, ext2_selftest,
      no_disk>>

\* disk_present() after disk_init(): the two checks of the disk, or the line that
\* says that there is none.
NextStages ==
    CASE stage = Len(Boot) - 3 -> {stage + 1, stage + 3}
      [] stage = Len(Boot) - 1 -> {stage + 2}
      [] OTHER -> {stage + 1}

boot_call ==
    /\ pc = "call" /\ todo = << >>
    /\ pc' = "check"
    /\ todo' = Boot[stage].before
    /\ IF stage = 1 THEN screen' = terminal_clear ELSE UNCHANGED screen
    /\ IF stage = 2 THEN serial_init ELSE UNCHANGED com1
    /\ UNCHANGED <<stage, up, line, home>>

\* The stage returns; the shell greets after the last one.
boot_return ==
    /\ pc = "check" /\ todo = << >>
    /\ up' = up \cup Boot[stage].gives
    /\ stage' \in NextStages
    /\ IF stage' <= Len(Boot)
       THEN pc' = "call" /\ todo' = Boot[stage].after
       ELSE pc' = "prompt" /\ todo' = Boot[stage].after \o klog(<<"\n">> \o Line)
    /\ UNCHANGED <<screen, com1, line, home>>

-----------------------------------------------------------------------------
(* kernel_panic()                                                          *)

kernel_panic ==
    /\ screen' = terminal_writestring(screen, <<"\n">> \o Line \o Line)
    /\ pc' = "panic"
    /\ todo' = << >>
    /\ UNCHANGED <<com1, stage, up, line, home>>

\* A check of the boot fails.
boot_fails == pc = "check" /\ todo = << >> /\ Boot[stage].checks /\ kernel_panic

\* An exception of the CPU, whatever the thread is doing.
isr_handler == "idt" \in up /\ pc # "panic" /\ kernel_panic

-----------------------------------------------------------------------------
(* The shell: the inner loop of shell_run() reads a key at a time.         *)

shell_prompt ==
    /\ pc = "prompt" /\ todo = << >>
    /\ pc' = "read"
    /\ todo' = klog(Prompt)
    /\ line' = << >>
    /\ home' = Cursor(screen)
    /\ UNCHANGED <<screen, com1, stage, up>>

Reading == pc = "read" /\ todo = << >>

shell_newline ==
    /\ Reading
    /\ pc' = "exec"
    /\ todo' = klog(<<"\n">>)
    /\ UNCHANGED <<screen, com1, stage, up, line, home>>

\* Mutant: an empty line is not looked for.
shell_backspace_unguarded ==
    /\ Reading
    /\ line' = IF line = << >> THEN line ELSE Front(line)
    /\ screen' = terminal_backspace(screen)
    /\ todo' = Com(<<BS>>)
    /\ UNCHANGED <<com1, pc, stage, up, home>>

\* Mutant: the far terminal is not told.
shell_backspace_silent ==
    /\ Reading /\ line # << >>
    /\ line' = Front(line)
    /\ screen' = terminal_backspace(screen)
    /\ UNCHANGED <<com1, pc, stage, up, todo, home>>

\* A backspace does nothing on an empty line.
shell_backspace ==
    /\ Reading /\ line # << >>
    /\ line' = Front(line)
    /\ screen' = terminal_backspace(screen)
    /\ todo' = Com(<<BS>>)
    /\ UNCHANGED <<com1, pc, stage, up, home>>

\* A printable character; one that does not fit is dropped.
shell_char(c) ==
    /\ Reading /\ Len(line) < LINE - 1
    /\ line' = Append(line, c)
    /\ todo' = klog(<<c>>)
    /\ UNCHANGED <<screen, com1, pc, stage, up, home>>

\* What is left of klog() of a text that may be empty.
LogLine(text) == (IF text = << >> THEN << >> ELSE klog(text)) \o klog(<<"\n">>)

\* What a command prints.
Output(command) ==
    CASE command \in {"help", "ticks"} -> klog(Line)
      [] command = "about" -> klog(Line) \o klog(Line)
      [] command = "clear" -> << >>
      [] command = "echo" -> LogLine(SubSeq(line, ECHO + 1, Len(line)))
      [] command = "unknown" -> klog(Text) \o LogLine(line)

\* shell_exec(): an empty line is no command.
shell_exec(command) ==
    /\ pc = "exec" /\ todo = << >> /\ line # << >>
    /\ command = "echo" => Len(line) >= ECHO
    /\ todo' = Output(command)
    /\ screen' = IF command = "clear" THEN terminal_clear ELSE screen
    /\ pc' = "prompt"
    /\ UNCHANGED <<com1, stage, up, line, home>>

shell_exec_empty ==
    /\ pc = "exec" /\ todo = << >> /\ line = << >>
    /\ pc' = "prompt"
    /\ UNCHANGED <<screen, com1, stage, up, todo, line, home>>

Commands == {"help", "about", "ticks", "clear", "echo", "unknown"}

Init ==
    /\ screen = terminal_clear
    /\ SerialInit
    /\ pc = "call" /\ stage = 1 /\ up = {}
    /\ todo = << >> /\ line = << >> /\ home = 0

Keys == shell_newline \/ shell_backspace \/ \E c \in Letters : shell_char(c)
Works ==
    \/ print_vga \/ print_com \/ boot_call \/ boot_return \/ boot_fails
    \/ shell_prompt \/ shell_exec_empty \/ \E command \in Commands : shell_exec(command)

Next == Works \/ Keys \/ isr_handler \/ drain

Spec == Init /\ [][Next]_vars

\* The thread goes on unless it waits for a key, and the UART sends what it has.
FairSpec == Spec /\ WF_vars(Works) /\ WF_vars(drain)

-----------------------------------------------------------------------------
(* Properties                                                              *)

Chars == Letters \cup {Blank, "t", ">", "\n", BS}

TypeOK ==
    /\ screen.row \in 0 .. (VGA_HEIGHT - 1) /\ screen.column \in 0 .. (VGA_WIDTH - 1)
    /\ screen.cells \in [0 .. (CELLS - 1) -> Chars]
    /\ Len(line) < LINE
    /\ stage \in 1 .. (Len(Boot) + 1)
    /\ pc \in {"call", "check", "prompt", "read", "exec", "panic"}

\* While a line is read, the prompt stands on the screen before it and no
\* backspace has erased it, however the output wrapped around the last row; the
\* screen shows at least as many characters as the line has, and if as many,
\* these ones.
ScreenShowsLine ==
    Reading =>
        LET shown == ((Cursor(screen) - home) % CELLS) - Len(Prompt)
        IN  /\ shown >= Len(line)
            /\ screen.cells[home] = Prompt[1]
            /\ shown = Len(line) =>
                  \A i \in 1 .. Len(line) : screen.cells[(home + i) % CELLS] = line[i]

\* The far terminal shows, up to its cursor, the prompt and the line as the
\* shell has it, after any insertions and backspaces and any commands before.
SerialShowsLine ==
    Reading /\ uart = "works" => SubSeq(far.text, 1, far.cursor) = Prompt \o line

\* No stage of the boot uses what a later one initialises, and nothing is sent
\* to COM1 before serial_init().
BootIsOrdered ==
    /\ pc = "check" => Boot[stage].uses \subseteq up
    /\ \A i \in 1 .. Len(todo) : todo[i].to = "com" => "serial" \in up

\* The boot ends, and every command does: the kernel comes back to the prompt
\* or has panicked, with or without a far terminal.
BackToThePrompt == (pc # "read") ~> (Reading \/ pc = "panic")

\* "Apaga o ultimo caractere na tela": after a backspace the screen shows the
\* line.  It does not when the line has wrapped to the top left corner.
ScreenIsTheLine ==
    Reading => (Cursor(screen) - home) % CELLS = Len(Prompt) + Len(line)
=============================================================================
