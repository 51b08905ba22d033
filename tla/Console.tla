------------------------------- MODULE Console --------------------------------
(***************************************************************************)
(* The text screen of drivers/screen.c with its two users: the kernel      *)
(* thread, which prints for system calls and programs, and the keyboard    *)
(* handler of drivers/keyboard.c with the command line of kernel/sh.c.     *)
(*                                                                         *)
(* The position of the cursor is kept in two byte registers of the         *)
(* controller, reached through one index port and one data port.  The      *)
(* kernel thread accesses them with interrupts on, so each port access is  *)
(* a step; the handler runs with interrupts off and is one step.  Writing  *)
(* a character to the video memory, scrolling included, is one step of the *)
(* kernel thread.                                                          *)
(*                                                                         *)
(* Offsets count cells (the code's count bytes, two for each cell, the     *)
(* second of which is the colour).  The wording of messages is left out:   *)
(* each of their parts is one character.                                   *)
(***************************************************************************)
EXTENDS Integers, Sequences, SequencesExt

CONSTANTS MAX_COLS, MAX_ROWS,
          BYTE,          \* values of a byte
          Keys,          \* keys that are letters
          CLS, PAGE, END,  \* the command lines, sequences of characters
          Chars,         \* what programs write to the console
          Messages,      \* what the kernel passes to kprint
          MaxLine,       \* bound on the line typed, below the size of key_buffer
          MaxKeys        \* bound on the keys pressed

CELLS == MAX_COLS * MAX_ROWS

ASSUME ConsoleAssumption ==
  /\ MAX_COLS \in Nat \ {0} /\ MAX_ROWS \in Nat /\ MAX_ROWS > 1
  /\ BYTE \in Nat /\ CELLS < BYTE * BYTE
  /\ MaxLine \in Nat /\ MaxKeys \in Nat

\* A letter is a key with the state of capslock, other characters have a name.
NL == <<"new line">>
BS == <<"backspace">>
Blank == <<"blank">>
Mark == <<"E">>
Word == <<"word">>       \* a part of a message
Prompt == <<">">>

VARIABLES vid,         \* the video memory
          index,       \* the register the index port selects
          reg,         \* the cursor registers, 14 ("hi") and 15 ("lo")
          key_buffer,  \* the line typed so far
          capslock,
          pc,          \* where the kernel thread is
          text,        \* what it has still to print
          fixed,       \* print_char is given a row and a column (kprint)
          at,          \* its offset
          halted,      \* END has stopped the processor
          nkeys,       \* keys pressed
          torn,        \* the handler has run between two accesses of a pair
          shown        \* letters typed since something else was printed

thread == <<pc, text, fixed, at>>
keyboard == <<key_buffer, capslock, halted, nkeys>>
vars == <<vid, index, reg, keyboard, thread, torn, shown>>

Cursor == reg["hi"] * BYTE + reg["lo"]
Registers(off) == [hi |-> (off \div BYTE) % BYTE, lo |-> off % BYTE]

\* The screen is as clear_screen leaves it.
Init ==
  /\ vid = [k \in 0..CELLS - 1 |-> Blank]
  /\ index = "lo"
  /\ reg = Registers(0)
  /\ key_buffer = << >> /\ capslock = FALSE
  /\ pc = "idle" /\ text = << >> /\ fixed = FALSE /\ at = 0
  /\ halted = FALSE /\ nkeys = 0
  /\ torn = FALSE /\ shown = 0

-----------------------------------------------------------------------------
(***************************************************************************)
(* print_char.                                                             *)
(***************************************************************************)

get_offset_row(off) == off \div MAX_COLS

\* memory_copy of every row to the one above; the last one is cleared.
Scrolled(v) ==
  [k \in DOMAIN v |-> IF k + MAX_COLS < CELLS THEN v[k + MAX_COLS] ELSE Blank]

\* Where print_char leaves the offset, before it scrolls.
Advanced(c, off) ==
  CASE c = NL -> (get_offset_row(off) + 1) * MAX_COLS
    [] c = BS -> off
    [] OTHER  -> off + 1

\* Faulty: the test of the row is made for kputchar too.
BadOffGrid(c, off, known) == get_offset_row(off) >= MAX_ROWS

\* The row lies below the screen: print_char puts an E into the last cell and
\* returns without setting the cursor.  It does not look at the row when
\* kputchar leaves the place to the cursor, except for a new line.
OffGrid(c, off, known) == get_offset_row(off) >= MAX_ROWS /\ (known \/ c = NL)

\* The video memory after print_char; cells behind the screen are not shown.
Written(v, c, off, known) ==
  LET put  == IF c = NL \/ off >= CELLS THEN v
              ELSE [v EXCEPT ![off] = IF c = BS THEN Blank ELSE c]
      roll == IF Advanced(c, off) >= CELLS THEN Scrolled(put) ELSE put
  IN IF OffGrid(c, off, known) THEN [roll EXCEPT ![CELLS - 1] = Mark] ELSE roll

\* Faulty: the offset is not moved up with the text.
BadNewOffset(c, off, known) ==
  IF OffGrid(c, off, known) THEN off ELSE Advanced(c, off)

\* The offset print_char returns.
NewOffset(c, off, known) ==
  LET next == Advanced(c, off)
  IN IF OffGrid(c, off, known) THEN off
     ELSE IF next >= CELLS THEN next - MAX_COLS ELSE next

-----------------------------------------------------------------------------
(***************************************************************************)
(* The kernel thread.                                                      *)
(***************************************************************************)

\* screenewrite prints each character at the cursor.
kputchar(c) ==
  /\ ~halted /\ pc = "idle"
  /\ text' = <<c>> /\ fixed' = FALSE
  /\ pc' = "get1"
  /\ UNCHANGED <<vid, index, reg, keyboard, at, torn, shown>>

\* kprint reads the cursor once, for the whole message.
kprint(message) ==
  /\ ~halted /\ pc = "idle"
  /\ text' = message /\ fixed' = TRUE
  /\ pc' = "get1"
  /\ UNCHANGED <<vid, index, reg, keyboard, at, torn, shown>>

get_cursor_offset ==
  /\ ~halted
  /\ \/ pc = "get1" /\ pc' = "get2" /\ index' = "hi" /\ UNCHANGED at
     \/ pc = "get2" /\ pc' = "get3" /\ at' = reg[index] * BYTE /\ UNCHANGED index
     \/ pc = "get3" /\ pc' = "get4" /\ index' = "lo" /\ UNCHANGED at
     \/ pc = "get4" /\ pc' = "put" /\ at' = at + reg[index] /\ UNCHANGED index
  /\ UNCHANGED <<vid, reg, keyboard, text, fixed, torn, shown>>

\* The next character of the message, or the end of the print.
NextChar(off) ==
  /\ text' = Tail(text)
  /\ IF Len(text) = 1 THEN pc' = "idle" /\ at' = 0 /\ fixed' = FALSE
                      ELSE pc' = "put" /\ at' = off /\ UNCHANGED fixed

print_char ==
  /\ ~halted /\ pc = "put"
  /\ vid' = Written(vid, Head(text), at, fixed)
  /\ shown' = 0
  /\ LET off == NewOffset(Head(text), at, fixed)
     IN IF OffGrid(Head(text), at, fixed) THEN NextChar(off)
        ELSE pc' = "set1" /\ at' = off /\ UNCHANGED <<text, fixed>>
  /\ UNCHANGED <<index, reg, keyboard, torn>>

Step(label) == pc' = label /\ UNCHANGED <<text, fixed, at>>

set_cursor_offset ==
  /\ ~halted
  /\ \/ pc = "set1" /\ Step("set2") /\ index' = "hi" /\ UNCHANGED reg
     \/ pc = "set2" /\ Step("set3") /\ reg' = [reg EXCEPT ![index] = Registers(at).hi]
        /\ UNCHANGED index
     \/ pc = "set3" /\ Step("set4") /\ index' = "lo" /\ UNCHANGED reg
     \/ pc = "set4" /\ NextChar(at) /\ reg' = [reg EXCEPT ![index] = Registers(at).lo]
        /\ UNCHANGED index
  /\ shown' = 0
  /\ UNCHANGED <<vid, keyboard, torn>>

-----------------------------------------------------------------------------
(***************************************************************************)
(* The keyboard handler.  A screen is the video memory and the cursor.     *)
(***************************************************************************)

Screen == [vid |-> vid, off |-> Cursor]

\* print_char without interruption; the cursor follows the offset.
Printed(s, c, known) ==
  [vid |-> Written(s.vid, c, s.off, known), off |-> NewOffset(c, s.off, known)]

\* The same, character by character.
PrintedAll(s, string, known) ==
  LET screen[k \in 0..Len(string)] ==
        IF k = 0 THEN s ELSE Printed(screen[k - 1], string[k], known)
  IN screen[Len(string)]

\* kprint and the kputchars of kprintf, without interruption.
kprinted(s, message) == PrintedAll(s, message, TRUE)
kputs(s, string) == PrintedAll(s, string, FALSE)

\* Faulty: the cursor is not moved back.
BadBackspaced(s) == Printed(s, BS, TRUE)

\* kprint_backspace: at the first cell the column is -1, and print_char takes
\* the cursor.
kprint_backspace(s) ==
  IF s.off = 0 THEN Printed(s, BS, FALSE)
  ELSE [vid |-> Written(s.vid, BS, s.off - 1, TRUE),
        off |-> IF OffGrid(BS, s.off - 1, TRUE) THEN s.off ELSE s.off - 1]

clear_screen == [vid |-> [k \in DOMAIN vid |-> Blank], off |-> 0]

\* user_input: the command, then "You said:", the line and the prompt.
user_input(s, input) ==
  LET done == CASE input = CLS -> clear_screen
                [] input = PAGE -> kprinted(s, <<Word, NL>>)
                [] OTHER -> s
  IN IF input = END THEN kprinted(s, <<Word, NL>>)
     ELSE kprinted(done, <<Word>> \o input \o <<NL, Prompt>>)

\* The handler leaves this on the screen and in the registers; it may fall
\* between two accesses of the kernel thread that belong together.
Shows(s) ==
  /\ ~halted /\ nkeys < MaxKeys
  /\ nkeys' = nkeys + 1
  /\ vid' = s.vid
  /\ reg' = Registers(s.off)
  /\ index' = "lo"
  /\ torn' = (torn \/ pc \in {"get2", "get3", "get4", "set2", "set3", "set4"})
  /\ UNCHANGED thread

OnScreen == Cursor < CELLS

Letter(key) == <<key, capslock>>

keyLetter(key) ==
  /\ Len(key_buffer) < MaxLine
  /\ key_buffer' = Append(key_buffer, Letter(key))
  /\ Shows(kprinted(Screen, <<Letter(key)>>))
  /\ shown' = IF OnScreen THEN shown + 1 ELSE 0
  /\ UNCHANGED <<capslock, halted>>

\* backspace of an empty line clears the byte before key_buffer, which is not
\* a letter of any line.
keyBackspace ==
  /\ key_buffer' = IF key_buffer = << >> THEN << >> ELSE Front(key_buffer)
  /\ Shows(kprint_backspace(Screen))
  /\ shown' = IF OnScreen /\ shown > 0 THEN shown - 1 ELSE 0
  /\ UNCHANGED <<capslock, halted>>

keyEnter ==
  /\ Shows(user_input(kprinted(Screen, <<NL>>), key_buffer))
  /\ halted' = (key_buffer = END)
  /\ key_buffer' = IF key_buffer = END THEN key_buffer ELSE << >>
  /\ shown' = 0
  /\ UNCHANGED capslock

\* The key prints "kern:capslock:", its state and a new line.
keyCapsLock ==
  /\ capslock' = ~capslock
  /\ Shows(kputs(kprinted(Screen, <<Word>>), <<Word, NL>>))
  /\ shown' = 0
  /\ UNCHANGED <<key_buffer, halted>>

Next ==
  \/ \E c \in Chars : kputchar(c)
  \/ \E message \in Messages : kprint(message)
  \/ get_cursor_offset \/ print_char \/ set_cursor_offset
  \/ \E key \in Keys : keyLetter(key)
  \/ keyBackspace \/ keyEnter \/ keyCapsLock

Spec == Init /\ [][Next]_vars

-----------------------------------------------------------------------------
(***************************************************************************)
(* Properties.                                                             *)
(***************************************************************************)

\* The registers hold bytes and the offset of the kernel thread is one that
\* they can hold.
TypeOK ==
  /\ DOMAIN vid = 0..CELLS - 1
  /\ index \in {"hi", "lo"}
  /\ reg \in [{"hi", "lo"} -> 0..BYTE - 1]
  /\ at \in 0..BYTE * BYTE - 1
  /\ Len(key_buffer) <= MaxLine
  /\ pc \in {"idle", "get1", "get2", "get3", "get4", "put", "set1", "set2", "set3", "set4"}

\* The letters typed since anything else was printed stand in front of the
\* cursor as key_buffer has them, through wrapped lines, scrolling and
\* backspaces: what is shown is what user_input will get.
EchoMatches ==
  /\ shown <= Len(key_buffer)
  /\ \A k \in 1..shown :
       k <= Cursor /\ OnScreen => vid[Cursor - k] = key_buffer[Len(key_buffer) - k + 1]

\* print_char keeps the cursor on the screen, whatever is printed and typed:
\* it is lost only when the handler runs between two port accesses that
\* belong together (get_cursor_offset and set_cursor_offset).  The registers
\* hold bytes all the while.
OnlyTornLosesCursor ==
  /\ TypeOK
  /\ ~torn /\ pc \notin {"set3", "set4"} => OnScreen /\ at < CELLS

\* A lost cursor comes back: once no more keys are pressed, a program that
\* goes on printing characters brings it back to the screen, for good.
CursorRecovers ==
  (\A c \in Chars \ {NL, BS} : []<><<kputchar(c)>>_vars)
    => <>[](pc = "idle" => OnScreen)
===============================================================================
