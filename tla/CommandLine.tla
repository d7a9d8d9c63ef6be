----------------------------- MODULE CommandLine -----------------------------
(***************************************************************************)
(* The terminal and command mode: the receiver of the USART, which holds a *)
(* few bytes and loses the rest while nobody reads it, the line editor     *)
(* repl_read_line(), its echo, the comparison line_eq() and the dispatch.  *)
(* What the commands do to the card is in Cards and LogLoop; here a        *)
(* command is time during which nothing is read.                           *)
(***************************************************************************)
EXTENDS Integers, Sequences, SequencesExt

CONSTANTS
    Letters,     \* bytes that a terminal shows
    Commands,    \* command -> its name, a sequence of letters
    LINE_MAX,    \* LINE_BUF_MAX: 511 in the code
    RxDepth,     \* bytes that the receiver holds: 2 and one being shifted in
    Builds,      \* "main" (repl.c), "main_new" (repl_new.c)
    MaxKeys      \* bound: bytes sent by the terminal

ASSUME SizesAssumption == LINE_MAX \in Nat \ {0} /\ RxDepth \in Nat \ {0} /\ MaxKeys \in Nat
ASSUME NamesAssumption ==
    /\ {"NUL", "BS", "CR"} \cap Letters = {}
    /\ "reset" \in DOMAIN Commands /\ "!" \notin DOMAIN Commands
    /\ \A c \in DOMAIN Commands : Commands[c] \in Seq(Letters) /\ Commands[c] # <<>>
    /\ \A c, d \in DOMAIN Commands : Commands[c] = Commands[d] => c = d
ASSUME BuildsAssumption == Builds \subseteq {"main", "main_new"}

VARIABLES
    build,
    pc,         \* "enter", "flush", "read", "dispatch", "run" or "reset"
    fifo,       \* bytes in the receiver
    buf, len,   \* LINE_BUF and the length of the line so far
    screen,     \* the terminal's current line, after the prompt
    typed,      \* history: the bytes sent
    answers,    \* history: the command run, or "!", for each line not empty
    clean       \* history: no byte was lost, none was sent before the prompt

lineVars == <<buf, len, screen>>
vars == <<build, pc, fifo, lineVars, typed, answers, clean>>

Keys == Letters \cup {"NUL", "BS", "CR"}   \* DEL is as BS, LF as CR

\* LINE_BUF lies in the ring and starts with what was captured there.
Init ==
    /\ build \in Builds
    /\ pc = "enter" /\ fifo = <<>>
    /\ \E k \in Keys : buf = [i \in 0 .. LINE_MAX |-> k]
    /\ len = 0 /\ screen = <<>>
    /\ typed = <<>> /\ answers = <<>> /\ clean = TRUE

-----------------------------------------------------------------------------

\* A byte arrives.  With the receiver full it is lost.
Type(k) ==
    /\ Len(typed) < MaxKeys
    /\ typed' = Append(typed, k)
    /\ fifo' = IF Len(fifo) < RxDepth THEN Append(fifo, k) ELSE fifo
    /\ clean' = (clean /\ pc \notin {"enter", "flush"} /\ Len(fifo) < RxDepth)
    /\ UNCHANGED <<build, pc, lineVars, answers>>

\* repl_enter(): repl.c throws one byte away, if it is there by now.
Enter ==
    /\ pc = "enter"
    /\ fifo' = IF build = "main" /\ fifo # <<>> THEN Tail(fifo) ELSE fifo
    /\ pc' = "flush"
    /\ UNCHANGED <<build, lineVars, typed, answers, clean>>

\* log_flush() returns, or the command does; the prompt is sent.
Prompt ==
    /\ pc \in {"flush", "run"}
    /\ pc' = "read" /\ len' = 0 /\ screen' = <<>>
    /\ UNCHANGED <<build, fifo, buf, typed, answers, clean>>

\* repl_getc()
GetChar(c) ==
    /\ pc = "read" /\ fifo # <<>>
    /\ c = Head(fifo) /\ fifo' = Tail(fifo)
    /\ UNCHANGED <<build, typed, answers, clean>>

\* (Names that start with Mut are mistakes one could make in the definition
\* that follows; each shows that a property notices it.)
MutNoTerminator == GetChar("CR") /\ pc' = "dispatch" /\ UNCHANGED lineVars

EndOfLine ==
    /\ GetChar("CR")
    /\ buf' = [buf EXCEPT ![len] = "NUL"]
    /\ pc' = "dispatch"
    /\ UNCHANGED <<len, screen>>

\* The terminal: a byte that is no letter does not move the cursor, and
\* BS SP BS removes whatever is to the left of it.
Shown(c) == IF c \in Letters THEN Append(screen, c) ELSE screen
Erased   == IF screen = <<>> THEN <<>> ELSE Front(screen)

Backspace ==
    /\ GetChar("BS")
    /\ IF len > 0 THEN len' = len - 1 /\ screen' = Erased
                  ELSE UNCHANGED <<len, screen>>
    /\ UNCHANGED <<pc, buf>>

MutEchoAlways ==
    \E c \in Keys \ {"CR", "BS"} :
        /\ GetChar(c)
        /\ IF len < LINE_MAX THEN len' = len + 1 /\ buf' = [buf EXCEPT ![len] = c]
                             ELSE UNCHANGED <<len, buf>>
        /\ screen' = Shown(c)
        /\ UNCHANGED pc

MutStoreBeyond ==
    \E c \in Keys \ {"CR", "BS"} :
        /\ GetChar(c)
        /\ IF len <= LINE_MAX
             THEN len' = len + 1 /\ buf' = [buf EXCEPT ![len] = c] /\ screen' = Shown(c)
             ELSE UNCHANGED lineVars
        /\ UNCHANGED pc

\* Any other byte is stored and echoed, or dropped when the buffer is full.
Store ==
    \E c \in Keys \ {"CR", "BS"} :
        /\ GetChar(c)
        /\ IF len < LINE_MAX
             THEN len' = len + 1 /\ buf' = [buf EXCEPT ![len] = c] /\ screen' = Shown(c)
             ELSE UNCHANGED lineVars
        /\ UNCHANGED pc

MutPrefix(name) == \A i \in 1 .. Len(name) : i <= LINE_MAX /\ buf[i - 1] = name[i]

\* line_eq(): the name, and the terminator right behind it.
LineEq(name) ==
    /\ Len(name) <= LINE_MAX
    /\ \A i \in 1 .. Len(name) : buf[i - 1] = name[i]
    /\ buf[Len(name)] = "NUL"

EmptyLine ==
    /\ pc = "dispatch" /\ buf[0] = "NUL"
    /\ pc' = "read" /\ len' = 0 /\ screen' = <<>>
    /\ UNCHANGED <<build, fifo, buf, typed, answers, clean>>

\* repl_dispatch(): reset does not return.
Dispatch ==
    /\ pc = "dispatch" /\ buf[0] # "NUL"
    /\ \E c \in DOMAIN Commands \cup {"!"} :
          /\ IF c = "!" THEN \A d \in DOMAIN Commands : ~ LineEq(Commands[d])
                        ELSE LineEq(Commands[c])
          /\ answers' = Append(answers, c)
          /\ pc' = IF c = "reset" THEN "reset" ELSE "run"
    /\ UNCHANGED <<build, fifo, lineVars, typed, clean>>

Repl == Enter \/ Prompt \/ EndOfLine \/ Backspace \/ Store \/ EmptyLine \/ Dispatch
Next == Repl \/ \E k \in Keys : Type(k)

Spec == Init /\ [][Next]_vars

-----------------------------------------------------------------------------
(* Properties *)

\* The types of the variables; a write to LINE_BUF stays within the ring.
TypeOK ==
    /\ build \in Builds
    /\ pc \in {"enter", "flush", "read", "dispatch", "run", "reset"}
    /\ fifo \in Seq(Keys) /\ Len(fifo) <= RxDepth
    /\ buf \in [0 .. LINE_MAX -> Keys] /\ len \in 0 .. LINE_MAX
    /\ screen \in Seq(Letters)
    /\ typed \in Seq(Keys) /\ answers \in Seq(DOMAIN Commands \cup {"!"})
    /\ clean \in BOOLEAN

\* What a line says: a NUL byte ends it.
Text(line) ==
    LET ends == {i \in 1 .. Len(line) : line[i] = "NUL"}
    IN IF ends = {} THEN line ELSE SubSeq(line, 1, Min(ends) - 1)

\* The command of that name.
Meaning(text) ==
    IF \E c \in DOMAIN Commands : Commands[c] = text
      THEN CHOOSE c \in DOMAIN Commands : Commands[c] = text
      ELSE "!"

\* What a terminal user expects of a line editor after one more byte: of the
\* line, and of the answers given so far.
Heard(session, k) ==
    LET line == session.line
    IN CASE k = "CR" -> [line |-> <<>>,
                         answers |-> IF Text(line) = <<>> THEN session.answers
                                     ELSE Append(session.answers, Meaning(Text(line)))]
         [] k = "BS" /\ line # <<>> -> [session EXCEPT !.line = Front(line)]
         [] k \notin {"CR", "BS"} /\ Len(line) < LINE_MAX ->
              [session EXCEPT !.line = Append(line, k)]
         [] OTHER -> session

\* The same after the first n of the bytes sent.
Session(keys) ==
    LET session[n \in 0 .. Len(keys)] ==
          IF n = 0 THEN [line |-> <<>>, answers |-> <<>>]
                   ELSE Heard(session[n - 1], keys[n])
    IN session

Expected == Session(typed)[Len(typed)].answers

\* As long as no byte is lost ("true at human typing speeds", repl.c) and none
\* came before the prompt, each line is answered once, in order, by the command
\* that it says and no other: whatever was in the buffer before, however long
\* the line, however it was corrected, and whatever arrived during a command.
CommandsAsTyped ==
    clean => /\ IsPrefix(answers, Expected)
             /\ pc = "read" /\ fifo = <<>> => answers = Expected

\* The line so far, in the buffer.
Line == [i \in 1 .. len |-> buf[i - 1]]

\* "keeping the terminal in sync" (repl.c): what is on the screen is what will
\* be compared, unless a byte was typed that a terminal does not show.
ScreenShowsLine ==
    pc = "read" /\ (\A i \in 1 .. Len(typed) : typed[i] # "NUL") => screen = Line

=============================================================================
