----------------------------- MODULE InputBuffer -----------------------------
(***************************************************************************)
(* input_buffer.c: process_user_input turns what read returns on standard  *)
(* input into lines.  The buffer is an array of USERBUF_SIZE + 1 bytes     *)
(* that starts as zeros, and cur of them are taken to be in use; the       *)
(* strings in it end at a NUL.                                             *)
(*                                                                         *)
(* One call is a read, one step for each line found in the buffer, and the *)
(* return when no line is left.  Only standard input may change between    *)
(* these steps.                                                            *)
(***************************************************************************)
EXTENDS Naturals, Sequences, SequencesExt

CONSTANTS
    USERBUF_SIZE,   \* bytes the buffer can hold (8191 in input_buffer.h)
    UINT,           \* values of the unsigned int cur (2^32)
    Chars, NL, NUL, \* the bytes: characters of a line, newline, zero
    TERMINAL,       \* standard input is a terminal, not a pipe or a file
    MAX_LINE,       \* bytes of a line with its newline (4096 for a terminal)
    MAX_LINES       \* bound: lines the user types

Bytes == Chars \cup {NL, NUL}
Lines == SeqOf(Chars, MAX_LINE - 1)

ASSUME InputAssumption ==
    /\ USERBUF_SIZE \in Nat \ {0, 1}
    /\ UINT \in Nat /\ UINT > USERBUF_SIZE
    /\ NL \notin Chars /\ NUL \notin Chars /\ NL # NUL
    /\ TERMINAL \in BOOLEAN
    /\ MAX_LINE \in Nat \ {0}
    /\ MAX_LINES \in Nat

VARIABLES
    buf,        \* userbuf->buf
    cur,        \* userbuf->cur
    scanning,   \* in the while loop of process_user_input
    handled,    \* the lines handle_line was called with
    stdin,      \* bytes that can be read
    typed,      \* the lines typed so far
    running     \* FALSE after exit(-1)

vars == <<buf, cur, scanning, handled, stdin, typed, running>>

\* create_userbuf
Init ==
    /\ buf = [i \in 0..USERBUF_SIZE |-> NUL]
    /\ cur = 0
    /\ scanning = FALSE
    /\ handled = << >>
    /\ stdin = << >>
    /\ typed = << >>
    /\ running = TRUE

\* The user, or the program at the other end of the pipe, writes a line.
Type(line) ==
    /\ Len(typed) < MAX_LINES
    /\ typed' = Append(typed, line)
    /\ stdin' = stdin \o Append(line, NL)
    /\ UNCHANGED <<buf, cur, scanning, handled, running>>

------------------------------------------------------------------------------
(* process_user_input.  The select loop calls it when there is something   *)
(* to read.                                                                *)

Called == running /\ ~scanning /\ stdin # << >>

BufferFull == cur >= USERBUF_SIZE - 1

\* "line too long!"
exit ==
    /\ Called
    /\ BufferFull
    /\ running' = FALSE
    /\ UNCHANGED <<buf, cur, scanning, handled, stdin, typed>>

\* Mutant: the byte that ends the last string is read into.
Readable_OneMore ==
    {n \in 1..(USERBUF_SIZE - cur + 1) :
        /\ n <= Len(stdin)
        /\ TERMINAL => \A i \in 1..(n - 1) : stdin[i] # NL}

\* How many bytes read may return.  A terminal never returns more than one
\* line; an end-of-file character hands out the part typed so far.
Readable ==
    {n \in 1..(USERBUF_SIZE - cur) :
        /\ n <= Len(stdin)
        /\ TERMINAL => \A i \in 1..(n - 1) : stdin[i] # NL}

\* Mutant: the bytes are put at the beginning of the buffer.
ReadInto_Start(n) ==
    [i \in DOMAIN buf |-> IF i < n THEN stdin[i + 1] ELSE buf[i]]

\* The buffer with n bytes put behind those in use.
ReadInto(n) ==
    [i \in DOMAIN buf |-> IF cur <= i /\ i < cur + n THEN stdin[i - cur + 1] ELSE buf[i]]

read ==
    /\ Called
    /\ ~BufferFull
    /\ \E n \in Readable :
          /\ buf' = ReadInto(n)
          /\ cur' = cur + n
          /\ stdin' = SubSeq(stdin, n + 1, Len(stdin))
    /\ scanning' = TRUE
    /\ UNCHANGED <<handled, typed, running>>

\* strchr(buf, '\n'): the first newline, unless the string ends before it.
Newline ==
    {k \in DOMAIN buf : buf[k] = NL /\ \A j \in 0..(k - 1) : buf[j] \notin {NL, NUL}}

\* The string in front of position k.
LineBefore(k) == [i \in 1..k |-> buf[i - 1]]

\* The newline at k becomes a NUL, and USERBUF_SIZE - k bytes are moved to the
\* front; what is behind them stays.
Shifted(k) ==
    LET b == [buf EXCEPT ![k] = NUL]
    IN  [i \in DOMAIN buf |-> IF i < USERBUF_SIZE - k THEN b[i + k + 1] ELSE b[i]]

\* Mutant: the newline stays counted.
CurAfter_NewlineKept(k) == (cur + UINT - k) % UINT

CurAfter(k) == (cur + UINT - (k + 1)) % UINT

handle_line ==
    /\ scanning
    /\ \E k \in Newline :
          /\ handled' = Append(handled, LineBefore(k))
          /\ buf' = Shifted(k)
          /\ cur' = CurAfter(k)
    /\ UNCHANGED <<scanning, stdin, typed, running>>

return ==
    /\ scanning
    /\ Newline = {}
    /\ scanning' = FALSE
    /\ UNCHANGED <<buf, cur, handled, stdin, typed, running>>

process_user_input == exit \/ read \/ handle_line \/ return

Next == process_user_input \/ \E line \in Lines : Type(line)

\* select reports standard input as long as there is something to read.
Spec == Init /\ [][Next]_vars /\ WF_vars(process_user_input)

------------------------------------------------------------------------------

\* The last byte of the buffer ends every string in it: strchr never runs past
\* the end, whatever read and memmove leave behind.
TypeOK ==
    /\ buf \in [0..USERBUF_SIZE -> Bytes]
    /\ buf[USERBUF_SIZE] = NUL
    /\ cur \in 0..(UINT - 1)
    /\ scanning \in BOOLEAN /\ running \in BOOLEAN
    /\ handled \in Seq(Seq(Bytes))
    /\ stdin \in Seq(Bytes)
    /\ typed \in Seq(Seq(Chars))

\* handle_line is called with the lines as they were typed, in that order: no
\* line is lost, cut, joined with another or made of bytes an earlier line left
\* in the buffer.
LinesIntact == IsPrefix(handled, typed)

\* Every line typed is handled in the end, unless the peer exits: a line in the
\* buffer is found without another read.
LinesHandled ==
    \A n \in 1..MAX_LINES : Len(typed) = n ~> (Len(handled) >= n \/ ~running)

\* The peer exits with "line too long" only on a line that does not fit: space
\* that earlier lines used is given back.
ExitsOnLongLine ==
    ~running => /\ Len(handled) < Len(typed)
                /\ Len(typed[Len(handled) + 1]) >= USERBUF_SIZE - 1
==============================================================================
