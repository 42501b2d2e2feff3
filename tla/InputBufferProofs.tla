--------------------------- MODULE InputBufferProofs ---------------------------
(***************************************************************************)
(* The line buffer of input_buffer.c, proved for every size of the buffer  *)
(* and every length and number of lines: types and the byte that ends the  *)
(* strings for any standard input, and the handling of lines for a         *)
(* terminal.                                                               *)
(***************************************************************************)
EXTENDS InputBuffer, TLAPS, SequenceTheorems

(* Types. *)

\* What the assumption on the constants says about sizes.
LEMMA Sizes ==
  /\ USERBUF_SIZE \in Nat /\ USERBUF_SIZE >= 2 /\ UINT \in Nat /\ UINT > USERBUF_SIZE
  /\ NL \notin Chars /\ NUL \notin Chars /\ NL # NUL
  BY InputAssumption

\* A typed line is a sequence of characters.
LEMMA LineType ==
  ASSUME NEW line \in Lines
  PROVE  line \in Seq(Chars) /\ Append(line, NL) \in Seq(Chars \cup {NL})
<1>1. PICK m \in 0..(MAX_LINE - 1) : line \in [1..m -> Chars]
  BY DEF Lines, SeqOf
<1>2. m \in Nat
  BY <1>1
<1>3. line \in Seq(Chars)
  BY <1>1, <1>2, SeqDef
<1>4. line \in Seq(Chars \cup {NL})
  <2>1. line \in [1..m -> Chars \cup {NL}]
    BY <1>1
  <2> QED  BY <1>2, <2>1, SeqDef
<1> QED  BY <1>3, <1>4, AppendProperties

\* create_userbuf.
LEMMA InitType == Init => TypeOK
<1> SUFFICES ASSUME Init PROVE TypeOK
  OBVIOUS
<1>1. buf = [i \in 0..USERBUF_SIZE |-> NUL] /\ cur = 0 /\ handled = << >> /\ stdin = << >>
        /\ typed = << >>
  BY DEF Init
<1>2. buf \in [0..USERBUF_SIZE -> Bytes] /\ buf[USERBUF_SIZE] = NUL /\ cur \in 0..(UINT - 1)
  BY <1>1, Sizes DEF Bytes
<1>3. scanning \in BOOLEAN /\ running \in BOOLEAN
  BY DEF Init
<1> QED  BY <1>1, <1>2, <1>3 DEF TypeOK

\* What a line typed does to standard input.
LEMMA TypeType ==
  ASSUME TypeOK, NEW line \in Lines, Type(line)
  PROVE  TypeOK'
<1>1. UNCHANGED <<buf, cur, scanning, handled, running>>
  BY DEF Type
<1>2. typed' \in Seq(Seq(Chars))
  BY LineType, AppendProperties DEF Type, TypeOK
<1>3. stdin' \in Seq(Bytes)
  <2> DEFINE a == Append(line, NL)
  <2>1. a \in Seq(Chars \cup {NL})
    BY LineType
  <2> HIDE DEF a
  <2>2. a \in Seq(Bytes)
    BY <2>1 DEF Bytes
  <2>3. stdin' = stdin \o a
    BY DEF Type, a
  <2> QED  BY <2>2, <2>3, ConcatProperties DEF TypeOK
<1> QED  BY <1>1, <1>2, <1>3 DEF TypeOK

\* read fills the buffer up to the byte that ends the last string.
LEMMA ReadType ==
  ASSUME TypeOK, read
  PROVE  TypeOK'
<1>1. PICK n \in Readable : /\ buf' = ReadInto(n) /\ cur' = cur + n
                            /\ stdin' = SubSeq(stdin, n + 1, Len(stdin))
  BY DEF read
<1>2. n \in Nat /\ n >= 1 /\ n <= USERBUF_SIZE - cur /\ n <= Len(stdin) /\ cur \in Nat
        /\ cur < USERBUF_SIZE - 1
  BY Sizes DEF Readable, TypeOK, read, BufferFull
<1>3. stdin \in Seq(Bytes) /\ Len(stdin) \in Nat
        /\ \A i \in 1..Len(stdin) : stdin[i] \in Bytes
  BY LenProperties DEF TypeOK
<1>4. cur' \in 0..(UINT - 1)
  BY <1>1, <1>2, Sizes
<1>5. buf' \in [0..USERBUF_SIZE -> Bytes]
  <2>1. ASSUME NEW i \in 0..USERBUF_SIZE, cur <= i, i < cur + n
        PROVE  stdin[i - cur + 1] \in Bytes
    <3>1. i - cur + 1 \in 1..Len(stdin)
      BY <1>2, <1>3, <2>1
    <3> QED  BY <1>3, <3>1
  <2> QED  BY <1>1, <2>1 DEF ReadInto, TypeOK
<1>6. buf'[USERBUF_SIZE] = NUL
  <2>1. USERBUF_SIZE \in DOMAIN buf /\ ~(USERBUF_SIZE < cur + n) /\ buf[USERBUF_SIZE] = NUL
    BY <1>2, Sizes DEF TypeOK
  <2> QED  BY <1>1, <2>1 DEF ReadInto
<1>7. stdin' \in Seq(Bytes)
  BY <1>1, <1>2, <1>3, SubSeqProperties
<1>8. scanning' = TRUE /\ handled' = handled /\ typed' = typed /\ running' = running
  BY DEF read
<1> QED  BY <1>4, <1>5, <1>6, <1>7, <1>8 DEF TypeOK

\* The position of a newline that strchr finds.
LEMMA NewlineAt ==
  ASSUME TypeOK, NEW k \in Newline
  PROVE  /\ k \in Nat /\ k < USERBUF_SIZE /\ buf[k] = NL
         /\ \A j \in 0..(k - 1) : j \in 0..USERBUF_SIZE /\ buf[j] # NL /\ buf[j] # NUL
<1>1. k \in 0..USERBUF_SIZE /\ buf[k] = NL /\ \A j \in 0..(k - 1) : buf[j] \notin {NL, NUL}
  BY DEF Newline, TypeOK
<1>2. k # USERBUF_SIZE
  BY <1>1, Sizes DEF TypeOK
<1> QED  BY <1>1, <1>2, Sizes

\* The bytes of the buffer after a line was handled.
LEMMA ShiftedAt ==
  ASSUME TypeOK, NEW k \in Newline
  PROVE  /\ Shifted(k) \in [0..USERBUF_SIZE -> Bytes]
         /\ \A i \in 0..USERBUF_SIZE :
               \/ i = k /\ Shifted(k)[i] = NUL
               \/ i # k /\ Shifted(k)[i] = buf[i]
               \/ i + k + 1 \in 0..USERBUF_SIZE /\ Shifted(k)[i] = buf[i + k + 1]
         /\ Shifted(k)[USERBUF_SIZE] = NUL
<1>1. k \in Nat /\ k < USERBUF_SIZE /\ DOMAIN buf = 0..USERBUF_SIZE /\ USERBUF_SIZE \in Nat
        /\ buf[USERBUF_SIZE] = NUL
  BY NewlineAt, Sizes DEF TypeOK
<1> DEFINE b == [buf EXCEPT ![k] = NUL]
<1>2. /\ b \in [0..USERBUF_SIZE -> Bytes]
      /\ \A i \in 0..USERBUF_SIZE : b[i] = IF i = k THEN NUL ELSE buf[i]
  BY <1>1 DEF TypeOK, Bytes
<1>3. Shifted(k) = [i \in 0..USERBUF_SIZE |-> IF i < USERBUF_SIZE - k THEN b[i + k + 1] ELSE b[i]]
  BY <1>1 DEF Shifted
<1> HIDE DEF b
<1>4. \A i \in 0..USERBUF_SIZE : i < USERBUF_SIZE - k =>
         i + k + 1 \in 0..USERBUF_SIZE /\ i + k + 1 # k
  BY <1>1
<1>5. Shifted(k) \in [0..USERBUF_SIZE -> Bytes]
  BY <1>2, <1>3, <1>4
<1>6. ~(USERBUF_SIZE < USERBUF_SIZE - k) /\ USERBUF_SIZE \in 0..USERBUF_SIZE /\ USERBUF_SIZE # k
  BY <1>1
<1>7. Shifted(k)[USERBUF_SIZE] = NUL
  BY <1>1, <1>2, <1>3, <1>6
<1>8. ASSUME NEW i \in 0..USERBUF_SIZE
      PROVE  \/ i = k /\ Shifted(k)[i] = NUL
             \/ i # k /\ Shifted(k)[i] = buf[i]
             \/ i + k + 1 \in 0..USERBUF_SIZE /\ Shifted(k)[i] = buf[i + k + 1]
  <2>1. CASE i < USERBUF_SIZE - k
    BY <1>2, <1>3, <1>4, <2>1
  <2>2. CASE ~(i < USERBUF_SIZE - k)
    BY <1>2, <1>3, <2>2
  <2> QED  BY <2>1, <2>2
<1> QED  BY <1>5, <1>7, <1>8

\* The line in front of a newline.
LEMMA LineBeforeType ==
  ASSUME TypeOK, NEW k \in Newline
  PROVE  LineBefore(k) \in Seq(Bytes) /\ Len(LineBefore(k)) = k
           /\ \A i \in 1..k : LineBefore(k)[i] = buf[i - 1]
<1>1. k \in Nat /\ k < USERBUF_SIZE /\ USERBUF_SIZE \in Nat
  BY NewlineAt, Sizes
<1>2. \A i \in 1..k : buf[i - 1] \in Bytes
  BY <1>1 DEF TypeOK
<1>3. LineBefore(k) \in [1..k -> Bytes] /\ \A i \in 1..k : LineBefore(k)[i] = buf[i - 1]
  BY <1>2 DEF LineBefore
<1>4. LineBefore(k) \in Seq(Bytes)
  BY <1>1, <1>3, SeqDef
<1> QED  BY <1>1, <1>3, <1>4, LenProperties

\* A line handled leaves a buffer that still ends in a NUL.
LEMMA HandleType ==
  ASSUME TypeOK, handle_line
  PROVE  TypeOK'
<1>1. PICK k \in Newline : /\ handled' = Append(handled, LineBefore(k))
                           /\ buf' = Shifted(k) /\ cur' = CurAfter(k)
  BY DEF handle_line
<1>2. buf' \in [0..USERBUF_SIZE -> Bytes] /\ buf'[USERBUF_SIZE] = NUL
  BY <1>1, ShiftedAt
<1>3. cur' \in 0..(UINT - 1)
  <2> DEFINE n == cur + UINT - (k + 1)
  <2>1. n \in Nat /\ UINT \in Nat \ {0}
    BY NewlineAt, Sizes DEF TypeOK
  <2> HIDE DEF n
  <2>2. n % UINT \in 0..(UINT - 1)
    BY <2>1
  <2> QED  BY <1>1, <2>2 DEF CurAfter, n
<1>4. handled' \in Seq(Seq(Bytes))
  BY <1>1, LineBeforeType, AppendProperties DEF TypeOK
<1>5. UNCHANGED <<scanning, stdin, typed, running>>
  BY DEF handle_line
<1> QED  BY <1>2, <1>3, <1>4, <1>5 DEF TypeOK

\* Every step keeps the types.
LEMMA StepType == TypeOK /\ [Next]_vars => TypeOK'
<1> SUFFICES ASSUME TypeOK, [Next]_vars PROVE TypeOK'
  OBVIOUS
<1>1. CASE exit
  BY <1>1 DEF exit, TypeOK
<1>2. CASE read
  BY <1>2, ReadType
<1>3. CASE handle_line
  BY <1>3, HandleType
<1>4. CASE return
  BY <1>4 DEF return, TypeOK
<1>5. CASE \E line \in Lines : Type(line)
  BY <1>5, TypeType
<1>6. CASE UNCHANGED vars
  BY <1>6 DEF vars, TypeOK
<1> QED  BY <1>1, <1>2, <1>3, <1>4, <1>5, <1>6 DEF Next, process_user_input

\* The buffer is never written behind its end and every string in it ends, for
\* terminals, pipes and files.
THEOREM BufferTypeCorrect == Spec => []TypeOK
  BY InitType, StepType, PTL DEF Spec


------------------------------------------------------------------------------
(* The lines.  With a terminal a read ends at a newline, so a newline is   *)
(* always the last byte in use, and the lines not handled yet are spelled  *)
(* by the bytes in use followed by those that can be read.                 *)

\* The bytes behind position a of r, up to b, are the line and its newline.
Spelled(r, line, a, b) ==
    /\ b = a + Len(line) + 1
    /\ r[b] = NL
    /\ \A i \in 1..Len(line) : r[a + i] = line[i]

\* The len bytes of r spell the lines after the first h; off[n] is where line n
\* ends.
Layout(r, len, lines, h, off) ==
    /\ off \in [h..Len(lines) -> 0..len]
    /\ off[h] = 0
    /\ off[Len(lines)] = len
    /\ \A m, n \in h..Len(lines) : m <= n => off[m] <= off[n]
    /\ \A n \in (h + 1)..Len(lines) : Spelled(r, lines[n], off[n - 1], off[n])

\* The pending bytes: those in use, then those that can be read.
Pending == [i \in 1..(cur + Len(stdin)) |-> IF i <= cur THEN buf[i - 1] ELSE stdin[i - cur]]

PendingLines == \E off : Layout(Pending, cur + Len(stdin), typed, Len(handled), off)

\* Behind the bytes in use there is no newline that strchr could find, among
\* them only the last one is a newline, and none when the scan is over.
BufferClean ==
    /\ cur <= USERBUF_SIZE
    /\ \A i \in 0..USERBUF_SIZE : i >= cur => buf[i] # NL
    /\ \A i \in 0..USERBUF_SIZE : i + 1 < cur => buf[i] \in Chars
    /\ \A i \in 0..USERBUF_SIZE : i < cur => buf[i] \in Chars \cup {NL}
    /\ ~scanning => \A i \in 0..USERBUF_SIZE : i < cur => buf[i] \in Chars

LinesInOrder ==
    /\ Len(handled) <= Len(typed)
    /\ \A n \in 1..Len(handled) : handled[n] = typed[n]

StoppedFull == ~running => ~scanning /\ BufferFull /\ stdin # << >>

TerminalInv ==
    /\ TypeOK
    /\ stdin \in Seq(Chars \cup {NL})
    /\ BufferClean
    /\ LinesInOrder
    /\ StoppedFull
    /\ PendingLines

\* Sizes of the state.
LEMMA Lengths ==
  ASSUME TypeOK
  PROVE  /\ Len(handled) \in Nat /\ Len(typed) \in Nat /\ Len(stdin) \in Nat /\ cur \in Nat
         /\ DOMAIN typed = 1..Len(typed) /\ DOMAIN handled = 1..Len(handled)
         /\ DOMAIN buf = 0..USERBUF_SIZE
         /\ \A n \in 1..Len(typed) :
               typed[n] \in Seq(Chars) /\ Len(typed[n]) \in Nat
                 /\ \A i \in 1..Len(typed[n]) : typed[n][i] \in Chars
<1>1. typed \in Seq(Seq(Chars)) /\ handled \in Seq(Seq(Bytes)) /\ stdin \in Seq(Bytes)
        /\ cur \in Nat /\ DOMAIN buf = 0..USERBUF_SIZE
  BY Sizes DEF TypeOK
<1>2. Len(handled) \in Nat /\ Len(typed) \in Nat /\ Len(stdin) \in Nat
        /\ DOMAIN typed = 1..Len(typed) /\ DOMAIN handled = 1..Len(handled)
        /\ \A n \in 1..Len(typed) : typed[n] \in Seq(Chars)
  BY <1>1, LenProperties
<1>3. ASSUME NEW n \in 1..Len(typed)
      PROVE  Len(typed[n]) \in Nat /\ \A i \in 1..Len(typed[n]) : typed[n][i] \in Chars
  BY <1>2, LenProperties
<1> QED  BY <1>1, <1>2, <1>3

\* There is nothing typed at first.
LEMMA TerminalInit == Init => TerminalInv
<1> SUFFICES ASSUME Init PROVE TerminalInv
  OBVIOUS
<1>1. TypeOK
  BY InitType
<1>2. buf = [i \in 0..USERBUF_SIZE |-> NUL] /\ cur = 0 /\ handled = << >> /\ stdin = << >>
        /\ typed = << >> /\ running /\ Len(handled) = 0 /\ Len(typed) = 0 /\ Len(stdin) = 0
  BY DEF Init
<1>3. BufferClean
  BY <1>2, Sizes DEF BufferClean
<1>4. LinesInOrder /\ StoppedFull /\ stdin \in Seq(Chars \cup {NL})
  BY <1>2 DEF LinesInOrder, StoppedFull
<1>5. Layout(Pending, 0, typed, 0, [n \in 0..0 |-> 0])
  BY <1>2 DEF Layout
<1>6. PendingLines
  BY <1>2, <1>5 DEF PendingLines
<1> QED  BY <1>1, <1>3, <1>4, <1>6 DEF TerminalInv

\* A line more behind the bytes.
LEMMA AddLine ==
  ASSUME NEW lines \in Seq(Seq(Chars)), NEW line \in Seq(Chars), NEW h \in 0..Len(lines),
         NEW len \in Nat, NEW r, NEW off, Layout(r, len, lines, h, off), NEW r2,
         \A i \in 1..len : r2[i] = r[i],
         \A i \in 1..Len(line) : r2[len + i] = line[i],
         r2[len + Len(line) + 1] = NL
  PROVE  \E off2 : Layout(r2, len + Len(line) + 1, Append(lines, line), h, off2)
<1> DEFINE t == Len(lines)
           m == Len(line)
           more == Append(lines, line)
           off2 == [n \in h..(t + 1) |-> IF n = t + 1 THEN len + m + 1 ELSE off[n]]
<1>1. t \in Nat /\ m \in Nat /\ h \in Nat /\ h <= t
        /\ \A n \in 1..t : lines[n] \in Seq(Chars) /\ Len(lines[n]) \in Nat
  BY LenProperties
<1>2. Len(more) = t + 1 /\ more[t + 1] = line /\ \A n \in 1..t : more[n] = lines[n]
  BY <1>1, AppendProperties
<1> HIDE DEF t, m, more
<1>3. /\ off \in [h..t -> 0..len] /\ off[h] = 0 /\ off[t] = len
      /\ \A n \in (h + 1)..t : Spelled(r, lines[n], off[n - 1], off[n])
  BY DEF Layout, t
<1>4. /\ \A n \in h..t : off2[n] = off[n] /\ off2[n] \in 0..len
      /\ off2[t + 1] = len + m + 1
      /\ DOMAIN off2 = h..(t + 1)
  BY <1>1, <1>3
<1>5. off2 \in [h..(t + 1) -> 0..(len + m + 1)]
  BY <1>1, <1>3
<1> HIDE DEF off2
<1>6. ASSUME NEW n \in (h + 1)..t PROVE Spelled(r2, more[n], off2[n - 1], off2[n])
  <2> DEFINE a == off[n - 1]
             b == off[n]
  <2>1. n \in 1..t /\ n \in h..t /\ n - 1 \in h..t
    BY <1>1
  <2>2. a \in 0..len /\ b \in 0..len /\ off2[n - 1] = a /\ off2[n] = b /\ more[n] = lines[n]
          /\ Len(lines[n]) \in Nat
    BY <1>1, <1>2, <1>3, <1>4, <2>1
  <2>3. b = a + Len(lines[n]) + 1 /\ r[b] = NL /\ \A i \in 1..Len(lines[n]) : r[a + i] = lines[n][i]
    BY <1>3 DEF Spelled
  <2> HIDE DEF a, b
  <2>4. r2[b] = NL
    BY <2>2, <2>3, SMTT(30)
  <2>5. ASSUME NEW i \in 1..Len(lines[n]) PROVE r2[a + i] = lines[n][i]
    <3>1. a + i \in 1..len
      BY <2>2, <2>3
    <3> QED  BY <2>3, <3>1
  <2> QED  BY <2>2, <2>3, <2>4, <2>5 DEF Spelled
<1>7. Spelled(r2, more[t + 1], off2[(t + 1) - 1], off2[t + 1])
  <2>1. (t + 1) - 1 = t /\ t \in h..t
    BY <1>1
  <2>2. off2[t] = len
    BY <1>3, <1>4, <2>1
  <2> QED  BY <1>2, <1>4, <2>1, <2>2 DEF Spelled, m
<1>8. \A n \in (h + 1)..(t + 1) : n \in (h + 1)..t \/ n = t + 1
  BY <1>1
<1>9. off2[h] = 0
  BY <1>1, <1>3, <1>4
<1>11. ASSUME NEW x \in h..(t + 1), NEW y \in h..(t + 1), x <= y PROVE off2[x] <= off2[y]
  <2>1. CASE y = t + 1
    <3>1. off2[x] \in 0..(len + m + 1)
      BY <1>5
    <3> QED  BY <1>4, <2>1, <3>1
  <2>2. CASE y # t + 1
    <3>1. x \in h..t /\ y \in h..t
      BY <1>1, <1>11, <2>2
    <3>2. off[x] <= off[y]
      BY <1>11, <3>1 DEF Layout, t
    <3> QED  BY <1>4, <3>1, <3>2
  <2> QED  BY <2>1, <2>2
<1>10. Layout(r2, len + m + 1, more, h, off2)
  BY <1>2, <1>4, <1>5, <1>6, <1>7, <1>8, <1>9, <1>11 DEF Layout
<1> QED  BY <1>10 DEF m, more

\* The first line: where its newline is.
LEMMA FirstLine ==
  ASSUME NEW lines \in Seq(Seq(Chars)), NEW h \in 0..Len(lines),
         NEW len \in Nat \ {0}, NEW r, NEW off, Layout(r, len, lines, h, off)
  PROVE  /\ h + 1 \in 1..Len(lines)
         /\ Len(lines[h + 1]) \in Nat /\ Len(lines[h + 1]) + 1 <= len
         /\ off[h + 1] = Len(lines[h + 1]) + 1
         /\ r[Len(lines[h + 1]) + 1] = NL
         /\ \A i \in 1..Len(lines[h + 1]) : r[i] = lines[h + 1][i] /\ r[i] \in Chars
<1> DEFINE t == Len(lines)
           line == lines[h + 1]
           m == Len(line)
<1>1. t \in Nat /\ h \in Nat /\ h <= t /\ off \in [h..t -> 0..len] /\ off[h] = 0 /\ off[t] = len
        /\ \A n \in (h + 1)..t : Spelled(r, lines[n], off[n - 1], off[n])
  BY LenProperties DEF Layout
<1>2. h # t
  BY <1>1
<1>3. h + 1 \in 1..t /\ h + 1 \in (h + 1)..t /\ h + 1 \in h..t /\ (h + 1) - 1 = h
  BY <1>1, <1>2
<1>4. line \in Seq(Chars)
  BY <1>3, LenProperties
<1>5. m \in Nat /\ \A i \in 1..m : line[i] \in Chars
  BY <1>4, LenProperties
<1>6. Spelled(r, line, 0, off[h + 1])
  BY <1>1, <1>3
<1> HIDE DEF line
<1>7. off[h + 1] = m + 1 /\ r[m + 1] = NL /\ \A i \in 1..m : r[i] = line[i]
  <2>1. off[h + 1] = 0 + m + 1 /\ r[off[h + 1]] = NL /\ \A i \in 1..m : r[0 + i] = line[i]
    BY <1>6 DEF Spelled
  <2>2. 0 + m + 1 = m + 1 /\ \A i \in 1..m : 0 + i = i
    BY <1>5
  <2> QED  BY <2>1, <2>2
<1>8. off[h + 1] \in 0..len
  BY <1>1, <1>3
<1> QED  BY <1>3, <1>5, <1>7, <1>8 DEF line

\* Positions counted from k on.
LEMMA FromK ==
  ASSUME NEW k \in Nat, NEW len \in Nat, NEW x \in k..len
  PROVE  /\ x - k \in 0..(len - k) /\ k + (x - k) = x
         /\ x # k => x - k \in 1..(len - k)
         /\ \A y \in k..len : x <= y => x - k <= y - k
         /\ \A i \in Nat : (x - k) + i = (x + i) - k /\ x + i \in Nat
  OBVIOUS

\* The end of a line counted from k on.
LEMMA EndFromK ==
  ASSUME NEW k \in Nat, NEW len \in Nat, NEW a \in k..len, NEW b \in k..len, NEW m \in Nat,
         b = a + m + 1
  PROVE  b - k = (a - k) + m + 1 /\ b - k \in 1..(len - k) /\ k + (b - k) = b
  OBVIOUS

\* A byte inside a line.
LEMMA InsideLine ==
  ASSUME NEW k \in Nat, NEW len \in Nat, NEW a \in k..len, NEW b \in k..len, NEW m \in Nat,
         b = a + m + 1, NEW i \in 1..m
  PROVE  a + i \in k..len /\ a + i # k /\ i \in Nat
  OBVIOUS

\* r2 is what follows the first k of the len bytes of r.
Follows(r2, r, k, len) == \A i \in 1..(len - k) : r2[i] = r[k + i]

\* The bytes behind the first line spell the others.
LEMMA DropLine ==
  ASSUME NEW lines \in Seq(Seq(Chars)), NEW h \in 0..Len(lines),
         NEW len \in Nat \ {0}, NEW r, NEW off, Layout(r, len, lines, h, off),
         NEW k \in Nat, off[h + 1] = k, NEW r2, Follows(r2, r, k, len)
  PROVE  \E off2 : Layout(r2, len - k, lines, h + 1, off2)
<1> DEFINE t == Len(lines)
           off2 == [n \in (h + 1)..t |-> off[n] - k]
<1>1. t \in Nat /\ h \in Nat /\ h <= t /\ off \in [h..t -> 0..len] /\ off[t] = len
        /\ (\A n \in (h + 1)..t : Spelled(r, lines[n], off[n - 1], off[n]))
        /\ \A n \in 1..t : lines[n] \in Seq(Chars) /\ Len(lines[n]) \in Nat
  BY LenProperties DEF Layout
<1>2. h + 1 \in 1..t /\ k <= len
  <2>1. h + 1 \in 1..t
    BY FirstLine
  <2>2. h + 1 \in h..t
    BY <1>1, <2>1
  <2>3. off[h + 1] \in 0..len
    BY <1>1, <2>2
  <2> HIDE DEF t
  <2> QED  BY <2>1, <2>3
<1>3. \A m, n \in h..t : m <= n => off[m] <= off[n]
  BY DEF Layout
<1> HIDE DEF t
<1>4. ASSUME NEW n \in (h + 1)..t PROVE n \in h..t /\ off[n] \in k..len /\ off2[n] = off[n] - k
  <2>1. n \in h..t /\ h + 1 \in h..t /\ h + 1 <= n
    BY <1>1, <1>2
  <2>2. off[n] \in 0..len /\ k <= off[n]
    BY <1>1, <1>2, <1>3, <2>1
  <2> QED  BY <2>1, <2>2
<1>5. off2 \in [(h + 1)..t -> 0..(len - k)]
  <2>1. \A n \in (h + 1)..t : off[n] - k \in 0..(len - k)
    BY <1>4, FromK
  <2> QED  BY <2>1
<1> HIDE DEF off2
<1>6. off2[h + 1] = 0 /\ off2[t] = len - k
  <2>1. h + 1 \in (h + 1)..t /\ t \in (h + 1)..t
    BY <1>1, <1>2
  <2>2. off2[h + 1] = k - k /\ k - k = 0
    BY <1>2, <1>4, <2>1
  <2> QED  BY <1>1, <1>4, <2>1, <2>2
<1>7. ASSUME NEW m \in (h + 1)..t, NEW n \in (h + 1)..t, m <= n PROVE off2[m] <= off2[n]
  <2>1. m \in h..t /\ n \in h..t /\ off[m] \in k..len /\ off[n] \in k..len
          /\ off2[m] = off[m] - k /\ off2[n] = off[n] - k
    BY <1>4
  <2>2. off[m] <= off[n]
    BY <1>3, <1>7, <2>1
  <2> QED  BY <2>1, <2>2, FromK
<1>8. ASSUME NEW n \in ((h + 1) + 1)..t PROVE Spelled(r2, lines[n], off2[n - 1], off2[n])
  <2> DEFINE a == off[n - 1]
             b == off[n]
             m == Len(lines[n])
  <2>1. n \in (h + 1)..t /\ n - 1 \in (h + 1)..t /\ n \in 1..t
    BY <1>1
  <2>2. a \in k..len /\ b \in k..len /\ off2[n - 1] = a - k /\ off2[n] = b - k /\ m \in Nat
    BY <1>1, <1>4, <2>1
  <2>3. b = a + m + 1 /\ r[b] = NL /\ \A i \in 1..m : r[a + i] = lines[n][i]
    BY <1>1, <2>1 DEF Spelled
  <2> HIDE DEF a, b, m
  <2>4. b - k = (a - k) + m + 1 /\ b - k \in 1..(len - k) /\ k + (b - k) = b
    <3>1. a \in k..len /\ b \in k..len /\ m \in Nat /\ len \in Nat
      BY <2>2
    <3>2. b = a + m + 1
      BY <2>3
    <3> QED  BY <3>1, <3>2, EndFromK
  <2>5. r2[b - k] = NL
    BY <2>3, <2>4 DEF Follows
  <2>6. ASSUME NEW i \in 1..m PROVE r2[(a - k) + i] = lines[n][i]
    <3>1. (a - k) + i \in 1..(len - k) /\ k + ((a - k) + i) = a + i
      <4>1. a + i \in k..len /\ a + i # k /\ i \in Nat
        <5>1. a \in k..len /\ b \in k..len /\ m \in Nat /\ len \in Nat
          BY <2>2
        <5>2. b = a + m + 1
          BY <2>3
        <5> QED  BY <5>1, <5>2, InsideLine
      <4>2. (a - k) + i = (a + i) - k
        BY <2>2, <4>1, FromK
      <4> QED  BY <4>1, <4>2, FromK
    <3> QED  BY <2>3, <3>1 DEF Follows
  <2> QED  BY <2>2, <2>4, <2>5, <2>6 DEF Spelled, m
<1>9. Layout(r2, len - k, lines, h + 1, off2)
  BY <1>5, <1>6, <1>7, <1>8 DEF Layout, t
<1> QED  BY <1>9


\* A byte of the buffer or of standard input as a pending byte.
LEMMA PendingAt ==
  ASSUME TypeOK
  PROVE  /\ \A i \in 1..cur : Pending[i] = buf[i - 1]
         /\ \A i \in 1..Len(stdin) : Pending[cur + i] = stdin[i]
<1>1. cur \in Nat /\ Len(stdin) \in Nat
  BY Lengths
<1>2. ASSUME NEW i \in 1..cur PROVE Pending[i] = buf[i - 1]
  <2>1. i \in 1..(cur + Len(stdin)) /\ i <= cur
    BY <1>1
  <2> QED  BY <2>1 DEF Pending
<1>3. ASSUME NEW i \in 1..Len(stdin) PROVE Pending[cur + i] = stdin[i]
  <2>1. cur + i \in 1..(cur + Len(stdin)) /\ ~(cur + i <= cur) /\ (cur + i) - cur = i
    BY <1>1
  <2> QED  BY <2>1 DEF Pending
<1> QED  BY <1>2, <1>3

\* The pending bytes only depend on the buffer in use and on standard input.
LEMMA PendingNext ==
  ASSUME TypeOK'
  PROVE  /\ \A i \in 1..cur' : Pending'[i] = buf'[i - 1]
         /\ \A i \in 1..Len(stdin') : Pending'[cur' + i] = stdin'[i]
<1>1. cur' \in Nat /\ Len(stdin') \in Nat
  BY Sizes, LenProperties DEF TypeOK
<1>2. Pending' = [i \in 1..(cur' + Len(stdin')) |->
                    IF i <= cur' THEN buf'[i - 1] ELSE stdin'[i - cur']]
  BY DEF Pending
<1>3. ASSUME NEW i \in 1..cur' PROVE Pending'[i] = buf'[i - 1]
  <2>1. i \in 1..(cur' + Len(stdin')) /\ i <= cur'
    BY <1>1
  <2> QED  BY <1>2, <2>1
<1>4. ASSUME NEW i \in 1..Len(stdin') PROVE Pending'[cur' + i] = stdin'[i]
  <2>1. PICK c, n : c = cur' /\ n = Len(stdin')
    OBVIOUS
  <2>2. c \in Nat /\ n \in Nat /\ i \in 1..n
    BY <1>1, <2>1
  <2>3. c + i \in 1..(c + n) /\ ~(c + i <= c) /\ (c + i) - c = i
    BY <2>2
  <2> QED  BY <1>2, <2>1, <2>3
<1> QED  BY <1>3, <1>4

\* The elements of two sequences put together.
LEMMA ConcatParts ==
  ASSUME NEW S, NEW s \in Seq(S), NEW a \in Seq(S)
  PROVE  /\ s \o a \in Seq(S) /\ Len(s \o a) = Len(s) + Len(a)
         /\ \A i \in 1..Len(s) : (s \o a)[i] = s[i]
         /\ \A i \in 1..Len(a) : (s \o a)[Len(s) + i] = a[i]
<1>1. Len(s) \in Nat /\ Len(a) \in Nat
  BY LenProperties
<1>2. /\ s \o a \in Seq(S) /\ Len(s \o a) = Len(s) + Len(a)
      /\ \A i \in 1..(Len(s) + Len(a)) :
            (s \o a)[i] = IF i <= Len(s) THEN s[i] ELSE a[i - Len(s)]
  BY ConcatProperties
<1>3. \A i \in 1..Len(s) : (s \o a)[i] = s[i]
  BY <1>1, <1>2
<1>4. ASSUME NEW i \in 1..Len(a) PROVE (s \o a)[Len(s) + i] = a[i]
  <2>1. Len(s) + i \in 1..(Len(s) + Len(a)) /\ ~(Len(s) + i <= Len(s))
          /\ (Len(s) + i) - Len(s) = i
    BY <1>1
  <2> QED  BY <1>2, <2>1
<1> QED  BY <1>2, <1>3, <1>4

\* A line typed goes behind the pending bytes.
LEMMA TypeKeeps ==
  ASSUME TerminalInv, NEW line \in Lines, Type(line)
  PROVE  TerminalInv'
<1>1. TypeOK /\ stdin \in Seq(Chars \cup {NL}) /\ Len(handled) <= Len(typed) /\ TypeOK'
  BY TypeType DEF TerminalInv, LinesInOrder
<1>2. Len(handled) \in Nat /\ Len(typed) \in Nat /\ Len(stdin) \in Nat /\ cur \in Nat
  BY <1>1, Lengths
<1>3. PICK a : a = Append(line, NL)
  OBVIOUS
<1>4. line \in Seq(Chars) /\ Len(line) \in Nat /\ a \in Seq(Chars \cup {NL})
        /\ Len(a) = Len(line) + 1
        /\ (\A i \in 1..Len(line) : a[i] = line[i]) /\ a[Len(line) + 1] = NL
  BY <1>3, LineType, AppendProperties, LenProperties
<1>5. typed' = Append(typed, line) /\ stdin' = stdin \o a /\ handled' = handled /\ cur' = cur
        /\ buf' = buf /\ scanning' = scanning /\ running' = running
  BY <1>3 DEF Type
<1>6. Len(typed') = Len(typed) + 1 /\ \A n \in 1..Len(typed) : typed'[n] = typed[n]
  BY <1>1, <1>4, <1>5, AppendProperties DEF TypeOK
<1>7. Len(stdin') = Len(stdin) + Len(a) /\ (\A i \in 1..Len(stdin) : stdin'[i] = stdin[i])
        /\ (\A i \in 1..Len(a) : stdin'[Len(stdin) + i] = a[i])
        /\ stdin' \in Seq(Chars \cup {NL})
  <2>1. stdin \in Seq(Chars \cup {NL}) /\ a \in Seq(Chars \cup {NL}) /\ stdin' = stdin \o a
    BY <1>1, <1>4, <1>5
  <2>2. PICK S : S = Chars \cup {NL}
    OBVIOUS
  <2>3. stdin \in Seq(S) /\ a \in Seq(S)
    BY <2>1, <2>2
  <2>4. /\ stdin \o a \in Seq(S) /\ Len(stdin \o a) = Len(stdin) + Len(a)
        /\ \A i \in 1..Len(stdin) : (stdin \o a)[i] = stdin[i]
        /\ \A i \in 1..Len(a) : (stdin \o a)[Len(stdin) + i] = a[i]
    BY <2>3, ConcatParts
  <2> QED  BY <2>1, <2>2, <2>4
<1>8. PendingLines'
  <2>1. PICK off : Layout(Pending, cur + Len(stdin), typed, Len(handled), off)
    BY DEF TerminalInv, PendingLines
  <2>2. PICK r, r2, len : r = Pending /\ r2 = Pending' /\ len = cur + Len(stdin)
    OBVIOUS
  <2>3. len \in Nat /\ Len(handled) \in 0..Len(typed) /\ typed \in Seq(Seq(Chars))
    BY <1>1, <1>2, <2>2 DEF TypeOK
  <2>4. ASSUME NEW i \in 1..len PROVE r2[i] = r[i]
    <3>1. CASE i <= cur
      <4>1. i \in 1..cur /\ i \in 1..cur'
        BY <1>2, <1>5, <3>1
      <4> QED  BY <1>1, <1>5, <2>2, <4>1, PendingAt, PendingNext
    <3>2. CASE ~(i <= cur)
      <4>1. i - cur \in 1..Len(stdin) /\ i - cur \in 1..Len(stdin') /\ cur + (i - cur) = i
        BY <1>2, <1>4, <1>7, <2>2, <3>2
      <4>2. r[cur + (i - cur)] = stdin[i - cur] /\ r2[cur' + (i - cur)] = stdin'[i - cur]
        BY <1>1, <2>2, <4>1, PendingAt, PendingNext
      <4> QED  BY <1>5, <1>7, <4>1, <4>2
    <3> QED  BY <3>1, <3>2
  <2>5. ASSUME NEW i \in 1..Len(a) PROVE r2[len + i] = a[i]
    <3>1. Len(stdin) + i \in 1..Len(stdin') /\ cur + (Len(stdin) + i) = len + i
      BY <1>2, <1>4, <1>7, <2>2
    <3>2. r2[cur' + (Len(stdin) + i)] = stdin'[Len(stdin) + i]
      BY <1>1, <2>2, <3>1, PendingNext
    <3> QED  BY <1>5, <1>7, <3>1, <3>2
  <2>6. /\ \A i \in 1..Len(line) : r2[len + i] = line[i]
        /\ r2[len + Len(line) + 1] = NL
    <3>1. \A i \in 1..Len(line) : i \in 1..Len(a)
      BY <1>4
    <3>2. Len(line) + 1 \in 1..Len(a) /\ len + (Len(line) + 1) = len + Len(line) + 1
      BY <1>4, <2>3
    <3>3. r2[len + (Len(line) + 1)] = NL
      BY <1>4, <2>5, <3>2
    <3> QED  BY <1>4, <2>5, <3>1, <3>2, <3>3
  <2>7. \E off2 : Layout(r2, len + Len(line) + 1, Append(typed, line), Len(handled), off2)
    <3>1. line \in Seq(Chars)
      BY <1>4
    <3>2. Layout(r, len, typed, Len(handled), off)
      BY <2>1, <2>2
    <3>3. \A i \in 1..len : r2[i] = r[i]
      BY <2>4
    <3> QED  BY <2>3, <2>6, <3>1, <3>2, <3>3, AddLine, Zenon
  <2>8. cur' + Len(stdin') = len + Len(line) + 1
    BY <1>2, <1>4, <1>5, <1>7, <2>2
  <2> QED  BY <1>5, <2>2, <2>7, <2>8 DEF PendingLines
<1>9. BufferClean'
  BY <1>5 DEF TerminalInv, BufferClean
<1>10. LinesInOrder'
  <2>1. Len(handled') <= Len(typed') /\ \A n \in 1..Len(handled) : n \in 1..Len(typed)
    BY <1>1, <1>2, <1>5, <1>6
  <2> QED  BY <1>5, <1>6, <2>1 DEF TerminalInv, LinesInOrder
<1>11. StoppedFull'
  <2>1. stdin' # << >>
    <3>1. Len(stdin') # 0
      BY <1>2, <1>4, <1>7
    <3> QED  BY <3>1
  <2> QED  BY <1>5, <2>1 DEF TerminalInv, StoppedFull, BufferFull
<1> QED  BY <1>1, <1>7, <1>8, <1>9, <1>10, <1>11 DEF TerminalInv


\* What is left of a sequence without its first n elements.
LEMMA TailParts ==
  ASSUME NEW S, NEW s \in Seq(S), NEW n \in 1..Len(s)
  PROVE  /\ SubSeq(s, n + 1, Len(s)) \in Seq(S)
         /\ Len(SubSeq(s, n + 1, Len(s))) = Len(s) - n
         /\ \A i \in 1..(Len(s) - n) : SubSeq(s, n + 1, Len(s))[i] = s[n + i]
<1>1. Len(s) \in Nat /\ n \in Nat /\ n >= 1 /\ n <= Len(s)
        /\ \A i \in 1..Len(s) : s[i] \in S
  BY LenProperties
<1>2. \A i \in (n + 1)..Len(s) : s[i] \in S
  BY <1>1
<1> DEFINE len == Len(s) - n
           tail == SubSeq(s, n + 1, Len(s))
<1>3. tail = [i \in 1..((Len(s) - (n + 1)) + 1) |-> s[i + (n + 1) - 1]]
  BY <1>1
<1>4. (Len(s) - (n + 1)) + 1 = len /\ len \in Nat /\ \A i \in 1..len : i + (n + 1) - 1 = n + i
        /\ n + i \in 1..Len(s)
  BY <1>1
<1> HIDE DEF len, tail
<1>5. tail \in [1..len -> S] /\ \A i \in 1..len : tail[i] = s[n + i]
  BY <1>1, <1>3, <1>4
<1>6. tail \in Seq(S)
  BY <1>4, <1>5, SeqDef
<1>7. Len(tail) = len
  BY <1>4, <1>5, <1>6, LenProperties
<1> QED  BY <1>5, <1>6, <1>7 DEF len, tail

\* read moves bytes from standard input to the buffer: the pending bytes are the
\* same, and of those read only the last can be a newline.
LEMMA ReadKeeps ==
  ASSUME TERMINAL, TerminalInv, read
  PROVE  TerminalInv'
<1>1. TypeOK /\ TypeOK' /\ stdin \in Seq(Chars \cup {NL}) /\ BufferClean
  BY ReadType DEF TerminalInv
<1>2. PICK n \in Readable : /\ buf' = ReadInto(n) /\ cur' = cur + n
                            /\ stdin' = SubSeq(stdin, n + 1, Len(stdin))
  BY DEF read
<1>3. ~scanning /\ running /\ scanning' = TRUE /\ handled' = handled /\ typed' = typed
        /\ running' = running
  BY DEF read, Called
<1>4. n \in Nat /\ n >= 1 /\ n <= USERBUF_SIZE - cur /\ n <= Len(stdin) /\ cur \in Nat
        /\ cur < USERBUF_SIZE - 1 /\ Len(stdin) \in Nat /\ USERBUF_SIZE \in Nat
        /\ \A i \in 1..(n - 1) : stdin[i] # NL
  BY <1>1, Sizes, Lengths DEF Readable, TypeOK, read, BufferFull
<1>5. \A i \in 1..Len(stdin) : stdin[i] \in Chars \cup {NL}
  BY <1>1, LenProperties
<1>6. /\ stdin' \in Seq(Chars \cup {NL}) /\ Len(stdin') = Len(stdin) - n
      /\ \A i \in 1..(Len(stdin) - n) : stdin'[i] = stdin[n + i]
  <2>1. PICK S : S = Chars \cup {NL}
    OBVIOUS
  <2>2. stdin \in Seq(S) /\ n \in 1..Len(stdin)
    BY <1>1, <1>4, <2>1
  <2> DEFINE tail == SubSeq(stdin, n + 1, Len(stdin))
  <2>3. tail \in Seq(S) /\ Len(tail) = Len(stdin) - n
          /\ \A i \in 1..(Len(stdin) - n) : tail[i] = stdin[n + i]
    BY <2>2, TailParts
  <2> HIDE DEF tail
  <2> QED  BY <1>2, <2>1, <2>3 DEF tail
<1>7. ASSUME NEW i \in 0..USERBUF_SIZE
      PROVE  /\ i < cur \/ i >= cur + n => buf'[i] = buf[i]
             /\ cur <= i /\ i < cur + n => buf'[i] = stdin[i - cur + 1]
  <2>1. i \in DOMAIN buf
    BY <1>1 DEF TypeOK
  <2> QED  BY <1>2, <1>4, <2>1 DEF ReadInto
<1>8. BufferClean'
  <2>1. cur' <= USERBUF_SIZE /\ cur' = cur + n
    BY <1>2, <1>4
  <2>2. ASSUME NEW i \in 0..USERBUF_SIZE, i >= cur' PROVE buf'[i] # NL
    <3>1. i >= cur + n /\ i >= cur
      BY <1>4, <2>1, <2>2
    <3> QED  BY <1>1, <1>7, <3>1 DEF BufferClean
  <2>3. ASSUME NEW i \in 0..USERBUF_SIZE, i < cur' PROVE buf'[i] \in Chars \cup {NL}
    <3>1. CASE i < cur
      BY <1>1, <1>7, <3>1 DEF BufferClean
    <3>2. CASE ~(i < cur)
      <4>1. cur <= i /\ i < cur + n /\ i - cur + 1 \in 1..Len(stdin)
        BY <1>4, <2>1, <2>3, <3>2
      <4> QED  BY <1>5, <1>7, <4>1
    <3> QED  BY <3>1, <3>2
  <2>4. ASSUME NEW i \in 0..USERBUF_SIZE, i + 1 < cur' PROVE buf'[i] \in Chars
    <3>1. CASE i < cur
      BY <1>1, <1>3, <1>7, <3>1 DEF BufferClean
    <3>2. CASE ~(i < cur)
      <4>1. cur <= i /\ i < cur + n /\ i - cur + 1 \in 1..(n - 1) /\ i - cur + 1 \in 1..Len(stdin)
        BY <1>4, <2>1, <2>4, <3>2
      <4> QED  BY <1>4, <1>5, <1>7, <4>1
    <3> QED  BY <3>1, <3>2
  <2> QED  BY <1>3, <2>1, <2>2, <2>3, <2>4 DEF BufferClean
<1>9. cur' + Len(stdin') = cur + Len(stdin)
  <2>1. cur' + Len(stdin') = (cur + n) + (Len(stdin) - n)
    BY <1>2, <1>6
  <2> QED  BY <1>4, <2>1
<1>10. Pending' = Pending
  <2> DEFINE old(i) == IF i <= cur THEN buf[i - 1] ELSE stdin[i - cur]
  <2>1. PICK len, c : len = cur + Len(stdin) /\ c = cur + n
    OBVIOUS
  <2>2. Pending' = [i \in 1..len |-> IF i <= c THEN buf'[i - 1] ELSE stdin'[i - c]]
    BY <1>2, <1>9, <2>1 DEF Pending
  <2>3. ASSUME NEW i \in 1..len
        PROVE  (IF i <= c THEN buf'[i - 1] ELSE stdin'[i - c])
                 = (IF i <= cur THEN buf[i - 1] ELSE stdin[i - cur])
    <3>1. CASE i <= cur
      <4>1. i <= c /\ i - 1 \in 0..USERBUF_SIZE /\ i - 1 < cur
        BY <1>4, <2>1, <3>1
      <4> QED  BY <1>7, <3>1, <4>1
    <3>2. CASE ~(i <= cur) /\ i <= c
      <4>1. i - 1 \in 0..USERBUF_SIZE /\ cur <= i - 1 /\ i - 1 < cur + n /\ (i - 1) - cur + 1 = i - cur
        BY <1>4, <2>1, <3>2
      <4> QED  BY <1>7, <3>2, <4>1
    <3>3. CASE ~(i <= c)
      <4>1. ~(i <= cur) /\ i - c \in 1..(Len(stdin) - n) /\ n + (i - c) = i - cur
        BY <1>4, <2>1, <3>3
      <4> QED  BY <1>6, <3>3, <4>1
    <3> QED  BY <3>1, <3>2, <3>3
  <2>4. Pending = [i \in 1..len |-> IF i <= cur THEN buf[i - 1] ELSE stdin[i - cur]]
    BY <2>1 DEF Pending
  <2> QED  BY <2>2, <2>3, <2>4
<1>11. PendingLines'
  BY <1>3, <1>9, <1>10 DEF TerminalInv, PendingLines
<1>12. LinesInOrder' /\ StoppedFull'
  BY <1>3 DEF TerminalInv, LinesInOrder, StoppedFull
<1> QED  BY <1>1, <1>6, <1>8, <1>11, <1>12 DEF TerminalInv

\* No newline is found: the bytes in use are characters.
LEMMA ReturnKeeps ==
  ASSUME TerminalInv, return
  PROVE  TerminalInv'
<1>1. TypeOK /\ BufferClean /\ Newline = {} /\ cur \in Nat /\ USERBUF_SIZE \in Nat
        /\ DOMAIN buf = 0..USERBUF_SIZE
  BY Lengths, Sizes DEF TerminalInv, return
<1>2. ASSUME NEW i \in 0..USERBUF_SIZE, i < cur PROVE buf[i] \in Chars
  <2>1. CASE i + 1 < cur
    BY <1>1, <2>1 DEF BufferClean
  <2>2. CASE ~(i + 1 < cur)
    <3>1. \A j \in 0..(i - 1) : j \in 0..USERBUF_SIZE /\ j + 1 < cur
      BY <1>1, <1>2
    <3>2. \A j \in 0..(i - 1) : buf[j] \notin {NL, NUL}
      BY <1>1, <3>1, Sizes DEF BufferClean
    <3>3. buf[i] # NL
      BY <1>1, <3>2 DEF Newline
    <3>4. buf[i] \in Chars \cup {NL}
      BY <1>1, <1>2 DEF BufferClean
    <3> QED  BY <3>3, <3>4
  <2> QED  BY <2>1, <2>2
<1>3. UNCHANGED <<buf, cur, handled, stdin, typed, running>> /\ scanning' = FALSE
  BY DEF return
<1>4. TypeOK'
  BY <1>1, <1>3 DEF TypeOK
<1>5. BufferClean'
  BY <1>1, <1>2, <1>3 DEF BufferClean
<1>6. PendingLines' /\ LinesInOrder' /\ StoppedFull' /\ stdin' \in Seq(Chars \cup {NL})
  BY <1>3 DEF TerminalInv, PendingLines, Pending, LinesInOrder, StoppedFull, BufferFull
<1> QED  BY <1>4, <1>5, <1>6 DEF TerminalInv


\* The newline that strchr finds is the last byte in use and ends the first of
\* the lines that are not handled.
LEMMA FoundLine ==
  ASSUME TerminalInv, NEW k \in Newline
  PROVE  /\ cur = k + 1 /\ Len(handled) + 1 \in 1..Len(typed)
         /\ LineBefore(k) = typed[Len(handled) + 1]
         /\ \A off : Layout(Pending, cur + Len(stdin), typed, Len(handled), off) =>
               off[Len(handled) + 1] = cur
<1>1. TypeOK /\ BufferClean /\ k \in Nat /\ k < USERBUF_SIZE /\ buf[k] = NL
        /\ (\A j \in 0..(k - 1) : j \in 0..USERBUF_SIZE /\ buf[j] # NL)
        /\ USERBUF_SIZE \in Nat /\ NL \notin Chars
  BY NewlineAt, Sizes DEF TerminalInv
<1>2. cur \in Nat /\ Len(stdin) \in Nat /\ Len(handled) \in Nat /\ Len(typed) \in Nat
        /\ Len(handled) <= Len(typed) /\ typed \in Seq(Seq(Chars))
  BY <1>1, Lengths DEF TerminalInv, LinesInOrder, TypeOK
<1>3. cur = k + 1
  <2>1. k \in 0..USERBUF_SIZE
    BY <1>1
  <2>2. ~(k >= cur) /\ ~(k + 1 < cur)
    BY <1>1, <2>1 DEF BufferClean
  <2> QED  BY <1>1, <1>2, <2>2
<1>4. PICK r, h, len : r = Pending /\ h = Len(handled) /\ len = cur + Len(stdin)
  OBVIOUS
<1>5. len \in Nat \ {0} /\ h \in 0..Len(typed)
  BY <1>1, <1>2, <1>3, <1>4
<1>6. r[k + 1] = NL /\ \A j \in 1..k : r[j] # NL /\ r[j] = buf[j - 1]
  <2>1. k + 1 \in 1..cur /\ (k + 1) - 1 = k
    BY <1>1, <1>3
  <2>2. r[k + 1] = NL
    BY <1>1, <1>4, <2>1, PendingAt
  <2>3. ASSUME NEW j \in 1..k PROVE r[j] # NL /\ r[j] = buf[j - 1]
    <3>1. j \in 1..cur /\ j - 1 \in 0..(k - 1)
      BY <1>1, <1>3
    <3> QED  BY <1>1, <1>4, <3>1, PendingAt
  <2> QED  BY <2>2, <2>3
<1>7. ASSUME NEW off, Layout(r, len, typed, h, off)
      PROVE  h + 1 \in 1..Len(typed) /\ off[h + 1] = cur /\ LineBefore(k) = typed[h + 1]
  <2>1. PICK line : line = typed[h + 1]
    OBVIOUS
  <2>2. /\ h + 1 \in 1..Len(typed) /\ Len(line) \in Nat /\ off[h + 1] = Len(line) + 1
        /\ r[Len(line) + 1] = NL
        /\ \A i \in 1..Len(line) : r[i] = line[i] /\ r[i] \in Chars
    BY <1>2, <1>5, <1>7, <2>1, FirstLine
  <2>3. Len(line) = k
    <3>1. ~(Len(line) + 1 <= k)
      <4> SUFFICES ASSUME Len(line) + 1 <= k PROVE FALSE
        OBVIOUS
      <4>1. Len(line) + 1 \in 1..k
        BY <1>1, <2>2
      <4> QED  BY <1>6, <2>2, <4>1
    <3>2. ~(k + 1 <= Len(line))
      <4> SUFFICES ASSUME k + 1 <= Len(line) PROVE FALSE
        OBVIOUS
      <4>1. k + 1 \in 1..Len(line)
        BY <1>1, <2>2
      <4> QED  BY <1>1, <1>6, <2>2, <4>1
    <3> QED  BY <1>1, <2>2, <3>1, <3>2
  <2>4. line \in Seq(Chars)
    BY <1>2, <2>1, <2>2, LenProperties
  <2>5. line = LineBefore(k)
    <3>1. LineBefore(k) \in Seq(Bytes) /\ Len(LineBefore(k)) = k
            /\ \A i \in 1..k : LineBefore(k)[i] = buf[i - 1]
      BY <1>1, LineBeforeType
    <3>2. DOMAIN line = 1..k /\ DOMAIN LineBefore(k) = 1..k
      BY <2>3, <2>4, <3>1, LenProperties
    <3>3. \A i \in 1..k : line[i] = LineBefore(k)[i]
      BY <1>6, <2>2, <2>3, <3>1
    <3>4. line = [i \in 1..k |-> line[i]]
      BY <2>3, <2>4, <3>2, LenProperties
    <3>5. LineBefore(k) = [i \in 1..k |-> LineBefore(k)[i]]
      BY DEF LineBefore
    <3> QED  BY <3>3, <3>4, <3>5
  <2> QED  BY <1>3, <2>1, <2>2, <2>3, <2>5
<1>8. PICK off : Layout(r, len, typed, h, off)
  BY <1>4 DEF TerminalInv, PendingLines
<1> QED  BY <1>3, <1>4, <1>7, <1>8

\* handle_line is called with the next line, and nothing is in use after it.
LEMMA HandleKeeps ==
  ASSUME TerminalInv, handle_line
  PROVE  TerminalInv'
<1>1. PICK k \in Newline : /\ handled' = Append(handled, LineBefore(k))
                           /\ buf' = Shifted(k) /\ cur' = CurAfter(k)
  BY DEF handle_line
<1>2. scanning /\ scanning' = scanning /\ stdin' = stdin /\ typed' = typed /\ running' = running
  BY DEF handle_line
<1>3. TypeOK /\ BufferClean /\ TypeOK' /\ stdin \in Seq(Chars \cup {NL})
        /\ k \in Nat /\ k < USERBUF_SIZE /\ USERBUF_SIZE \in Nat
  BY HandleType, NewlineAt, Sizes DEF TerminalInv
<1>4. cur = k + 1 /\ Len(handled) + 1 \in 1..Len(typed)
        /\ LineBefore(k) = typed[Len(handled) + 1]
  BY FoundLine
<1>5. Len(handled) \in Nat /\ Len(typed) \in Nat /\ Len(stdin) \in Nat /\ cur \in Nat
        /\ typed \in Seq(Seq(Chars)) /\ handled \in Seq(Seq(Bytes))
  BY <1>3, Lengths DEF TypeOK
<1>6. cur' = 0
  <2>1. UINT \in Nat \ {0} /\ cur + UINT - (k + 1) = UINT
    BY <1>3, <1>4, Sizes
  <2>2. UINT % UINT = 0
    BY <2>1
  <2> QED  BY <1>1, <2>1, <2>2 DEF CurAfter
<1>7. Len(handled') = Len(handled) + 1 /\ handled'[Len(handled) + 1] = typed[Len(handled) + 1]
        /\ \A n \in 1..Len(handled) : handled'[n] = handled[n]
  <2>1. LineBefore(k) \in Seq(Bytes)
    BY <1>3, LineBeforeType
  <2> QED  BY <1>1, <1>4, <1>5, <2>1, AppendProperties
<1>8. BufferClean'
  <2>1. ASSUME NEW i \in 0..USERBUF_SIZE PROVE buf'[i] # NL
    <3>1. CASE i = k /\ Shifted(k)[i] = NUL
      BY <1>1, <3>1, Sizes
    <3>2. CASE i # k /\ Shifted(k)[i] = buf[i]
      <4>1. i + 1 < cur \/ i >= cur
        BY <1>3, <1>4, <3>2
      <4>2. buf[i] # NL
        BY <1>3, <4>1, Sizes DEF BufferClean
      <4> QED  BY <1>1, <3>2, <4>2
    <3>3. CASE i + k + 1 \in 0..USERBUF_SIZE /\ Shifted(k)[i] = buf[i + k + 1]
      <4>1. i + k + 1 >= cur
        BY <1>3, <1>4
      <4>2. buf[i + k + 1] # NL
        BY <1>3, <3>3, <4>1 DEF BufferClean
      <4> QED  BY <1>1, <3>3, <4>2
    <3> QED  BY <1>3, <3>1, <3>2, <3>3, ShiftedAt
  <2>2. \A i \in 0..USERBUF_SIZE : ~(i < cur') /\ ~(i + 1 < cur')
    BY <1>6
  <2>3. cur' <= USERBUF_SIZE
    BY <1>3, <1>6
  <2> QED  BY <2>1, <2>2, <2>3 DEF BufferClean
<1>9. PendingLines'
  <2>1. PICK off : Layout(Pending, cur + Len(stdin), typed, Len(handled), off)
    BY DEF TerminalInv, PendingLines
  <2>2. PICK r, r2, len, h, c : r = Pending /\ r2 = Pending' /\ len = cur + Len(stdin)
                                  /\ h = Len(handled) /\ c = cur
    OBVIOUS
  <2>3. off[h + 1] = c /\ Layout(r, len, typed, h, off)
    BY <2>1, <2>2, FoundLine
  <2>4. len \in Nat \ {0} /\ h \in 0..Len(typed) /\ len - c = Len(stdin) /\ c \in Nat
    BY <1>3, <1>4, <1>5, <2>2
  <2>5. ASSUME NEW i \in 1..(len - c) PROVE r2[i] = r[c + i]
    <3>1. i \in 1..Len(stdin) /\ i \in 1..Len(stdin')
      BY <1>2, <2>4
    <3>2. r[c + i] = stdin[i]
      BY <1>3, <2>2, <3>1, PendingAt
    <3>3. r2[cur' + i] = stdin'[i]
      BY <1>3, <2>2, <3>1, PendingNext
    <3>4. cur' + i = i
      BY <1>6
    <3> QED  BY <1>2, <3>2, <3>3, <3>4
  <2>6. Follows(r2, r, c, len)
    BY <2>5 DEF Follows
  <2>7. \E off2 : Layout(r2, len - c, typed, h + 1, off2)
    <3>1. typed \in Seq(Seq(Chars))
      BY <1>5
    <3>2. len \in Nat \ {0} /\ h \in 0..Len(typed) /\ c \in Nat
      BY <2>4
    <3>3. off[h + 1] = c
      BY <2>3
    <3>4. Layout(r, len, typed, h, off)
      BY <2>3
    <3> QED  BY <2>6, <3>1, <3>2, <3>3, <3>4, DropLine
  <2>8. cur' + Len(stdin') = len - c /\ Len(handled') = h + 1
    BY <1>2, <1>5, <1>6, <1>7, <2>2, <2>4
  <2> QED  BY <1>2, <2>2, <2>7, <2>8 DEF PendingLines
<1>10. LinesInOrder'
  <2>1. Len(handled') <= Len(typed)
    BY <1>4, <1>5, <1>7
  <2>2. ASSUME NEW n \in 1..Len(handled') PROVE handled'[n] = typed[n]
    <3>1. n \in 1..Len(handled) \/ n = Len(handled) + 1
      <4>1. PICK h : h = Len(handled)
        OBVIOUS
      <4>2. h \in Nat /\ n \in 1..(h + 1)
        BY <1>5, <1>7, <4>1
      <4>3. n \in 1..h \/ n = h + 1
        BY <4>2
      <4> QED  BY <4>1, <4>3
    <3> QED  BY <1>7, <3>1 DEF TerminalInv, LinesInOrder
  <2> QED  BY <1>2, <2>1, <2>2 DEF LinesInOrder
<1>11. StoppedFull'
  BY <1>2 DEF TerminalInv, StoppedFull
<1> QED  BY <1>2, <1>3, <1>8, <1>9, <1>10, <1>11 DEF TerminalInv

\* Every step keeps the invariant, when standard input is a terminal.
LEMMA TerminalStep == TERMINAL /\ TerminalInv /\ [Next]_vars => TerminalInv'
<1> SUFFICES ASSUME TERMINAL, TerminalInv, [Next]_vars PROVE TerminalInv'
  OBVIOUS
<1>1. CASE exit
  <2>1. UNCHANGED <<buf, cur, scanning, handled, stdin, typed>> /\ ~scanning /\ BufferFull
          /\ stdin # << >>
    BY <1>1 DEF exit, Called
  <2>2. running' = FALSE
    BY <1>1 DEF exit
  <2>3. TypeOK' /\ BufferClean' /\ LinesInOrder' /\ PendingLines' /\ stdin' \in Seq(Chars \cup {NL})
    BY <2>1, <2>2 DEF TerminalInv, TypeOK, BufferClean, LinesInOrder, PendingLines, Pending
  <2>4. StoppedFull'
    BY <2>1 DEF StoppedFull, BufferFull
  <2> QED  BY <2>3, <2>4 DEF TerminalInv
<1>2. CASE read
  BY <1>2, ReadKeeps
<1>3. CASE handle_line
  BY <1>3, HandleKeeps
<1>4. CASE return
  BY <1>4, ReturnKeeps
<1>5. CASE \E line \in Lines : Type(line)
  BY <1>5, TypeKeeps
<1>6. CASE UNCHANGED vars
  BY <1>6 DEF vars, TerminalInv, TypeOK, BufferClean, LinesInOrder, PendingLines, Pending,
              StoppedFull, BufferFull
<1> QED  BY <1>1, <1>2, <1>3, <1>4, <1>5, <1>6 DEF Next, process_user_input

\* The lines handled are those typed, in their order.
LEMMA IntactLines == TerminalInv => LinesIntact
<1> SUFFICES ASSUME TerminalInv PROVE LinesIntact
  OBVIOUS
<1>1. handled \in Seq(Seq(Bytes)) /\ typed \in Seq(Seq(Chars)) /\ Len(handled) \in Nat
        /\ Len(typed) \in Nat /\ Len(handled) <= Len(typed)
        /\ \A n \in 1..Len(handled) : handled[n] = typed[n]
  BY Lengths DEF TerminalInv, TypeOK, LinesInOrder
<1> QED  BY <1>1 DEF LinesIntact, IsPrefix

\* A full buffer without a newline holds the beginning of a line that does not
\* fit.
LEMMA StoppedOnLongLine == TerminalInv => ExitsOnLongLine
<1> SUFFICES ASSUME TerminalInv, ~running
             PROVE  /\ Len(handled) < Len(typed)
                    /\ Len(typed[Len(handled) + 1]) >= USERBUF_SIZE - 1
  BY DEF ExitsOnLongLine
<1>1. TypeOK /\ BufferClean /\ ~scanning /\ cur >= USERBUF_SIZE - 1 /\ stdin # << >>
        /\ USERBUF_SIZE \in Nat /\ USERBUF_SIZE >= 2 /\ NL \notin Chars
  BY Sizes DEF TerminalInv, StoppedFull, BufferFull
<1>2. cur \in Nat /\ Len(stdin) \in Nat /\ Len(handled) \in Nat /\ Len(typed) \in Nat
        /\ Len(handled) <= Len(typed) /\ typed \in Seq(Seq(Chars)) /\ cur <= USERBUF_SIZE
  BY <1>1, Lengths DEF TerminalInv, LinesInOrder, TypeOK, BufferClean
<1>3. PICK r, h, len : r = Pending /\ h = Len(handled) /\ len = cur + Len(stdin)
  OBVIOUS
<1>4. PICK off : Layout(r, len, typed, h, off)
  BY <1>3 DEF TerminalInv, PendingLines
<1>5. len \in Nat \ {0} /\ h \in 0..Len(typed)
  BY <1>1, <1>2, <1>3
<1>6. PICK m : m = Len(typed[h + 1])
  OBVIOUS
<1>7. h + 1 \in 1..Len(typed) /\ m \in Nat /\ r[m + 1] = NL
  BY <1>2, <1>4, <1>5, <1>6, FirstLine, SMTT(30)
<1>8. ~(m + 1 <= cur)
  <2> SUFFICES ASSUME m + 1 <= cur PROVE FALSE
    OBVIOUS
  <2>1. m + 1 \in 1..cur /\ (m + 1) - 1 = m /\ m \in 0..USERBUF_SIZE /\ m < cur
    <3>1. cur \in Nat /\ m \in Nat /\ USERBUF_SIZE \in Nat /\ cur <= USERBUF_SIZE
      BY <1>1, <1>2, <1>7
    <3> QED  BY <3>1
  <2>2. r[m + 1] = buf[m]
    BY <1>1, <1>3, <2>1, PendingAt
  <2>3. buf[m] \in Chars
    BY <1>1, <2>1 DEF BufferClean
  <2> QED  BY <1>1, <1>7, <2>2, <2>3
<1>9. m >= USERBUF_SIZE - 1
  BY <1>1, <1>2, <1>7, <1>8
<1>10. h < Len(typed)
  BY <1>2, <1>3, <1>7
<1> QED  BY <1>3, <1>6, <1>9, <1>10

\* handle_line is called with the lines as they were typed on a terminal, for
\* every size of the buffer and every way in which read cuts the lines.
THEOREM LinesStayIntact == TERMINAL /\ Spec => []LinesIntact
<1> SUFFICES ASSUME TERMINAL PROVE Spec => []LinesIntact
  OBVIOUS
<1>1. TerminalInv /\ [Next]_vars => TerminalInv'
  BY TerminalStep
<1> QED  BY <1>1, TerminalInit, IntactLines, PTL DEF Spec

\* The peer only exits on a line that does not fit into the buffer.
THEOREM ExitMeansLongLine == TERMINAL /\ Spec => []ExitsOnLongLine
<1> SUFFICES ASSUME TERMINAL PROVE Spec => []ExitsOnLongLine
  OBVIOUS
<1>1. TerminalInv /\ [Next]_vars => TerminalInv'
  BY TerminalStep
<1> QED  BY <1>1, TerminalInit, StoppedOnLongLine, PTL DEF Spec
==============================================================================
