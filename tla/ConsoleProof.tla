----------------------------- MODULE ConsoleProof -----------------------------
(***************************************************************************)
(* The screen and its cursor, for a screen of any size, any registers that *)
(* can hold its positions, and any keys, messages and command lines: only  *)
(* a handler between two port accesses that belong together loses the      *)
(* cursor, and the letters in front of the cursor are those of key_buffer. *)
(***************************************************************************)
EXTENDS Console, WellFoundedInduction, TLAPS

-----------------------------------------------------------------------------
(***************************************************************************)
(* The inductive invariant.                                                *)
(***************************************************************************)

Letters == Keys \X BOOLEAN

\* The high byte alone stays low enough for the other to be added.
TypeInv ==
  /\ TypeOK
  /\ key_buffer \in Seq(Letters) /\ capslock \in BOOLEAN /\ shown \in Nat
  /\ pc \in {"get3", "get4"} => at <= (BYTE - 1) * BYTE

\* Where the kernel thread is in a pair of accesses, the index port selects
\* the register that comes next, and what it has read or written of the
\* cursor agrees with its offset.
CursorInv ==
  ~torn =>
    /\ at < CELLS
    /\ pc \notin {"set3", "set4"} => OnScreen
    /\ pc \in {"get2", "set2"} => index = "hi"
    /\ pc \in {"get4", "set4"} => index = "lo"
    /\ pc \in {"get3", "get4"} => at = reg["hi"] * BYTE
    /\ pc \in {"set3", "set4"} => reg["hi"] = Registers(at).hi

IInv == TypeInv /\ CursorInv

-----------------------------------------------------------------------------
(***************************************************************************)
(* Facts about offsets.                                                    *)
(***************************************************************************)

LEMMA ConstFacts ==
  /\ MAX_COLS \in Nat /\ MAX_COLS >= 1 /\ MAX_ROWS \in Nat /\ MAX_ROWS >= 2
  /\ CELLS \in Nat /\ CELLS = MAX_COLS * MAX_ROWS /\ CELLS >= 2 /\ MAX_COLS < CELLS
  /\ BYTE \in Nat /\ BYTE >= 2 /\ BYTE * BYTE \in Nat /\ CELLS < BYTE * BYTE
  /\ (BYTE - 1) * BYTE \in Nat /\ (BYTE - 1) * BYTE + BYTE = BYTE * BYTE
<1>1. /\ MAX_COLS \in Nat /\ MAX_COLS >= 1 /\ MAX_ROWS \in Nat /\ MAX_ROWS >= 2
      /\ BYTE \in Nat /\ CELLS < BYTE * BYTE /\ CELLS = MAX_COLS * MAX_ROWS
  BY ConsoleAssumption DEF CELLS
<1>2. CELLS \in Nat /\ CELLS >= 2 /\ MAX_COLS < CELLS
  <2>1. MAX_COLS * MAX_ROWS \in Nat /\ MAX_COLS * MAX_ROWS >= MAX_COLS * 2
    BY <1>1
  <2> QED
    BY <1>1, <2>1
<1>3. BYTE * BYTE \in Nat /\ (BYTE - 1) * BYTE \in Nat /\ (BYTE - 1) * BYTE + BYTE = BYTE * BYTE /\ BYTE >= 2
  <2>1. BYTE # 0 /\ BYTE # 1
    BY <1>1, <1>2
  <2> QED
    BY <1>1, <2>1
<1> QED
  BY <1>1, <1>2, <1>3

\* A quotient and its remainder.
LEMMA DivFacts ==
  ASSUME NEW a \in Nat, NEW b \in Nat, b >= 1
  PROVE  /\ a \div b \in Nat /\ a % b \in 0..b - 1
         /\ a = (a \div b) * b + (a % b) /\ (a \div b) * b <= a /\ a < (a \div b) * b + b
         /\ \A c \in Nat : a < c * b => a \div b < c
<1>1. /\ a \div b \in Nat /\ a % b \in 0..b - 1
      /\ a = (a \div b) * b + (a % b)
  <2>1. a = b * (a \div b) + (a % b)
    OBVIOUS
  <2>2. a \div b \in Nat /\ a % b \in 0..b - 1
    OBVIOUS
  <2>3. \A x \in Nat : b * x = x * b
    OBVIOUS
  <2> QED
    BY <2>1, <2>2, <2>3
<1> DEFINE q == a \div b
           r == a % b
<1>2. q \in Nat /\ r \in 0..b - 1 /\ a = q * b + r
  BY <1>1
<1> HIDE DEF q, r
<1>3. q * b \in Nat /\ q * b <= a /\ a < q * b + b
  BY <1>2
<1>4. ASSUME NEW c \in Nat, a < c * b PROVE q < c
  <2> SUFFICES ASSUME q >= c PROVE FALSE
    BY <1>2
  <2>1. q * b >= c * b
    BY <1>2
  <2> QED
    BY <1>3, <1>4, <2>1
<1> QED
  BY <1>1, <1>3, <1>4 DEF q, r

\* print_char moves the offset by at most one row, and keeps it on the screen
\* when it is there.
LEMMA NewOffsetFacts ==
  ASSUME NEW c, NEW off \in Nat, NEW known
  PROVE  /\ NewOffset(c, off, known) \in Nat
         /\ NewOffset(c, off, known) < CELLS \/ NewOffset(c, off, known) <= off
         /\ off < CELLS => NewOffset(c, off, known) < CELLS /\ ~OffGrid(c, off, known)
<1> DEFINE row == get_offset_row(off)
           next == Advanced(c, off)
<1>1. /\ row \in Nat /\ row * MAX_COLS \in Nat /\ row * MAX_COLS <= off /\ off < row * MAX_COLS + MAX_COLS
      /\ off < CELLS => row < MAX_ROWS
  <2>1. MAX_ROWS * MAX_COLS = CELLS
    BY ConstFacts
  <2> QED
    BY <2>1, DivFacts, ConstFacts DEF get_offset_row
<1>2. (row + 1) * MAX_COLS = row * MAX_COLS + MAX_COLS
  BY <1>1, ConstFacts
<1>3. next \in {row * MAX_COLS + MAX_COLS, off, off + 1}
  BY <1>2 DEF Advanced
<1>4. off < CELLS => ~OffGrid(c, off, known)
  BY <1>1, ConstFacts DEF OffGrid
<1>5. next \in Nat /\ next - MAX_COLS <= off /\ (off < CELLS => next < CELLS + MAX_COLS)
  <2>1. off < CELLS => row * MAX_COLS + MAX_COLS <= CELLS
    <3> SUFFICES ASSUME row < MAX_ROWS PROVE (row + 1) * MAX_COLS <= MAX_ROWS * MAX_COLS
      BY <1>1, <1>2, ConstFacts
    <3>1. row + 1 <= MAX_ROWS
      BY <1>1, ConstFacts
    <3> QED
      BY <1>1, <3>1, ConstFacts
  <2> DEFINE m == row * MAX_COLS
  <2>2. m \in Nat /\ m <= off
    BY <1>1
  <2>3. next \in {m + MAX_COLS, off, off + 1}
    BY <1>3
  <2> HIDE DEF next, m
  <2> QED
    BY <2>1, <2>2, <2>3, ConstFacts DEF m
<1>6. NewOffset(c, off, known) = IF OffGrid(c, off, known) THEN off
                                 ELSE IF next >= CELLS THEN next - MAX_COLS ELSE next
  BY DEF NewOffset
<1> HIDE DEF next, row
<1> QED
  BY <1>4, <1>5, <1>6, ConstFacts

\* What the registers hold is the offset.
LEMMA RegistersFacts ==
  ASSUME NEW off \in Nat
  PROVE  /\ Registers(off) \in [{"hi", "lo"} -> 0..BYTE - 1]
         /\ off < BYTE * BYTE => Registers(off)["hi"] * BYTE + Registers(off)["lo"] = off
<1>1. /\ off \div BYTE \in Nat /\ off % BYTE \in 0..BYTE - 1
      /\ off = (off \div BYTE) * BYTE + (off % BYTE)
      /\ \A c \in Nat : off < c * BYTE => off \div BYTE < c
  <2>1. BYTE \in Nat /\ BYTE >= 1
    BY ConstFacts
  <2> QED
    BY <2>1, DivFacts, Zenon
<1>2. off < BYTE * BYTE => off \div BYTE < BYTE
  BY <1>1, ConstFacts, Zenon
<1> DEFINE q == off \div BYTE
<1>3. q % BYTE \in 0..BYTE - 1 /\ (q < BYTE => q % BYTE = q)
  <2>1. /\ q \div BYTE \in Nat /\ q % BYTE \in 0..BYTE - 1 /\ q = (q \div BYTE) * BYTE + (q % BYTE)
        /\ \A c \in Nat : q < c * BYTE => q \div BYTE < c
    <3>1. BYTE \in Nat /\ BYTE >= 1 /\ q \in Nat
      BY <1>1, ConstFacts
    <3> QED
      BY <3>1, DivFacts, Zenon
  <2>2. ASSUME q < BYTE PROVE q % BYTE = q
    <3>1. q \div BYTE = 0
      <4>1. 1 \in Nat /\ q < 1 * BYTE
        BY <1>1, <2>2, ConstFacts
      <4>2. q \div BYTE < 1
        BY <2>1, <4>1
      <4> QED
        BY <2>1, <4>2
    <3>2. q = 0 * BYTE + (q % BYTE)
      BY <2>1, <3>1
    <3> QED
      BY <2>1, <3>2, ConstFacts
  <2> QED
    BY <2>1, <2>2
<1>4. Registers(off) = [hi |-> q % BYTE, lo |-> off % BYTE]
  BY DEF Registers
<1>5. Registers(off) \in [{"hi", "lo"} -> 0..BYTE - 1]
  <2>1. DOMAIN [hi |-> q % BYTE, lo |-> off % BYTE] = {"hi", "lo"}
    OBVIOUS
  <2> QED
    BY <1>1, <1>3, <1>4, <2>1
<1> HIDE DEF q
<1>6. Registers(off)["hi"] = q % BYTE /\ Registers(off)["lo"] = off % BYTE
  BY <1>4
<1> QED
  BY <1>1, <1>2, <1>3, <1>5, <1>6 DEF q

LEMMA CursorFacts ==
  ASSUME NEW r \in [{"hi", "lo"} -> 0..BYTE - 1]
  PROVE  /\ r["hi"] \in Nat /\ r["lo"] \in Nat /\ r["hi"] * BYTE \in Nat
         /\ r["hi"] * BYTE <= (BYTE - 1) * BYTE /\ r["lo"] * BYTE \in Nat
         /\ r["lo"] * BYTE <= (BYTE - 1) * BYTE
         /\ r["hi"] * BYTE + r["lo"] \in 0..BYTE * BYTE - 1
<1>1. r["hi"] \in 0..BYTE - 1 /\ r["lo"] \in 0..BYTE - 1
  OBVIOUS
<1>2. \A x \in 0..BYTE - 1 : x \in Nat /\ x * BYTE \in Nat /\ x * BYTE <= (BYTE - 1) * BYTE
  BY ConstFacts
<1>3. \A x, y \in 0..BYTE - 1 : x * BYTE + y \in 0..BYTE * BYTE - 1
  <2> SUFFICES ASSUME NEW x \in 0..BYTE - 1, NEW y \in 0..BYTE - 1 PROVE x * BYTE + y \in 0..BYTE * BYTE - 1
    OBVIOUS
  <2> DEFINE a == x * BYTE  b == (BYTE - 1) * BYTE  d == BYTE * BYTE
  <2>1. a \in Nat /\ a <= b /\ b + BYTE = d /\ b \in Nat
    BY <1>2, ConstFacts
  <2> HIDE DEF a, b, d
  <2>2. a + y \in 0..d - 1
    BY <2>1, ConstFacts
  <2> QED
    BY <2>2 DEF a, d
<1> QED
  BY <1>1, <1>2, <1>3

-----------------------------------------------------------------------------
(***************************************************************************)
(* Printing without interruption.                                          *)
(***************************************************************************)

IsScreen(s) == DOMAIN s.vid = 0..CELLS - 1 /\ s.off \in Nat

LEMMA WrittenDomain ==
  ASSUME NEW v, NEW c, NEW off, NEW known
  PROVE  DOMAIN Written(v, c, off, known) = DOMAIN v
<1> DEFINE put  == IF c = NL \/ off >= CELLS THEN v
                   ELSE [v EXCEPT ![off] = IF c = BS THEN Blank ELSE c]
           roll == IF Advanced(c, off) >= CELLS THEN Scrolled(put) ELSE put
<1>1. DOMAIN put = DOMAIN v
  OBVIOUS
<1> HIDE DEF put
<1>2. DOMAIN Scrolled(put) = DOMAIN put
  BY DEF Scrolled
<1>3. DOMAIN roll = DOMAIN v
  BY <1>1, <1>2
<1>4. Written(v, c, off, known) = IF OffGrid(c, off, known) THEN [roll EXCEPT ![CELLS - 1] = Mark] ELSE roll
  BY DEF Written, put
<1> HIDE DEF roll
<1> QED
  BY <1>3, <1>4

LEMMA PrintedFacts ==
  ASSUME NEW s, IsScreen(s), NEW c, NEW known
  PROVE  /\ IsScreen(Printed(s, c, known))
         /\ s.off < CELLS => Printed(s, c, known).off < CELLS
<1>1. /\ Printed(s, c, known).vid = Written(s.vid, c, s.off, known)
      /\ Printed(s, c, known).off = NewOffset(c, s.off, known)
  BY DEF Printed
<1> QED
  BY <1>1, WrittenDomain, NewOffsetFacts DEF IsScreen

\* A set of numbers has a least member.
LEMMA LeastMember ==
  ASSUME NEW S, S \subseteq Nat, S # {}
  PROVE  \E m \in S : \A y \in S : m <= y
<1>1. PICK m \in S : \A y \in S : ~(<<y, m>> \in OpToRel(<, Nat))
  BY NatLessThanWellFounded, WFMin
<1>2. ASSUME NEW y \in S PROVE m <= y
  <2>1. m \in Nat /\ y \in Nat
    OBVIOUS
  <2>2. <<y, m>> \in Nat \X Nat /\ <<y, m>>[1] = y /\ <<y, m>>[2] = m
    BY <2>1
  <2>3. ~(y < m)
    BY <1>1, <2>2, Zenon DEF OpToRel
  <2> QED
    BY <2>1, <2>3
<1> QED
  BY <1>2

\* f holds the screens as the string is printed.
PrintSteps(f, s, string, known) ==
  /\ f[0] = s /\ f[Len(string)] = PrintedAll(s, string, known)
  /\ \A k \in 1..Len(string) : f[k] = Printed(f[k - 1], string[k], known)

\* The recursion of PrintedAll has a solution: the shortest beginning of the
\* string without one would be one character longer than one that has it.
LEMMA PrintedAllSteps ==
  ASSUME NEW s, NEW string, Len(string) \in Nat, NEW known
  PROVE  \E f : PrintSteps(f, s, string, known)
<1> DEFINE n == Len(string)
           F(m, f) == [k \in 0..m |-> IF k = 0 THEN s ELSE Printed(f[k - 1], string[k], known)]
           S == {m \in 0..n : ~ \E f : f = F(m, f)}
<1>1. S = {}
  <2> SUFFICES ASSUME S # {} PROVE FALSE
    OBVIOUS
  <2>0. S \subseteq Nat
    OBVIOUS
  <2>1. PICK m \in S : \A y \in S : m <= y
    BY <2>0, LeastMember, Zenon
  <2>2. m \in 0..n /\ ~ \E f : f = F(m, f)
    OBVIOUS
  <2>3. m # 0
    <3> SUFFICES ASSUME m = 0 PROVE FALSE
      OBVIOUS
    <3> DEFINE g == [k \in 0..0 |-> s]
    <3>1. g = F(0, g)
      OBVIOUS
    <3> QED
      BY <2>2, <3>1
  <2>4. m - 1 \in 0..n /\ m - 1 < m /\ m - 1 \in 0..m /\ m \in 0..m
    BY <2>2, <2>3
  <2>5. PICK f : f = F(m - 1, f)
    BY <2>1, <2>2, <2>4
  <2> DEFINE g == [k \in 0..m |-> IF k = m THEN Printed(f[m - 1], string[m], known) ELSE f[k]]
  <2>6. g[m - 1] = f[m - 1]
    BY <2>2, <2>4
  <2>7. ASSUME NEW k \in 0..m PROVE g[k] = IF k = 0 THEN s ELSE Printed(g[k - 1], string[k], known)
    <3>1. CASE k = m
      BY <2>3, <2>6, <3>1
    <3>2. CASE k # m
      <4>1. k \in 0..m - 1
        BY <2>2, <3>2
      <4>2. f[k] = IF k = 0 THEN s ELSE Printed(f[k - 1], string[k], known)
        BY <2>5, <4>1
      <4>3. k # 0 => k - 1 \in 0..m /\ k - 1 # m
        BY <2>2, <4>1
      <4> QED
        BY <3>2, <4>2, <4>3
    <3> QED
      BY <3>1, <3>2
  <2>8. g = F(m, g)
    <3>1. g = [k \in 0..m |-> g[k]]
      OBVIOUS
    <3> HIDE DEF g
    <3> QED
      BY <2>7, <3>1
  <2> QED
    BY <2>2, <2>8
<1> DEFINE f == CHOOSE h : h = F(n, h)
<1>2. PrintedAll(s, string, known) = f[n]
  BY DEF PrintedAll
<1>3. n \in 0..n
  OBVIOUS
<1>4. \E h : h = F(n, h)
  BY <1>1, <1>3
<1>5. f = F(n, f)
  BY <1>4
<1> HIDE DEF f
<1>6. \A k \in 0..n : f[k] = IF k = 0 THEN s ELSE Printed(f[k - 1], string[k], known)
  BY <1>5
<1>7. f[0] = s /\ \A k \in 1..n : f[k] = Printed(f[k - 1], string[k], known)
  BY <1>6
<1> QED
  BY <1>2, <1>7 DEF PrintSteps

\* Whatever is printed, the result is a screen, and its cursor is on it when
\* it was before.
LEMMA PrintedAllFacts ==
  ASSUME NEW s, IsScreen(s), NEW string, Len(string) \in Nat, NEW known
  PROVE  /\ IsScreen(PrintedAll(s, string, known))
         /\ s.off < CELLS => PrintedAll(s, string, known).off < CELLS
<1> DEFINE n == Len(string)
           Good(x) == IsScreen(x) /\ (s.off < CELLS => x.off < CELLS)
<1>0. PICK f : PrintSteps(f, s, string, known)
  BY PrintedAllSteps
<1>1. /\ f[0] = s /\ f[n] = PrintedAll(s, string, known)
      /\ \A k \in 1..n : f[k] = Printed(f[k - 1], string[k], known)
  BY <1>0 DEF PrintSteps
<1> DEFINE S == {k \in 0..n : ~Good(f[k])}
<1> HIDE DEF n
<1>2. n \in Nat
  BY DEF n
<1>3. S = {}
  <2> SUFFICES ASSUME S # {} PROVE FALSE
    OBVIOUS
  <2>0. S \subseteq Nat
    BY <1>2
  <2>1. PICK m \in S : \A y \in S : m <= y
    BY <2>0, LeastMember
  <2>2. m \in 0..n /\ ~Good(f[m])
    OBVIOUS
  <2>3. m # 0
    BY <1>1, <2>2
  <2>4. m - 1 \in 0..n /\ ~(m <= m - 1) /\ m \in 1..n
    BY <1>2, <2>2, <2>3
  <2>5. Good(f[m - 1])
    BY <2>1, <2>4
  <2>6. f[m] = Printed(f[m - 1], string[m], known)
    BY <1>1, <2>4
  <2> QED
    BY <2>2, <2>5, <2>6, PrintedFacts
<1>4. n \in 0..n
  BY <1>2
<1>5. Good(f[n])
  BY <1>3, <1>4
<1> QED
  BY <1>1, <1>5

LEMMA PrintedOne ==
  ASSUME NEW s, NEW c, NEW known
  PROVE  PrintedAll(s, <<c>>, known) = Printed(s, c, known)
<1>1. Len(<<c>>) = 1 /\ Len(<<c>>) \in Nat /\ <<c>>[1] = c
  OBVIOUS
<1>2. PICK f : PrintSteps(f, s, <<c>>, known)
  BY <1>1, PrintedAllSteps
<1>3. 1 \in 1..Len(<<c>>) /\ 1 - 1 = 0
  BY <1>1
<1>4. f[1] = Printed(f[1 - 1], <<c>>[1], known)
  BY <1>2, <1>3 DEF PrintSteps
<1> QED
  BY <1>1, <1>2, <1>3, <1>4 DEF PrintSteps

-----------------------------------------------------------------------------
(***************************************************************************)
(* Only a torn access loses the cursor.                                    *)
(***************************************************************************)

LEMMA TypeFacts ==
  ASSUME IInv
  PROVE  /\ reg \in [{"hi", "lo"} -> 0..BYTE - 1] /\ index \in {"hi", "lo"}
         /\ Cursor \in Nat /\ Cursor < BYTE * BYTE /\ Cursor = reg["hi"] * BYTE + reg["lo"]
         /\ at \in Nat /\ at \in 0..BYTE * BYTE - 1 /\ DOMAIN vid = 0..CELLS - 1
         /\ key_buffer \in Seq(Letters) /\ Len(key_buffer) \in Nat /\ Len(key_buffer) <= MaxLine
         /\ capslock \in BOOLEAN /\ shown \in Nat /\ MaxLine \in Nat
         /\ IsScreen(Screen) /\ Screen.vid = vid /\ Screen.off = Cursor
<1>1. /\ reg \in [{"hi", "lo"} -> 0..BYTE - 1] /\ index \in {"hi", "lo"}
      /\ at \in 0..BYTE * BYTE - 1 /\ DOMAIN vid = 0..CELLS - 1
      /\ key_buffer \in Seq(Letters) /\ Len(key_buffer) <= MaxLine
      /\ capslock \in BOOLEAN /\ shown \in Nat
  BY DEF IInv, TypeInv, TypeOK
<1>2. reg["hi"] * BYTE + reg["lo"] \in 0..BYTE * BYTE - 1
  BY <1>1, CursorFacts
<1>3. Cursor \in 0..BYTE * BYTE - 1 /\ BYTE * BYTE \in Nat
  BY <1>2, ConstFacts DEF Cursor
<1>4. Cursor \in Nat /\ Cursor < BYTE * BYTE /\ at \in Nat
  BY <1>1, <1>3
<1>5. Screen.vid = vid /\ Screen.off = Cursor
  BY DEF Screen
<1>6. Len(key_buffer) \in Nat /\ MaxLine \in Nat
  BY <1>1, ConsoleAssumption
<1> QED
  BY <1>1, <1>4, <1>5, <1>6 DEF IsScreen, Cursor

\* A key: the handler leaves a screen whose cursor is on it if it was.
LEMMA ShowsIInv ==
  ASSUME IInv, NEW s, IsScreen(s), Cursor < CELLS => s.off < CELLS, Shows(s),
         key_buffer' \in Seq(Letters), Len(key_buffer') <= MaxLine, capslock' \in BOOLEAN, shown' \in Nat
  PROVE  IInv' /\ (s.off < CELLS => Cursor' = s.off)
<1>1. /\ vid' = s.vid /\ reg' = Registers(s.off) /\ index' = "lo"
      /\ torn' = (torn \/ pc \in {"get2", "get3", "get4", "set2", "set3", "set4"})
      /\ UNCHANGED <<pc, text, fixed, at>>
  BY DEF Shows, thread
<1>2. reg' \in [{"hi", "lo"} -> 0..BYTE - 1] /\ (s.off < CELLS => Cursor' = s.off)
  <2>1. /\ Registers(s.off) \in [{"hi", "lo"} -> 0..BYTE - 1]
        /\ s.off < BYTE * BYTE => Registers(s.off)["hi"] * BYTE + Registers(s.off)["lo"] = s.off
    BY RegistersFacts DEF IsScreen
  <2>2. s.off < CELLS => s.off < BYTE * BYTE
    BY ConstFacts DEF IsScreen
  <2> QED
    BY <1>1, <2>1, <2>2 DEF Cursor
<1>3. TypeInv'
  BY <1>1, <1>2 DEF IInv, TypeInv, TypeOK, IsScreen
<1>4. CursorInv'
  <2> SUFFICES ASSUME ~torn' PROVE /\ at < CELLS /\ OnScreen'
                                   /\ pc \notin {"get2", "get3", "get4", "set2", "set3", "set4"}
    BY <1>1 DEF CursorInv
  <2>1. ~torn /\ pc \notin {"get2", "get3", "get4", "set2", "set3", "set4"}
    BY <1>1
  <2>2. at < CELLS /\ Cursor < CELLS
    BY <2>1 DEF IInv, CursorInv, OnScreen
  <2> QED
    BY <1>2, <2>1, <2>2 DEF OnScreen
<1> QED
  BY <1>2, <1>3, <1>4 DEF IInv

LEMMA KeyLetterIInv ==
  ASSUME IInv, NEW key \in Keys, keyLetter(key)
  PROVE  IInv'
<1>1. /\ Len(key_buffer) < MaxLine /\ key_buffer' = Append(key_buffer, Letter(key))
      /\ Shows(kprinted(Screen, <<Letter(key)>>))
      /\ shown' = (IF OnScreen THEN shown + 1 ELSE 0) /\ capslock' = capslock
  BY DEF keyLetter
<1>2. Letter(key) \in Letters
  BY TypeFacts DEF Letter, Letters
<1>3. key_buffer' \in Seq(Letters) /\ Len(key_buffer') <= MaxLine
  BY <1>1, <1>2, TypeFacts
<1>4. Len(<<Letter(key)>>) \in Nat
  OBVIOUS
<1>5. /\ IsScreen(kprinted(Screen, <<Letter(key)>>))
      /\ Cursor < CELLS => kprinted(Screen, <<Letter(key)>>).off < CELLS
  BY <1>4, TypeFacts, PrintedAllFacts DEF kprinted
<1> QED
  BY <1>1, <1>3, <1>5, TypeFacts, ShowsIInv

LEMMA KeyBackspaceIInv ==
  ASSUME IInv, keyBackspace
  PROVE  IInv'
<1>1. /\ key_buffer' = (IF key_buffer = << >> THEN << >> ELSE Front(key_buffer))
      /\ Shows(kprint_backspace(Screen))
      /\ shown' = (IF OnScreen /\ shown > 0 THEN shown - 1 ELSE 0) /\ capslock' = capslock
  BY DEF keyBackspace
<1>2. key_buffer' \in Seq(Letters) /\ Len(key_buffer') <= MaxLine
  BY <1>1, TypeFacts DEF Front
<1>3. /\ IsScreen(kprint_backspace(Screen))
      /\ Cursor < CELLS => kprint_backspace(Screen).off < CELLS
  <2>1. CASE Screen.off = 0
    BY <2>1, TypeFacts, PrintedFacts DEF kprint_backspace
  <2>2. CASE Screen.off # 0
    <3>1. /\ kprint_backspace(Screen).vid = Written(vid, BS, Cursor - 1, TRUE)
          /\ kprint_backspace(Screen).off \in {Cursor, Cursor - 1}
      BY <2>2, TypeFacts DEF kprint_backspace
    <3>2. DOMAIN Written(vid, BS, Cursor - 1, TRUE) = 0..CELLS - 1
      <4>1. DOMAIN Written(vid, BS, Cursor - 1, TRUE) = DOMAIN vid
        BY WrittenDomain, Zenon
      <4> QED
        BY <4>1, TypeFacts
    <3>3. Cursor \in Nat /\ Cursor # 0 /\ CELLS \in Nat
      BY <2>2, TypeFacts, ConstFacts
    <3>4. /\ kprint_backspace(Screen).off \in Nat
          /\ Cursor < CELLS => kprint_backspace(Screen).off < CELLS
      BY <3>1, <3>3
    <3> QED
      BY <3>1, <3>2, <3>4 DEF IsScreen
  <2> QED
    BY <2>1, <2>2
<1>4. shown' \in Nat
  BY <1>1, TypeFacts
<1> QED
  BY <1>1, <1>2, <1>3, <1>4, TypeFacts, ShowsIInv

LEMMA KeyEnterIInv ==
  ASSUME IInv, keyEnter
  PROVE  IInv'
<1> DEFINE s == kprinted(Screen, <<NL>>)
           input == key_buffer
<1>1. /\ Shows(user_input(s, input)) /\ shown' = 0 /\ capslock' = capslock
      /\ key_buffer' \in {key_buffer, << >>}
  BY DEF keyEnter
<1>2. key_buffer' \in Seq(Letters) /\ Len(key_buffer') <= MaxLine
  <2>1. << >> \in Seq(Letters) /\ Len(<< >>) = 0
    OBVIOUS
  <2>2. MaxLine \in Nat /\ key_buffer \in Seq(Letters) /\ Len(key_buffer) <= MaxLine
    BY TypeFacts
  <2>3. CASE key_buffer' = << >>
    BY <2>1, <2>2, <2>3
  <2>4. CASE key_buffer' = key_buffer
    BY <2>2, <2>4
  <2> QED
    BY <1>1, <2>3, <2>4
<1>3. IsScreen(s) /\ (Cursor < CELLS => s.off < CELLS)
  <2>1. Len(<<NL>>) \in Nat
    OBVIOUS
  <2> QED
    BY <2>1, TypeFacts, PrintedAllFacts DEF kprinted
<1> HIDE DEF s
<1> DEFINE done == CASE input = CLS -> clear_screen
                     [] input = PAGE -> kprinted(s, <<Word, NL>>)
                     [] OTHER -> s
<1>4. /\ IsScreen(kprinted(s, <<Word, NL>>))
      /\ Cursor < CELLS => kprinted(s, <<Word, NL>>).off < CELLS
  <2>1. Len(<<Word, NL>>) \in Nat
    OBVIOUS
  <2> QED
    BY <1>3, <2>1, PrintedAllFacts DEF kprinted
<1>5. IsScreen(clear_screen) /\ clear_screen.off < CELLS
  BY TypeFacts, ConstFacts DEF clear_screen, IsScreen
<1>6. IsScreen(done) /\ (Cursor < CELLS => done.off < CELLS)
  <2>1. done \in {clear_screen, kprinted(s, <<Word, NL>>), s}
    OBVIOUS
  <2> HIDE DEF done
  <2> QED
    BY <1>3, <1>4, <1>5, <2>1
<1> HIDE DEF done
<1> DEFINE said == <<Word>> \o input \o <<NL, Prompt>>
<1>7. Len(said) \in Nat
  <2> DEFINE C == Letters \cup {Word, NL, Prompt}
  <2>1. <<Word>> \in Seq(C) /\ <<NL, Prompt>> \in Seq(C)
    OBVIOUS
  <2>2. input \in Seq(C)
    BY TypeFacts
  <2>3. <<Word>> \o input \in Seq(C)
    BY <2>1, <2>2
  <2> QED
    BY <2>1, <2>3
<1> HIDE DEF said
<1>8. IsScreen(kprinted(done, said)) /\ (Cursor < CELLS => kprinted(done, said).off < CELLS)
  BY <1>6, <1>7, PrintedAllFacts DEF kprinted
<1>9. user_input(s, input) \in {kprinted(s, <<Word, NL>>), kprinted(done, said)}
  BY DEF user_input, done, said
<1>10. IsScreen(user_input(s, input)) /\ (Cursor < CELLS => user_input(s, input).off < CELLS)
  BY <1>4, <1>8, <1>9
<1> QED
  BY <1>1, <1>2, <1>10, TypeFacts, ShowsIInv

LEMMA KeyCapsLockIInv ==
  ASSUME IInv, keyCapsLock
  PROVE  IInv'
<1> DEFINE s == kprinted(Screen, <<Word>>)
<1>1. /\ Shows(kputs(s, <<Word, NL>>)) /\ shown' = 0 /\ capslock' \in BOOLEAN
      /\ key_buffer' = key_buffer
  BY DEF keyCapsLock
<1>2. IsScreen(s) /\ (Cursor < CELLS => s.off < CELLS)
  <2>1. Len(<<Word>>) \in Nat
    OBVIOUS
  <2> QED
    BY <2>1, TypeFacts, PrintedAllFacts DEF kprinted
<1> HIDE DEF s
<1>3. IsScreen(kputs(s, <<Word, NL>>)) /\ (Cursor < CELLS => kputs(s, <<Word, NL>>).off < CELLS)
  <2>1. Len(<<Word, NL>>) \in Nat
    OBVIOUS
  <2> QED
    BY <1>2, <2>1, PrintedAllFacts DEF kputs
<1> QED
  BY <1>1, <1>3, TypeFacts, ShowsIInv

\* The kernel thread begins to print, and reads the cursor.
LEMMA GetIInv ==
  ASSUME IInv, get_cursor_offset \/ (\E c : kputchar(c)) \/ (\E m : kprint(m))
  PROVE  IInv'
<1>1. UNCHANGED <<vid, reg, key_buffer, capslock, torn, shown>>
  BY DEF get_cursor_offset, kputchar, kprint, keyboard
<1>2. CASE (\E c : kputchar(c)) \/ (\E m : kprint(m))
  <2>1. pc = "idle" /\ pc' = "get1" /\ UNCHANGED <<index, at>>
    BY <1>2 DEF kputchar, kprint
  <2> QED
    BY <1>1, <2>1 DEF IInv, TypeInv, TypeOK, CursorInv, OnScreen, Cursor
<1>3. CASE get_cursor_offset
  <2>1. CASE pc = "get1"
    <3>1. pc' = "get2" /\ index' = "hi" /\ at' = at
      BY <1>3, <2>1 DEF get_cursor_offset
    <3> QED
      BY <1>1, <2>1, <3>1 DEF IInv, TypeInv, TypeOK, CursorInv, OnScreen, Cursor
  <2>2. CASE pc = "get2"
    <3>1. pc' = "get3" /\ at' = reg[index] * BYTE /\ index' = index
      BY <1>3, <2>2 DEF get_cursor_offset
    <3>2. at' \in Nat /\ at' <= (BYTE - 1) * BYTE
      BY <3>1, TypeFacts, CursorFacts
    <3>3. at' \in 0..BYTE * BYTE - 1
      <4> DEFINE b == (BYTE - 1) * BYTE  d == BYTE * BYTE
      <4>1. b \in Nat /\ b + BYTE = d /\ BYTE \in Nat /\ BYTE >= 2 /\ at' \in Nat /\ at' <= b
        BY <3>2, ConstFacts
      <4> HIDE DEF b, d
      <4>2. at' \in 0..d - 1
        BY <4>1
      <4> QED
        BY <4>2 DEF d
    <3>4. TypeInv'
      BY <1>1, <3>1, <3>2, <3>3 DEF IInv, TypeInv, TypeOK
    <3>5. CursorInv'
      <4> SUFFICES ASSUME ~torn PROVE at' < CELLS /\ OnScreen' /\ at' = reg'["hi"] * BYTE
        BY <1>1, <3>1 DEF CursorInv
      <4>1. index = "hi" /\ OnScreen
        BY <2>2 DEF IInv, CursorInv
      <4>2. reg["lo"] \in Nat /\ reg["hi"] * BYTE \in Nat
        BY TypeFacts, CursorFacts
      <4>3. reg["hi"] * BYTE < CELLS
        BY <4>1, <4>2, ConstFacts DEF OnScreen, Cursor
      <4> QED
        BY <1>1, <3>1, <4>1, <4>3 DEF OnScreen, Cursor
    <3> QED
      BY <3>4, <3>5 DEF IInv
  <2>3. CASE pc = "get3"
    <3>1. pc' = "get4" /\ index' = "lo" /\ at' = at
      BY <1>3, <2>3 DEF get_cursor_offset
    <3> QED
      BY <1>1, <2>3, <3>1 DEF IInv, TypeInv, TypeOK, CursorInv, OnScreen, Cursor
  <2>4. CASE pc = "get4"
    <3>1. pc' = "put" /\ at' = at + reg[index] /\ index' = index
      BY <1>3, <2>4 DEF get_cursor_offset
    <3>2. at' \in 0..BYTE * BYTE - 1
      <4> DEFINE b == (BYTE - 1) * BYTE  d == BYTE * BYTE  r == reg[index]
      <4>1. at \in Nat /\ at <= b /\ b \in Nat /\ b + BYTE = d /\ BYTE \in Nat
        BY <2>4, TypeFacts, ConstFacts DEF IInv, TypeInv
      <4>2. r \in 0..BYTE - 1
        BY TypeFacts
      <4> HIDE DEF b, d, r
      <4>3. at + r \in 0..d - 1
        BY <4>1, <4>2
      <4> QED
        BY <3>1, <4>3 DEF d, r
    <3>3. TypeInv'
      BY <1>1, <3>1, <3>2 DEF IInv, TypeInv, TypeOK
    <3>4. CursorInv'
      <4> SUFFICES ASSUME ~torn PROVE at' < CELLS /\ OnScreen'
        BY <1>1, <3>1 DEF CursorInv
      <4>1. index = "lo" /\ OnScreen /\ at = reg["hi"] * BYTE
        BY <2>4 DEF IInv, CursorInv
      <4>2. at' = Cursor /\ Cursor' = Cursor
        BY <1>1, <3>1, <4>1 DEF Cursor
      <4> QED
        BY <4>1, <4>2 DEF OnScreen
    <3> QED
      BY <3>3, <3>4 DEF IInv
  <2> QED
    BY <1>3, <2>1, <2>2, <2>3, <2>4 DEF get_cursor_offset
<1> QED
  BY <1>2, <1>3

LEMMA PrintCharIInv ==
  ASSUME IInv, print_char
  PROVE  IInv'
<1> DEFINE c == Head(text)
           off == NewOffset(c, at, fixed)
<1>1. /\ pc = "put" /\ vid' = Written(vid, c, at, fixed) /\ shown' = 0
      /\ UNCHANGED <<index, reg, key_buffer, capslock, torn>>
  BY DEF print_char, keyboard
<1>2. /\ off \in Nat /\ (off < CELLS \/ off <= at)
      /\ at < CELLS => off < CELLS /\ ~OffGrid(c, at, fixed)
  BY TypeFacts, NewOffsetFacts
<1>3. (pc' = "idle" /\ at' = 0) \/ (pc' \in {"put", "set1"} /\ at' = off)
  BY DEF print_char, NextChar
<1> HIDE DEF off, c
<1>4. at' \in 0..BYTE * BYTE - 1 /\ (at < CELLS => at' < CELLS)
  <2> DEFINE d == BYTE * BYTE
  <2>1. d \in Nat /\ CELLS \in Nat /\ CELLS < d /\ at \in Nat /\ at \in 0..d - 1 /\ CELLS >= 2
    BY TypeFacts, ConstFacts
  <2> HIDE DEF d
  <2>2. at' \in 0..d - 1 /\ (at < CELLS => at' < CELLS)
    BY <1>2, <1>3, <2>1
  <2> QED
    BY <2>2 DEF d
<1>5. TypeInv'
  <2>1. DOMAIN vid' = 0..CELLS - 1
    BY <1>1, TypeFacts, WrittenDomain
  <2> QED
    BY <1>1, <1>3, <1>4, <2>1 DEF IInv, TypeInv, TypeOK
<1>6. CursorInv'
  BY <1>1, <1>3, <1>4 DEF IInv, CursorInv, OnScreen, Cursor
<1> QED
  BY <1>5, <1>6 DEF IInv

LEMMA SetIInv ==
  ASSUME IInv, set_cursor_offset
  PROVE  IInv'
<1>1. UNCHANGED <<vid, key_buffer, capslock, torn>> /\ shown' = 0
  BY DEF set_cursor_offset, keyboard
<1>2. /\ reg \in [{"hi", "lo"} -> 0..BYTE - 1] /\ index \in {"hi", "lo"}
      /\ Registers(at) \in [{"hi", "lo"} -> 0..BYTE - 1]
      /\ Registers(at)["hi"] * BYTE + Registers(at)["lo"] = at
  <2>1. at \in Nat /\ at < BYTE * BYTE
    <3> DEFINE d == BYTE * BYTE
    <3>1. d \in Nat /\ at \in 0..d - 1
      BY TypeFacts, ConstFacts
    <3> HIDE DEF d
    <3>2. at \in Nat /\ at < d
      BY <3>1
    <3> QED
      BY <3>2 DEF d
  <2>2. /\ Registers(at) \in [{"hi", "lo"} -> 0..BYTE - 1]
        /\ at < BYTE * BYTE => Registers(at)["hi"] * BYTE + Registers(at)["lo"] = at
    BY <2>1, RegistersFacts
  <2> QED
    BY <2>1, <2>2, TypeFacts
<1>3. CASE pc \in {"set1", "set3"}
  <2>1. /\ pc = "set1" => pc' = "set2" /\ index' = "hi"
        /\ pc = "set3" => pc' = "set4" /\ index' = "lo"
        /\ reg' = reg /\ at' = at
    BY <1>3 DEF set_cursor_offset, Step
  <2> QED
    BY <1>1, <1>3, <2>1 DEF IInv, TypeInv, TypeOK, CursorInv, OnScreen, Cursor, Registers
<1>4. CASE pc = "set2"
  <2>1. pc' = "set3" /\ index' = index /\ at' = at /\ reg' = [reg EXCEPT ![index] = Registers(at).hi]
    BY <1>4 DEF set_cursor_offset, Step
  <2>2. reg' \in [{"hi", "lo"} -> 0..BYTE - 1]
    BY <1>2, <2>1
  <2>3. TypeInv'
    BY <1>1, <2>1, <2>2 DEF IInv, TypeInv, TypeOK
  <2>4. CursorInv'
    <3> SUFFICES ASSUME ~torn PROVE at' < CELLS /\ reg'["hi"] = Registers(at').hi
      BY <1>1, <2>1 DEF CursorInv, Registers
    <3> QED
      BY <1>2, <1>4, <2>1 DEF IInv, CursorInv
  <2> QED
    BY <2>3, <2>4 DEF IInv
<1>5. CASE pc = "set4"
  <2>1. /\ index' = index /\ reg' = [reg EXCEPT ![index] = Registers(at).lo]
        /\ (pc' = "idle" /\ at' = 0) \/ (pc' = "put" /\ at' = at)
    BY <1>5 DEF set_cursor_offset, NextChar
  <2>2. reg' \in [{"hi", "lo"} -> 0..BYTE - 1]
    BY <1>2, <2>1
  <2>3. at' \in 0..BYTE * BYTE - 1 /\ (at < CELLS => at' < CELLS)
    <3>1. 0 \in 0..BYTE * BYTE - 1
      <4> DEFINE d == BYTE * BYTE
      <4>1. d \in Nat /\ d > 0
        BY ConstFacts
      <4> HIDE DEF d
      <4>2. 0 \in 0..d - 1
        BY <4>1
      <4> QED
        BY <4>2 DEF d
    <3> QED
      BY <2>1, <3>1, TypeFacts, ConstFacts
  <2>4. TypeInv'
    BY <1>1, <2>1, <2>2, <2>3 DEF IInv, TypeInv, TypeOK
  <2>5. CursorInv'
    <3> SUFFICES ASSUME ~torn PROVE at' < CELLS /\ Cursor' < CELLS
      BY <1>1, <2>1 DEF CursorInv, OnScreen
    <3>1. at < CELLS /\ index = "lo" /\ reg["hi"] = Registers(at)["hi"]
      BY <1>5 DEF IInv, CursorInv
    <3>2. reg'["hi"] = Registers(at)["hi"] /\ reg'["lo"] = Registers(at)["lo"]
      BY <1>2, <2>1, <3>1
    <3>3. Cursor' = at
      BY <1>2, <3>2 DEF Cursor
    <3> QED
      BY <2>3, <3>1, <3>3
  <2> QED
    BY <2>4, <2>5 DEF IInv
<1> QED
  BY <1>3, <1>4, <1>5 DEF set_cursor_offset

\* The invariant is kept by every access of the kernel thread and every key.
THEOREM Invariance == Spec => []IInv
<1>1. Init => IInv
  <2> SUFFICES ASSUME Init PROVE IInv
    OBVIOUS
  <2>1. reg = Registers(0) /\ reg \in [{"hi", "lo"} -> 0..BYTE - 1] /\ Cursor = 0
    <3>1. 0 \in Nat /\ 0 < BYTE * BYTE
      BY ConstFacts
    <3> QED
      BY <3>1, RegistersFacts DEF Init, Cursor
  <2>2. 0 \in 0..BYTE * BYTE - 1
    <3> DEFINE d == BYTE * BYTE
    <3>1. d \in Nat /\ d > 0
      BY ConstFacts
    <3> HIDE DEF d
    <3>2. 0 \in 0..d - 1
      BY <3>1
    <3> QED
      BY <3>2 DEF d
  <2>3. key_buffer \in Seq(Letters) /\ Len(key_buffer) = 0
    BY DEF Init
  <2>4. DOMAIN vid = 0..CELLS - 1 /\ index = "lo" /\ pc = "idle" /\ at = 0 /\ capslock = FALSE /\ shown = 0
    BY DEF Init
  <2>5. Len(key_buffer) <= MaxLine
    BY <2>3, ConsoleAssumption
  <2>6. TypeInv
    BY <2>1, <2>2, <2>3, <2>4, <2>5 DEF TypeInv, TypeOK
  <2> QED
    BY <2>1, <2>4, <2>6, ConstFacts DEF IInv, CursorInv, OnScreen
<1>2. IInv /\ [Next]_vars => IInv'
  <2> SUFFICES ASSUME IInv, [Next]_vars PROVE IInv'
    OBVIOUS
  <2>1. CASE UNCHANGED vars
    BY <2>1 DEF vars, keyboard, thread, IInv, TypeInv, TypeOK, CursorInv, OnScreen, Cursor, Registers
  <2>2. CASE Next
    BY <2>2, GetIInv, PrintCharIInv, SetIInv, KeyLetterIInv, KeyBackspaceIInv, KeyEnterIInv,
       KeyCapsLockIInv DEF Next
  <2> QED
    BY <2>1, <2>2
<1> QED
  BY <1>1, <1>2, PTL DEF Spec

\* Whatever is printed and typed, on a screen of any size, the registers hold
\* bytes, and the cursor and the offset of the kernel thread stay on the
\* screen until the handler runs between two port accesses of
\* get_cursor_offset or set_cursor_offset that belong together.
THEOREM CursorKept == Spec => []OnlyTornLosesCursor
<1>1. IInv => OnlyTornLosesCursor
  BY DEF IInv, TypeInv, CursorInv, OnlyTornLosesCursor
<1> QED
  BY <1>1, Invariance, PTL

-----------------------------------------------------------------------------
(***************************************************************************)
(* The letters on the screen are those of the line.                        *)
(***************************************************************************)

\* What stands in front of offset new of w is c, and before it what stands in
\* front of offset off of v.
Follows(w, new, c, v, off) ==
  /\ new \in Nat /\ new <= off + 1
  /\ \A k \in 1..new : w[new - k] = IF k = 1 THEN c ELSE v[(off + 1) - k]

\* A letter on the screen: it stands in front of the new cursor, and before
\* it what stood in front of the old one, moved up with it when the screen
\* has scrolled.
LEMMA WrittenLetter ==
  ASSUME NEW v, DOMAIN v = 0..CELLS - 1, NEW off \in Nat, off < CELLS, NEW c, c # NL, c # BS, NEW known
  PROVE  Follows(Written(v, c, off, known), NewOffset(c, off, known), c, v, off)
<1> DEFINE new == NewOffset(c, off, known)
           put == [v EXCEPT ![off] = c]
           w == Written(v, c, off, known)
<1>1. ~OffGrid(c, off, known) /\ new \in Nat
  BY NewOffsetFacts
<1>2. Advanced(c, off) = off + 1
  BY DEF Advanced
<1>3. new = IF off + 1 >= CELLS THEN (off + 1) - MAX_COLS ELSE off + 1
  BY <1>1, <1>2 DEF NewOffset
<1>4. w = IF off + 1 >= CELLS THEN Scrolled(put) ELSE put
  BY <1>1, <1>2, ConstFacts DEF Written
<1>5. /\ DOMAIN put = 0..CELLS - 1 /\ put[off] = c
      /\ \A j \in 0..CELLS - 1 : j # off => put[j] = v[j]
  BY ConstFacts
<1> HIDE DEF put, new, w
<1>6. new <= off + 1
  BY <1>3, ConstFacts
<1>7. ASSUME NEW k \in 1..new PROVE w[new - k] = IF k = 1 THEN c ELSE v[(off + 1) - k]
  <2>1. /\ (off + 1) - k \in 0..CELLS - 1 /\ new - k \in 0..CELLS - 1
        /\ k # 1 => (off + 1) - k # off
        /\ k = 1 => (off + 1) - k = off
    BY <1>1, <1>6, ConstFacts
  <2>2. w[new - k] = put[(off + 1) - k]
    <3>1. CASE off + 1 >= CELLS
      <4>1. new - k + MAX_COLS = (off + 1) - k /\ new - k + MAX_COLS < CELLS
        BY <1>1, <1>3, <2>1, <3>1, ConstFacts
      <4>2. w[new - k] = IF new - k + MAX_COLS < CELLS THEN put[new - k + MAX_COLS] ELSE Blank
        BY <1>4, <1>5, <2>1, <3>1 DEF Scrolled
      <4> QED
        BY <4>1, <4>2
    <3>2. CASE ~(off + 1 >= CELLS)
      BY <1>3, <1>4, <3>2
    <3> QED
      BY <3>1, <3>2
  <2> QED
    BY <1>5, <2>1, <2>2
<1> QED
  BY <1>1, <1>6, <1>7 DEF Follows, new, w

LEMMA KeyLetterEcho ==
  ASSUME IInv, EchoMatches, NEW key \in Keys, keyLetter(key)
  PROVE  EchoMatches'
<1> DEFINE c == Letter(key)
           s == kprinted(Screen, <<c>>)
           n == Len(key_buffer)
<1>1. /\ key_buffer' = Append(key_buffer, c) /\ Shows(s)
      /\ shown' = (IF OnScreen THEN shown + 1 ELSE 0)
  BY DEF keyLetter
<1>2. c \in Letters /\ c # NL /\ c # BS
  <2>1. c = <<key, capslock>>
    BY DEF Letter
  <2>2. Len(<<key, capslock>>) = 2 /\ Len(NL) = 1 /\ Len(BS) = 1
    BY DEF NL, BS
  <2>3. c # NL /\ c # BS
    BY <2>1, <2>2
  <2>4. <<key, capslock>> \in Letters
    BY TypeFacts DEF Letters
  <2> QED
    BY <2>1, <2>3, <2>4
<1>3. n \in Nat /\ Len(key_buffer') = n + 1 /\ key_buffer'[n + 1] = c
      /\ \A j \in 1..n : key_buffer'[j] = key_buffer[j]
  <2>1. key_buffer \in Seq(Letters) /\ n \in Nat
    BY TypeFacts
  <2> QED
    BY <1>1, <1>2, <2>1
<1> HIDE DEF c
<1>4. CASE ~OnScreen
  BY <1>1, <1>3, <1>4 DEF EchoMatches
<1>5. CASE OnScreen
  <2> DEFINE new == NewOffset(c, Cursor, TRUE)
             w == Written(vid, c, Cursor, TRUE)
  <2>1. Cursor \in Nat /\ Cursor < CELLS /\ DOMAIN vid = 0..CELLS - 1
    BY <1>5, TypeFacts DEF OnScreen
  <2>2. s = Printed(Screen, c, TRUE)
    BY PrintedOne DEF kprinted
  <2>3. s.vid = w /\ s.off = new
    <3>1. /\ Printed(Screen, c, TRUE).vid = Written(Screen.vid, c, Screen.off, TRUE)
          /\ Printed(Screen, c, TRUE).off = NewOffset(c, Screen.off, TRUE)
      BY DEF Printed
    <3>2. Screen.vid = vid /\ Screen.off = Cursor
      BY TypeFacts
    <3> QED
      BY <2>2, <3>1, <3>2
  <2>4. /\ new \in Nat /\ new <= Cursor + 1
        /\ \A k \in 1..new : w[new - k] = IF k = 1 THEN c ELSE vid[(Cursor + 1) - k]
    <3>1. Follows(w, new, c, vid, Cursor)
      BY <1>2, <2>1, WrittenLetter
    <3> QED
      BY <3>1 DEF Follows
  <2>5. new < CELLS
    BY <2>1, NewOffsetFacts
  <2>6. reg' = Registers(s.off) /\ vid' = s.vid
    BY <1>1 DEF Shows
  <2> HIDE DEF s, new, w
  <2>7. Cursor' = new
    <3>1. new < BYTE * BYTE
      BY <2>4, <2>5, ConstFacts
    <3> QED
      BY <2>3, <2>4, <2>6, <3>1, RegistersFacts DEF Cursor
  <2>8. shown' = shown + 1 /\ shown \in Nat /\ shown <= n
    BY <1>1, <1>5, TypeFacts DEF EchoMatches
  <2>9. ASSUME NEW k \in 1..shown', k <= Cursor'
        PROVE  vid'[Cursor' - k] = key_buffer'[Len(key_buffer') - k + 1]
    <3>1. k \in 1..new /\ k \in 1..shown + 1
      BY <2>4, <2>7, <2>8, <2>9
    <3>2. vid'[new - k] = IF k = 1 THEN c ELSE vid[(Cursor + 1) - k]
      BY <2>3, <2>4, <2>6, <3>1
    <3>3. CASE k = 1
      <4>1. n + 1 - k + 1 = n + 1
        BY <1>3, <3>3
      <4> QED
        BY <1>3, <2>7, <3>2, <3>3, <4>1
    <3>4. CASE k # 1
      <4>1. /\ k - 1 \in 1..shown /\ k - 1 <= Cursor /\ Cursor - (k - 1) = (Cursor + 1) - k
            /\ n - (k - 1) + 1 = n + 1 - k + 1 /\ n + 1 - k + 1 \in 1..n
        BY <1>3, <2>1, <2>4, <2>8, <3>1, <3>4
      <4>2. vid[Cursor - (k - 1)] = key_buffer[n - (k - 1) + 1]
        BY <1>5, <4>1 DEF EchoMatches
      <4> QED
        BY <1>3, <2>7, <3>2, <3>4, <4>1, <4>2
    <3> QED
      BY <3>3, <3>4
  <2> QED
    BY <1>3, <2>8, <2>9 DEF EchoMatches
<1> QED
  BY <1>4, <1>5

LEMMA KeyBackspaceEcho ==
  ASSUME IInv, EchoMatches, keyBackspace
  PROVE  EchoMatches'
<1> DEFINE s == kprint_backspace(Screen)
           n == Len(key_buffer)
<1>1. /\ key_buffer' = (IF key_buffer = << >> THEN << >> ELSE Front(key_buffer)) /\ Shows(s)
      /\ shown' = (IF OnScreen /\ shown > 0 THEN shown - 1 ELSE 0)
  BY DEF keyBackspace
<1>2. key_buffer \in Seq(Letters) /\ n \in Nat /\ shown \in Nat /\ shown <= n
  BY TypeFacts DEF EchoMatches
<1>3. Len(key_buffer') \in Nat
  BY <1>1, <1>2 DEF Front
<1>4. CASE ~(OnScreen /\ shown > 0)
  BY <1>1, <1>3, <1>4 DEF EchoMatches
<1>5. CASE OnScreen /\ shown > 0
  <2>1. /\ key_buffer # << >> /\ Len(key_buffer') = n - 1
        /\ \A j \in 1..n - 1 : key_buffer'[j] = key_buffer[j]
    <3>1. n > 0 /\ n - 1 \in Nat
      BY <1>2, <1>5
    <3>2. key_buffer # << >>
      BY <1>2, <3>1
    <3>3. key_buffer' = SubSeq(key_buffer, 1, n - 1)
      BY <1>1, <3>2 DEF Front
    <3>4. \A q \in Seq(Letters) : \A m \in 0..Len(q) :
            /\ Len(SubSeq(q, 1, m)) = m
            /\ \A j \in 1..m : SubSeq(q, 1, m)[j] = q[j]
      OBVIOUS
    <3>5. n - 1 \in 0..Len(key_buffer)
      BY <1>2, <3>1
    <3> QED
      BY <1>2, <3>2, <3>3, <3>4, <3>5
  <2>2. Cursor \in Nat /\ Cursor < CELLS /\ DOMAIN vid = 0..CELLS - 1 /\ Screen.vid = vid /\ Screen.off = Cursor
    BY <1>5, TypeFacts DEF OnScreen
  <2>3. reg' = Registers(s.off) /\ vid' = s.vid
    BY <1>1 DEF Shows
  <2>4. shown' = shown - 1
    BY <1>1, <1>5
  <2>5. CASE Cursor = 0
    <3>1. s.off = NewOffset(BS, 0, FALSE) /\ ~OffGrid(BS, 0, FALSE)
      BY <2>2, <2>5, NewOffsetFacts, ConstFacts DEF kprint_backspace, Printed
    <3>2. Advanced(BS, 0) = 0
      BY DEF Advanced, BS, NL
    <3>3. s.off = 0
      BY <3>1, <3>2, ConstFacts DEF NewOffset
    <3>4. Cursor' = 0
      <4>1. 0 \in Nat /\ 0 < BYTE * BYTE
        BY ConstFacts
      <4> QED
        BY <2>3, <3>3, <4>1, RegistersFacts DEF Cursor
    <3>5. \A k \in 1..shown' : ~(k <= Cursor')
      BY <1>2, <2>4, <3>4
    <3> QED
      BY <1>2, <2>1, <2>4, <3>5 DEF EchoMatches
  <2>6. CASE Cursor # 0
    <3> DEFINE off == Cursor - 1
    <3>1. off \in Nat /\ off < CELLS /\ off \in 0..CELLS - 1
      BY <2>2, <2>6, ConstFacts
    <3>2. ~OffGrid(BS, off, TRUE)
      BY <3>1, NewOffsetFacts
    <3>3. s.off = off /\ s.vid = Written(vid, BS, off, TRUE)
      BY <2>2, <2>6, <3>2 DEF kprint_backspace
    <3>4. Advanced(BS, off) = off
      BY DEF Advanced, BS, NL
    <3>5. s.vid = [vid EXCEPT ![off] = Blank]
      <4>1. ~(off >= CELLS) /\ BS # NL
        BY <3>1, ConstFacts DEF BS, NL
      <4> QED
        BY <3>2, <3>3, <3>4, <4>1 DEF Written
    <3>6. Cursor' = off
      <4>1. off < BYTE * BYTE
        BY <3>1, ConstFacts
      <4> QED
        BY <2>3, <3>1, <3>3, <4>1, RegistersFacts DEF Cursor
    <3>7. ASSUME NEW k \in 1..shown', k <= Cursor'
          PROVE  vid'[Cursor' - k] = key_buffer'[Len(key_buffer') - k + 1]
      <4>1. /\ k + 1 \in 1..shown /\ k + 1 <= Cursor /\ Cursor - (k + 1) = off - k /\ off - k # off
            /\ off - k \in 0..CELLS - 1
            /\ n - (k + 1) + 1 = n - 1 - k + 1 /\ n - 1 - k + 1 \in 1..n - 1
        BY <1>2, <2>2, <2>4, <3>1, <3>6, <3>7, ConstFacts
      <4>2. vid[Cursor - (k + 1)] = key_buffer[n - (k + 1) + 1]
        BY <1>5, <4>1 DEF EchoMatches
      <4>3. vid'[off - k] = vid[off - k]
        BY <2>2, <2>3, <3>5, <4>1
      <4> QED
        BY <2>1, <3>6, <4>1, <4>2, <4>3
    <3> QED
      BY <1>2, <2>1, <2>4, <3>7 DEF EchoMatches
  <2> QED
    BY <2>5, <2>6
<1> QED
  BY <1>4, <1>5

\* What has been typed since anything else was printed stands on the screen
\* as user_input will get it: through append and backspace of the line, and
\* the wrapping, scrolling and erasing of print_char and kprint_backspace.
THEOREM EchoKept == Spec => []EchoMatches
<1>1. Init => EchoMatches
  BY DEF Init, EchoMatches
<1>2. IInv /\ IInv' /\ EchoMatches /\ [Next]_vars => EchoMatches'
  <2> SUFFICES ASSUME IInv, IInv', EchoMatches, [Next]_vars PROVE EchoMatches'
    OBVIOUS
  \* Something else is printed.
  <2>1. ASSUME shown' = 0 PROVE EchoMatches'
    <3>1. key_buffer' \in Seq(Letters)
      BY DEF IInv, TypeInv
    <3>2. Len(key_buffer') \in Nat
      BY <3>1
    <3> QED
      BY <2>1, <3>2 DEF EchoMatches
  <2>2. ASSUME UNCHANGED <<vid, reg, key_buffer, shown>> PROVE EchoMatches'
    BY <2>2 DEF EchoMatches, OnScreen, Cursor
  <2>3. CASE print_char \/ set_cursor_offset \/ keyEnter \/ keyCapsLock
    BY <2>1, <2>3 DEF print_char, set_cursor_offset, keyEnter, keyCapsLock
  <2>4. CASE get_cursor_offset \/ (\E c \in Chars : kputchar(c)) \/ (\E message \in Messages : kprint(message))
    BY <2>2, <2>4 DEF get_cursor_offset, kputchar, kprint, keyboard
  <2>5. CASE UNCHANGED vars
    BY <2>2, <2>5 DEF vars, keyboard
  <2> QED
    BY <2>3, <2>4, <2>5, KeyLetterEcho, KeyBackspaceEcho DEF Next
<1> QED
  BY <1>1, <1>2, Invariance, PTL DEF Spec
===============================================================================
