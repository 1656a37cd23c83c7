-------------------------- MODULE BalancedCodeProofs --------------------------
(***************************************************************************)
(* The frame discipline, proved of every balanced instruction list and for *)
(* every limit of the machine.                                             *)
(***************************************************************************)
EXTENDS BalancedCode, StackMachineProofs

-----------------------------------------------------------------------------
(* Contexts and the words of the stack they rely on. *)

LEMMA ContextIsTyped ==
    ASSUME NEW C \in Seq(Context), NEW j \in 1..Len(C)
    PROVE  /\ C[j] \in Context
           /\ C[j].frame \in FrameRecord /\ C[j].resume \in Nat
           /\ C[j].frame.bp \in Nat /\ C[j].frame.slots \in Nat
           /\ Base(C, j) \in Nat
           /\ j # 1 => Base(C, j) = C[j].frame.bp + C[j].frame.slots + 13
           /\ \A level \in Levels : C[j].display[level] \in DisplayEntry
<1>1. C[j] \in Context
  BY ElementOfSeq
<1>2. /\ C[j].frame \in FrameRecord /\ C[j].resume \in Nat
      /\ C[j].display \in [Levels -> DisplayEntry]
  BY <1>1 DEF Context, Registers
<1>3. PICK bp \in Nat, slots \in Nat : bp = C[j].frame.bp /\ slots = C[j].frame.slots
  BY <1>2 DEF FrameRecord
<1>4. CASE j = 1
  BY <1>1, <1>2, <1>3, <1>4 DEF Base
<1>5. CASE j # 1
  <2>1. Base(C, j) = bp + slots + 13
    BY <1>3, <1>5 DEF Base, OperandBase, LinkageWords
  <2>2. Base(C, j) \in Nat
    BY <2>1
  <2>3. Base(C, j) = C[j].frame.bp + C[j].frame.slots + 13
    BY <1>3, <2>1, Zenon
  <2>4. \A level \in Levels : C[j].display[level] \in DisplayEntry
    BY <1>2
  <2> QED
    BY <1>1, <1>2, <1>3, <2>2, <2>3, <2>4, Zenon
<1> QED
  BY <1>4, <1>5

\* Whether an entry is the latest depends on the frames alone.
LEMMA LatestAgrees ==
    ASSUME NEW C, NEW D, NEW j \in Nat, NEW level, NEW entry,
           \A i \in 2..j : D[i].frame = C[i].frame,
           IsLatest(C, j, level, entry)
    PROVE  IsLatest(D, j, level, entry)
BY DEF IsLatest

\* A frame of another level on top changes nothing.
LEMMA LatestBelowTop ==
    ASSUME NEW C, NEW D, NEW n \in Nat \ {0}, NEW level, NEW entry,
           \A i \in 2..n : D[i].frame = C[i].frame,
           D[n + 1].frame.level # level,
           IsLatest(C, n, level, entry)
    PROVE  IsLatest(D, n + 1, level, entry)
<1>1. \A i \in 2..(n + 1) : i \in 2..n \/ i = n + 1
  OBVIOUS
<1>2. \A i \in 2..n : i \in 2..(n + 1)
  OBVIOUS
<1>3. CASE /\ \A i \in 2..n : C[i].frame.level # level
           /\ entry = NoEntry
  BY <1>1, <1>3 DEF IsLatest
<1>4. ASSUME NEW i \in 2..n,
             C[i].frame.level = level,
             \A k \in 2..n : C[k].frame.level = level => k <= i,
             entry = [active |-> TRUE, bp |-> C[i].frame.bp, slots |-> C[i].frame.slots]
      PROVE  IsLatest(D, n + 1, level, entry)
  <2>1. \A k \in 2..(n + 1) : D[k].frame.level = level => k <= i
    BY <1>1, <1>4
  <2> QED
    BY <1>2, <1>4, <2>1 DEF IsLatest
<1> QED
  BY <1>3, <1>4 DEF IsLatest

LEMMA LatestOnTop ==
    ASSUME NEW D, NEW n \in Nat \ {0}, NEW level,
           D[n + 1].frame.level = level
    PROVE  IsLatest(D, n + 1, level,
                    [active |-> TRUE, bp |-> D[n + 1].frame.bp,
                     slots |-> D[n + 1].frame.slots])
<1>1. n + 1 \in 2..(n + 1) /\ \A k \in 2..(n + 1) : k <= n + 1
  OBVIOUS
<1> QED
  BY <1>1 DEF IsLatest

LEMMA LatestIsUnique ==
    ASSUME NEW C, NEW n \in Nat, NEW level, NEW entry, NEW other,
           IsLatest(C, n, level, entry), IsLatest(C, n, level, other)
    PROVE  entry = other
<1>1. CASE \A i \in 2..n : C[i].frame.level # level
  BY <1>1 DEF IsLatest
<1>2. ASSUME NEW i \in 2..n, C[i].frame.level = level,
             \A k \in 2..n : C[k].frame.level = level => k <= i,
             entry = [active |-> TRUE, bp |-> C[i].frame.bp, slots |-> C[i].frame.slots],
             NEW j \in 2..n, C[j].frame.level = level,
             \A k \in 2..n : C[k].frame.level = level => k <= j,
             other = [active |-> TRUE, bp |-> C[j].frame.bp, slots |-> C[j].frame.slots]
      PROVE  entry = other
  <2>1. i <= j /\ j <= i
    BY <1>2
  <2>2. i = j
    BY <2>1
  <2> QED
    BY <1>2, <2>2
<1> QED
  BY <1>1, <1>2 DEF IsLatest

\* The words of every linkage lie below the operands of the running frame.
LEMMA LinkagesLieBelow ==
    ASSUME NEW C \in Seq(Context), FramesApart(C),
           NEW j \in 2..Len(C), NEW w \in 1..LinkageWords
    PROVE  /\ C[j].frame.bp + C[j].frame.slots + w \in 1..Base(C, Len(C))
           /\ \A k \in 2..Len(C) : j < k =>
                 C[j].frame.bp + C[j].frame.slots + w \in 1..C[k].frame.bp
<1>1. /\ Len(C) \in Nat /\ j \in 1..Len(C) /\ Len(C) \in 2..Len(C) /\ Len(C) \in 1..Len(C)
      /\ j # 1 /\ w \in 1..13
  BY LenProperties DEF LinkageWords
<1>2. PICK bp \in Nat, slots \in Nat, base \in Nat :
         /\ bp = C[j].frame.bp /\ slots = C[j].frame.slots
         /\ base = Base(C, j) /\ base = bp + slots + 13
  BY <1>1, ContextIsTyped
<1>3. bp + slots + w \in 1..base
  <2>1. base = bp + slots + 13
    BY <1>2
  <2>2. w \in Nat /\ 1 <= w /\ w <= 13
    BY <1>1
  <2> QED
    BY <2>1, <2>2
<1>4. ASSUME NEW k \in 2..Len(C), j < k
      PROVE  bp + slots + w \in 1..C[k].frame.bp
  <2>1. k \in 1..Len(C)
    BY <1>1
  <2>2. PICK above \in Nat : above = C[k].frame.bp /\ base <= above
    BY <1>2, <1>4, <2>1, ContextIsTyped DEF FramesApart
  <2>3. bp + slots + w \in 1..above
    BY <1>3, <2>2
  <2> QED
    BY <2>2, <2>3
<1>5. bp + slots + w \in 1..Base(C, Len(C))
  <2>1. CASE j = Len(C)
    BY <1>2, <1>3, <2>1
  <2>2. CASE j # Len(C)
    <3>1. j < Len(C) /\ Len(C) # 1
      BY <1>1, <2>2
    <3>2. PICK above \in Nat, slotsAbove \in Nat, top \in Nat :
            /\ above = C[Len(C)].frame.bp
            /\ top = Base(C, Len(C)) /\ top = above + slotsAbove + 13
      BY <1>1, <3>1, ContextIsTyped
    <3>3. bp + slots + w \in 1..above
      BY <1>1, <1>4, <3>1, <3>2
    <3>4. above <= top
      <4>1. top = above + slotsAbove + 13
        BY <3>2, Zenon
      <4> QED
        BY <4>1
    <3>5. bp + slots + w \in 1..top
      <4>1. ASSUME NEW x \in 1..above
            PROVE  x \in 1..top
        BY <3>4
      <4> QED
        BY <3>3, <4>1, Zenon
    <3> QED
      BY <3>2, <3>5, Zenon
  <2> QED
    BY <2>1, <2>2
<1> QED
  BY <1>2, <1>4, <1>5

\* A step inside the running frame: the contexts are the same but for the line
\* of the running one, and no linkage word is written.
LEMMA StayingStands ==
    ASSUME NEW list, NEW heights, NEW C, NEW D \in Seq(Context), NEW S, NEW T,
           FramesStand(list, heights, C, S), Len(C) >= 1, Len(D) = Len(C),
           \A j \in 1..Len(C) : D[j].frame = C[j].frame /\ D[j].display = C[j].display,
           \A j \in 1..(Len(C) - 1) : D[j] = C[j],
           \A j \in 2..Len(C) : \A w \in 1..LinkageWords :
              T[C[j].frame.bp + C[j].frame.slots + w] = S[C[j].frame.bp + C[j].frame.slots + w],
           Base(C, Len(C)) <= Len(T)
    PROVE  FramesStand(list, heights, D, T)
<1>1. C \in Seq(Context) /\ Len(C) \in Nat /\ Len(C) \in 1..Len(C)
  BY LenProperties DEF FramesStand
<1>2. \A j \in 2..Len(C) : j \in 1..Len(C) /\ j - 1 \in 1..(Len(C) - 1)
  BY <1>1
<1>3. \A j \in 1..Len(C) : Base(D, j) = Base(C, j)
  BY DEF Base
<1>4. \A j \in 2..Len(C) : D[j].frame = C[j].frame /\ D[j - 1] = C[j - 1]
                          /\ Base(D, j - 1) = Base(C, j - 1)
  <2>1. \A j \in 2..Len(C) : j - 1 \in 1..Len(C)
    BY <1>1
  <2> QED
    BY <1>2, <1>3, <2>1
<1>5. CallsStand(list, heights, D)
  BY <1>4 DEF FramesStand, CallsStand
<1>6. FramesApart(D)
  <2>1. \A j, k \in 2..Len(D) : j < k => Base(D, j) <= D[k].frame.bp
    BY <1>2, <1>3 DEF FramesStand, FramesApart
  <2>2. \A j \in 1..Len(D) : LinkageWords * (j - 1) <= Base(D, j)
    BY <1>3 DEF FramesStand, FramesApart
  <2> QED
    BY <2>1, <2>2 DEF FramesApart
<1>7. LinkagesStand(D, T)
  <2> SUFFICES ASSUME NEW j \in 2..Len(C), NEW w \in 1..LinkageWords
               PROVE  T[D[j].frame.bp + D[j].frame.slots + w] =
                        SavedWord(D[j - 1], D[j].frame.level, w)
    BY DEF LinkagesStand
  <2>1. S[C[j].frame.bp + C[j].frame.slots + w] = SavedWord(C[j - 1], C[j].frame.level, w)
    BY DEF FramesStand, LinkagesStand
  <2>2. D[j].frame = C[j].frame /\ D[j - 1] = C[j - 1]
    BY <1>4
  <2>3. T[C[j].frame.bp + C[j].frame.slots + w] = S[C[j].frame.bp + C[j].frame.slots + w]
    OBVIOUS
  <2> QED
    BY <2>1, <2>2, <2>3, Zenon
<1>8. DisplaysStand(D)
  <2> SUFFICES ASSUME NEW j \in 1..Len(D), NEW level \in Levels
               PROVE  IsLatest(D, j, level, D[j].display[level])
    BY DEF DisplaysStand
  <2>1. IsLatest(C, j, level, C[j].display[level])
    BY DEF FramesStand, DisplaysStand
  <2>2. \A i \in 2..j : D[i].frame = C[i].frame
    BY <1>1
  <2>3. j \in Nat /\ D[j].display = C[j].display
    BY <1>1
  <2> QED
    BY <2>1, <2>2, <2>3, LatestAgrees
<1>9. D[1].frame = NoFrame
  <2>1. 1 \in 1..Len(C)
    BY <1>1
  <2> QED
    BY <2>1 DEF FramesStand
<1> QED
  BY <1>1, <1>3, <1>5, <1>6, <1>7, <1>8, <1>9 DEF FramesStand

\* A return: the last context is gone, the words below its frame are not written.
LEMMA LeavingStands ==
    ASSUME NEW list, NEW heights, NEW C, NEW D \in Seq(Context), NEW S, NEW T,
           FramesStand(list, heights, C, S), Len(C) >= 2, Len(D) = Len(C) - 1,
           \A j \in 1..(Len(C) - 1) : D[j] = C[j],
           \A i \in 1..C[Len(C)].frame.bp : T[i] = S[i],
           Base(C, Len(C) - 1) <= Len(T)
    PROVE  FramesStand(list, heights, D, T)
<1>1. PICK n \in Nat : n = Len(C) /\ n >= 2 /\ Len(D) = n - 1
  BY LenProperties DEF FramesStand
<1>2. /\ C \in Seq(Context)
      /\ \A j \in 1..(n - 1) : j \in 1..n /\ D[j] = C[j] /\ Base(D, j) = Base(C, j)
      /\ n - 1 \in 1..(n - 1) /\ n \in 2..n
  BY <1>1 DEF FramesStand, Base
<1>3. \A j \in 2..(n - 1) : j \in 2..n /\ j \in 1..(n - 1) /\ j - 1 \in 1..(n - 1)
                         /\ j < n
  BY <1>1
<1>4. CallsStand(list, heights, D)
  BY <1>1, <1>2, <1>3 DEF FramesStand, CallsStand
<1>5. FramesApart(D)
  <2>1. \A j, k \in 2..Len(D) : j < k => Base(D, j) <= D[k].frame.bp
    BY <1>1, <1>2, <1>3 DEF FramesStand, FramesApart
  <2>2. \A j \in 1..Len(D) : LinkageWords * (j - 1) <= Base(D, j)
    BY <1>1, <1>2 DEF FramesStand, FramesApart
  <2> QED
    BY <2>1, <2>2 DEF FramesApart
<1>6. LinkagesStand(D, T)
  <2> SUFFICES ASSUME NEW j \in 2..Len(D), NEW w \in 1..LinkageWords
               PROVE  T[D[j].frame.bp + D[j].frame.slots + w]
                        = SavedWord(D[j - 1], D[j].frame.level, w)
    BY DEF LinkagesStand
  <2>1. j \in 2..(n - 1)
    BY <1>1
  <2>2. C[j].frame.bp + C[j].frame.slots + w \in 1..C[n].frame.bp
    BY <1>1, <1>2, <1>3, <2>1, LinkagesLieBelow DEF FramesStand
  <2>3. S[C[j].frame.bp + C[j].frame.slots + w] = SavedWord(C[j - 1], C[j].frame.level, w)
    BY <1>1, <1>3, <2>1 DEF FramesStand, LinkagesStand
  <2> QED
    BY <1>1, <1>2, <1>3, <2>1, <2>2, <2>3
<1>7. DisplaysStand(D)
  <2> SUFFICES ASSUME NEW j \in 1..Len(D), NEW level \in Levels
               PROVE  IsLatest(D, j, level, D[j].display[level])
    BY DEF DisplaysStand
  <2>1. j \in 1..(n - 1) /\ j \in Nat
    BY <1>1
  <2>2. IsLatest(C, j, level, C[j].display[level])
    BY <1>1, <1>2, <2>1 DEF FramesStand, DisplaysStand
  <2>3. \A i \in 2..j : D[i].frame = C[i].frame
    <3>1. \A i \in 2..j : i \in 1..(n - 1)
      BY <1>1, <2>1
    <3> QED
      BY <1>2, <3>1
  <2>4. D[j].display = C[j].display
    BY <1>2, <2>1
  <2> QED
    BY <2>1, <2>2, <2>3, <2>4, LatestAgrees
<1>8. D[1].frame = NoFrame
  <2>1. 1 \in 1..(n - 1)
    BY <1>1
  <2> QED
    BY <1>2, <2>1 DEF FramesStand
<1> QED
  BY <1>1, <1>2, <1>4, <1>5, <1>6, <1>7, <1>8 DEF FramesStand

\* The display of a callee is its caller's but for the entry of its own level.
LEMMA DisplaysOnTop ==
    ASSUME NEW C, NEW D, NEW n \in Nat \ {0},
           DisplaysStand(C), Len(C) = n, Len(D) = n + 1,
           \A j \in 1..n : D[j].frame = C[j].frame /\ D[j].display = C[j].display,
           C[n].display \in [Levels -> DisplayEntry],
           D[n + 1].frame.level \in Levels,
           D[n + 1].display =
             [C[n].display EXCEPT ![D[n + 1].frame.level] =
                [active |-> TRUE, bp |-> D[n + 1].frame.bp, slots |-> D[n + 1].frame.slots]]
    PROVE  DisplaysStand(D)
<1> SUFFICES ASSUME NEW j \in 1..Len(D), NEW l \in Levels
             PROVE  IsLatest(D, j, l, D[j].display[l])
  BY DEF DisplaysStand
<1>1. /\ \A i \in 2..n : D[i].frame = C[i].frame
      /\ n \in 1..n /\ (j \in 1..n \/ j = n + 1)
  OBVIOUS
<1>2. CASE j \in 1..n
  <2>1. PICK entry : entry = C[j].display[l]
    OBVIOUS
  <2>2. IsLatest(C, j, l, entry)
    BY <1>2, <2>1 DEF DisplaysStand
  <2>3. j \in Nat /\ \A i \in 2..j : D[i].frame = C[i].frame
    BY <1>1, <1>2
  <2>4. IsLatest(D, j, l, entry)
    BY <2>2, <2>3, LatestAgrees
  <2>5. D[j].display = C[j].display
    BY <1>2
  <2> QED
    BY <2>1, <2>4, <2>5, Zenon
<1>3. CASE j = n + 1
  <2>1. CASE l = D[n + 1].frame.level
    <3>1. D[n + 1].display[l] = [active |-> TRUE, bp |-> D[n + 1].frame.bp,
                                 slots |-> D[n + 1].frame.slots]
      BY <2>1
    <3>2. D[n + 1].frame.level = l
      BY <2>1
    <3>3. IsLatest(D, n + 1, l, D[n + 1].display[l])
      BY <3>1, <3>2, LatestOnTop
    <3> QED
      BY <1>3, <3>3
  <2>2. CASE l # D[n + 1].frame.level
    <3>1. D[n + 1].display[l] = C[n].display[l]
      BY <2>2
    <3>2. PICK entry : entry = C[n].display[l]
      OBVIOUS
    <3>3. IsLatest(C, n, l, entry)
      BY <1>1, <3>2 DEF DisplaysStand
    <3>4. D[n + 1].frame.level # l
      BY <2>2
    <3>5. IsLatest(D, n + 1, l, entry)
      BY <1>1, <3>3, <3>4, LatestBelowTop
    <3> QED
      BY <1>3, <3>1, <3>2, <3>5, Zenon
  <2> QED
    BY <2>1, <2>2
<1> QED
  BY <1>1, <1>2, <1>3

\* A call: D has a context on top of C's, for a frame at bp, above the operands
\* that stay, with the linkage over its slots.
Entered(list, heights, C, D, S, T, n, bp) ==
    /\ C \in Seq(Context) /\ Len(C) = n
    /\ D \in Seq(Context) /\ Len(D) = n + 1
    /\ \A j \in 1..n : D[j].frame = C[j].frame /\ D[j].display = C[j].display
    /\ \A j \in 1..(n - 1) : D[j] = C[j]
    /\ Base(C, n) <= bp
    /\ CalledFrom(list, heights, D[n].resume - 1, Base(C, n), D[n + 1].frame)
    /\ D[n + 1].frame.bp = bp
    /\ D[n + 1].frame.level \in Levels
    /\ D[n + 1].display =
         [C[n].display EXCEPT ![D[n + 1].frame.level] =
            [active |-> TRUE, bp |-> bp, slots |-> D[n + 1].frame.slots]]
    /\ \A i \in 1..bp : T[i] = S[i]
    /\ \A w \in 1..LinkageWords :
          T[bp + D[n + 1].frame.slots + w] = SavedWord(D[n], D[n + 1].frame.level, w)
    /\ Len(T) = bp + D[n + 1].frame.slots + LinkageWords

LEMMA EnteringStands ==
    ASSUME NEW list, NEW heights, NEW C, NEW D, NEW S, NEW T,
           NEW n \in Nat \ {0}, NEW bp \in Nat,
           FramesStand(list, heights, C, S), Entered(list, heights, C, D, S, T, n, bp)
    PROVE  FramesStand(list, heights, D, T)
<1>1. /\ C \in Seq(Context) /\ Len(C) = n
      /\ D \in Seq(Context) /\ Len(D) = n + 1
      /\ \A j \in 1..n : D[j].frame = C[j].frame /\ D[j].display = C[j].display
      /\ \A j \in 1..(n - 1) : D[j] = C[j]
  BY DEF Entered
<1>2. /\ \A j \in 2..n : j \in 1..n /\ j - 1 \in 1..(n - 1) /\ j - 1 \in 1..n /\ j # 1
      /\ \A j \in 2..(n + 1) : j \in 2..n \/ j = n + 1
      /\ \A j \in 1..(n + 1) : j \in 1..n \/ j = n + 1
      /\ n \in 1..n /\ n + 1 - 1 = n /\ n + 1 # 1 /\ n + 1 \in 1..(n + 1)
  OBVIOUS
<1>3. \A j \in 1..n :
         /\ Base(D, j) = Base(C, j) /\ Base(C, j) \in Nat
         /\ C[j].frame.bp \in Nat /\ C[j].frame.slots \in Nat
         /\ j # 1 => Base(C, j) = C[j].frame.bp + C[j].frame.slots + 13
  <2> SUFFICES ASSUME NEW j \in 1..n
               PROVE  /\ Base(D, j) = Base(C, j) /\ Base(C, j) \in Nat
                      /\ C[j].frame.bp \in Nat /\ C[j].frame.slots \in Nat
                      /\ j # 1 => Base(C, j) = C[j].frame.bp + C[j].frame.slots + 13
    OBVIOUS
  <2>1. Base(D, j) = Base(C, j)
    BY <1>1 DEF Base
  <2>2. j \in 1..Len(C)
    BY <1>1
  <2> QED
    BY <1>1, <2>1, <2>2, ContextIsTyped
<1>4. PICK slots \in Nat :
         /\ D[n + 1].frame.bp = bp /\ D[n + 1].frame.slots = slots
         /\ Base(D, n + 1) = bp + slots + 13
         /\ Len(T) = bp + slots + 13
         /\ \A i \in 1..bp : T[i] = S[i]
         /\ \A w \in 1..LinkageWords :
               T[bp + slots + w] = SavedWord(D[n], D[n + 1].frame.level, w)
  <2>1. D[n + 1].frame.bp = bp
    BY DEF Entered
  <2>2. D[n + 1].frame.slots \in Nat
        /\ Base(D, n + 1) = D[n + 1].frame.bp + D[n + 1].frame.slots + 13
    <3>1. n + 1 \in 1..Len(D)
      BY <1>1, <1>2
    <3> QED
      BY <1>1, <1>2, <3>1, ContextIsTyped
  <2>3. /\ Len(T) = bp + D[n + 1].frame.slots + 13
        /\ \A i \in 1..bp : T[i] = S[i]
        /\ \A w \in 1..LinkageWords :
              T[bp + D[n + 1].frame.slots + w] = SavedWord(D[n], D[n + 1].frame.level, w)
    BY DEF Entered, LinkageWords
  <2> QED
    BY <2>1, <2>2, <2>3
<1>5. \A j \in 2..n : Base(C, j) <= bp
  <2> SUFFICES ASSUME NEW j \in 2..n PROVE Base(C, j) <= bp
    OBVIOUS
  <2>1. Base(C, n) <= bp
    BY DEF Entered
  <2>2. CASE j = n
    BY <2>1, <2>2
  <2>3. CASE j # n
    <3>1. j < n /\ n \in 2..n /\ n # 1
      BY <2>3
    <3>2. Base(C, j) <= C[n].frame.bp
      BY <1>1, <3>1 DEF FramesStand, FramesApart
    <3>3. PICK at \in Nat, s \in Nat : at = C[n].frame.bp /\ s = C[n].frame.slots
                                      /\ Base(C, n) = at + s + 13
      BY <1>2, <1>3, <3>1
    <3>4. PICK b \in Nat : b = Base(C, j)
      BY <1>2, <1>3
    <3>5. b <= at /\ at + s + 13 <= bp
      BY <2>1, <3>2, <3>3, <3>4
    <3>6. b <= bp
      BY <3>5
    <3> QED
      BY <3>4, <3>6
  <2> QED
    BY <2>2, <2>3
<1>6. CallsStand(list, heights, D)
  <2> SUFFICES ASSUME NEW j \in 2..Len(D)
               PROVE  CalledFrom(list, heights, D[j - 1].resume - 1, Base(D, j - 1), D[j].frame)
    BY DEF CallsStand
  <2>1. CASE j = n + 1
    <3>1. Base(D, j - 1) = Base(C, n) /\ j - 1 = n
      BY <1>2, <1>3, <2>1
    <3>2. CalledFrom(list, heights, D[n].resume - 1, Base(C, n), D[n + 1].frame)
      BY DEF Entered
    <3> QED
      BY <2>1, <3>1, <3>2
  <2>2. CASE j \in 2..n
    <3>1. D[j].frame = C[j].frame /\ D[j - 1] = C[j - 1] /\ Base(D, j - 1) = Base(C, j - 1)
      BY <1>1, <1>2, <1>3, <2>2
    <3>2. CalledFrom(list, heights, C[j - 1].resume - 1, Base(C, j - 1), C[j].frame)
      BY <1>1, <2>2 DEF FramesStand, CallsStand
    <3> QED
      BY <3>1, <3>2
  <2> QED
    BY <1>1, <1>2, <2>1, <2>2
<1>7. FramesApart(D)
  <2>1. ASSUME NEW j \in 2..Len(D), NEW k \in 2..Len(D), j < k
        PROVE  Base(D, j) <= D[k].frame.bp
    <3>1. j \in 2..n /\ (k \in 2..n \/ k = n + 1)
      BY <1>1, <2>1
    <3>2. Base(D, j) = Base(C, j)
      BY <1>2, <1>3, <3>1
    <3>3. CASE k = n + 1
      BY <1>4, <1>5, <3>1, <3>2, <3>3
    <3>4. CASE k \in 2..n
      <4>1. Base(C, j) <= C[k].frame.bp
        BY <1>1, <2>1, <3>1, <3>4 DEF FramesStand, FramesApart
      <4> QED
        BY <1>1, <1>2, <3>2, <3>4, <4>1
    <3> QED
      BY <3>1, <3>3, <3>4
  <2>2. ASSUME NEW j \in 1..Len(D)
        PROVE  LinkageWords * (j - 1) <= Base(D, j)
    <3>1. CASE j \in 1..n
      BY <1>1, <1>3, <3>1 DEF FramesStand, FramesApart
    <3>2. CASE j = n + 1
      <4>1. PICK b \in Nat : b = Base(C, n) /\ b <= bp /\ 13 * (n - 1) <= b
        BY <1>1, <1>2, <1>3 DEF FramesStand, FramesApart, LinkageWords, Entered
      <4>2. 13 * n <= bp + slots + 13
        BY <4>1
      <4>3. j - 1 = n
        BY <3>2
      <4> QED
        BY <1>4, <3>2, <4>2, <4>3 DEF LinkageWords
    <3> QED
      BY <1>1, <1>2, <3>1, <3>2
  <2> QED
    BY <2>1, <2>2 DEF FramesApart
<1>8. LinkagesStand(D, T)
  <2> SUFFICES ASSUME NEW j \in 2..Len(D), NEW w \in 1..LinkageWords
               PROVE  T[D[j].frame.bp + D[j].frame.slots + w]
                        = SavedWord(D[j - 1], D[j].frame.level, w)
    BY DEF LinkagesStand
  <2>1. CASE j = n + 1
    BY <1>2, <1>4, <2>1
  <2>2. CASE j \in 2..n
    <3>1. D[j].frame = C[j].frame /\ D[j - 1] = C[j - 1]
      BY <1>1, <1>2, <2>2
    <3>2. C[j].frame.bp + C[j].frame.slots + w \in 1..bp
      <4>1. PICK at \in Nat, s \in Nat : at = C[j].frame.bp /\ s = C[j].frame.slots
                                        /\ Base(C, j) = at + s + 13
        BY <1>2, <1>3, <2>2
      <4>2. at + s + 13 <= bp /\ w \in Nat /\ 1 <= w /\ w <= 13
        BY <1>5, <2>2, <4>1 DEF LinkageWords
      <4>3. at + s + w \in 1..bp
        BY <4>2
      <4> QED
        BY <4>1, <4>3
    <3>3. S[C[j].frame.bp + C[j].frame.slots + w] = SavedWord(C[j - 1], C[j].frame.level, w)
      BY <1>1, <2>2 DEF FramesStand, LinkagesStand
    <3> QED
      BY <1>4, <3>1, <3>2, <3>3
  <2> QED
    BY <1>1, <1>2, <2>1, <2>2
<1>9. DisplaysStand(D)
  <2>1. C[n].display \in [Levels -> DisplayEntry]
    <3>1. C[n] \in Context
      BY <1>1, <1>2, ElementOfSeq
    <3> QED
      BY <3>1 DEF Context
  <2>2. /\ D[n + 1].frame.level \in Levels
        /\ D[n + 1].display =
             [C[n].display EXCEPT ![D[n + 1].frame.level] =
                [active |-> TRUE, bp |-> D[n + 1].frame.bp, slots |-> D[n + 1].frame.slots]]
    BY <1>4 DEF Entered
  <2>3. DisplaysStand(C)
    BY DEF FramesStand
  <2> QED
    BY <1>1, <2>1, <2>2, <2>3, DisplaysOnTop
<1>10. D[1].frame = NoFrame
  <2>1. 1 \in 1..n
    OBVIOUS
  <2> QED
    BY <1>1, <2>1 DEF FramesStand
<1> QED
  BY <1>1, <1>4, <1>6, <1>7, <1>8, <1>9, <1>10 DEF FramesStand

-----------------------------------------------------------------------------
(* What the invariant says of a state. *)

\* Where the operands of the running frame begin.
Floor == Base(Contexts, callDepth + 1)

LEMMA ContextsAreTyped ==
    ASSUME BalancedInvariant
    PROVE  /\ callDepth \in Nat
           /\ Contexts \in Seq(Context) /\ Len(Contexts) = callDepth + 1
           /\ Contexts[callDepth + 1] = [frame |-> frame, display |-> display, resume |-> pc]
           /\ \A j \in 1..callDepth : Contexts[j] = suspended[j]
           /\ frame.bp \in Nat /\ frame.slots \in Nat
           /\ Floor \in Nat
           /\ callDepth = 0 => Floor = 0
           /\ callDepth > 0 => Floor = frame.bp + frame.slots + 13
<1>1. callDepth \in Nat /\ frame \in FrameRecord /\ suspended \in Seq(Context)
      /\ Len(suspended) = callDepth /\ Contexts \in Seq(Context)
  BY StackMachineAssumption DEF BalancedInvariant, MachineInvariant, TypeOK, FramesStand
<1>2. frame.bp \in Nat /\ frame.slots \in Nat
  BY <1>1 DEF FrameRecord
<1> DEFINE top == [frame |-> frame, display |-> display, resume |-> pc]
<1> HIDE DEF top
<1>3. /\ Contexts = Append(suspended, top)
      /\ Len(Contexts) = callDepth + 1
      /\ Contexts[callDepth + 1] = top
      /\ \A j \in 1..callDepth : Contexts[j] = suspended[j]
  <2>1. suspended \in Seq(Context \cup {top}) /\ top \in Context \cup {top}
    BY <1>1, SeqMonotonic
  <2>2. Contexts = Append(suspended, top)
    BY DEF Contexts, top
  <2> QED
    BY <1>1, <2>1, <2>2, AppendProperties
<1>5. Floor \in Nat
  <2>1. callDepth + 1 \in 1..Len(Contexts)
    BY <1>1, <1>3
  <2> QED
    BY <1>1, <2>1, ContextIsTyped DEF Floor
<1>6. callDepth = 0 => Floor = 0
  BY DEF Floor, Base
<1>7. callDepth > 0 => Floor = frame.bp + frame.slots + 13
  <2>1. callDepth > 0 => callDepth + 1 # 1
    BY <1>1
  <2>2. Contexts[callDepth + 1].frame = frame
    BY <1>3 DEF top
  <2> QED
    BY <2>1, <2>2 DEF Floor, Base, OperandBase, LinkageWords
<1> QED
  BY <1>1, <1>2, <1>3, <1>5, <1>6, <1>7 DEF top

\* The line the machine is at, and the operands it has there.
LEMMA AtLine ==
    ASSUME BalancedInvariant, result # "false"
    PROVE  /\ pc \in DOMAIN Heights[prog]
           /\ Heights[prog] \in [DOMAIN Heights[prog] -> Nat]
           /\ DOMAIN Heights[prog] \subseteq 0..(Len(Code) - 1)
           /\ IsBalancedAt(Library[prog], Heights[prog], pc)
           /\ Len(stack) = Floor + Heights[prog][pc]
<1>1. prog \in DOMAIN Library
  BY DEF BalancedInvariant, MachineInvariant, TypeOK
<1>2. IsBalanced(Library[prog], Heights[prog])
  BY <1>1, BalancedAssumption
<1>3. pc \in DOMAIN Heights[prog] /\ Len(stack) = Floor + Heights[prog][pc]
  BY DEF BalancedInvariant, AtHeight, Floor
<1> QED
  BY <1>2, <1>3 DEF IsBalanced, Code

\* What no step writes lies below the operands of the running frame.
LEMMA HiddenLiesBelow ==
    ASSUME BalancedInvariant, NEW i \in (1..Len(stack)) \ Writable
    PROVE  i \in 1..Floor
<1>1. Len(stack) \in Nat
  BY LenProperties DEF BalancedInvariant, MachineInvariant, TypeOK
<1>2. callDepth > 0
  <2>1. callDepth # 0
    BY DEF Writable
  <2> QED
    BY <2>1, ContextsAreTyped
<1>3. i \notin (OperandBase(frame) + 1)..Len(stack)
  BY <1>2 DEF Writable
<1>4. PICK floor \in Nat : floor = Floor /\ floor = OperandBase(frame)
  BY <1>2, ContextsAreTyped DEF OperandBase, LinkageWords
<1> QED
  BY <1>1, <1>3, <1>4

\* A word above the slots of a frame and one below them are none of them.
LEMMA OutsideSlots ==
    ASSUME NEW C \in Seq(Context), FramesApart(C), NEW i \in 2..Len(C),
           NEW j \in 2..Len(C), NEW w \in 1..LinkageWords
    PROVE  C[j].frame.bp + C[j].frame.slots + w
             \notin (C[i].frame.bp + 1)..(C[i].frame.bp + C[i].frame.slots)
<1>1. Len(C) \in Nat /\ i \in 1..Len(C) /\ j \in 1..Len(C) /\ i # 1 /\ w \in 1..13
  BY LenProperties DEF LinkageWords
<1>2. PICK bp \in Nat, slots \in Nat : bp = C[j].frame.bp /\ slots = C[j].frame.slots
  BY <1>1, ContextIsTyped
<1>3. PICK at \in Nat, size \in Nat :
         /\ at = C[i].frame.bp /\ size = C[i].frame.slots /\ Base(C, i) = at + size + 13
  BY <1>1, ContextIsTyped
<1>4. CASE i = j
  <2>1. bp = at /\ slots = size
    BY <1>2, <1>3, <1>4
  <2>2. bp + slots + w \notin (bp + 1)..(bp + slots)
    BY <1>1
  <2> QED
    BY <1>2, <1>3, <2>1, <2>2
<1>5. CASE j < i
  <2>1. bp + slots + w \in 1..at
    BY <1>2, <1>3, <1>5, LinkagesLieBelow
  <2>2. bp + slots + w \notin (at + 1)..(at + size)
    BY <2>1
  <2> QED
    BY <1>2, <1>3, <2>2, Zenon
<1>6. CASE i < j
  <2>1. Base(C, i) <= C[j].frame.bp
    BY <1>6 DEF FramesApart
  <2>2. at + size + 13 <= bp
    BY <1>2, <1>3, <2>1
  <2>3. bp + slots + w \notin (at + 1)..(at + size)
    BY <1>1, <2>2
  <2> QED
    BY <1>2, <1>3, <2>3
<1> QED
  BY <1>1, <1>4, <1>5, <1>6

\* No linkage word is ever written.
LEMMA LinkagesAreHidden ==
    ASSUME BalancedInvariant, NEW j \in 2..Len(Contexts), NEW w \in 1..LinkageWords
    PROVE  Contexts[j].frame.bp + Contexts[j].frame.slots + w \in (1..Len(stack)) \ Writable
<1> DEFINE at == Contexts[j].frame.bp + Contexts[j].frame.slots + w
<1>1. /\ FramesApart(Contexts) /\ Contexts \in Seq(Context)
      /\ Floor <= Len(stack)
      /\ DisplaysStand(Contexts)
  BY ContextsAreTyped DEF BalancedInvariant, FramesStand, Floor
<1>2. PICK depth \in Nat : depth = callDepth /\ Len(Contexts) = depth + 1 /\ depth > 0
  <2>1. PICK depth \in Nat : depth = callDepth /\ Len(Contexts) = depth + 1
    BY ContextsAreTyped
  <2> QED
    BY <2>1
<1>3. at \in 1..Floor
  BY <1>1, <1>2, LinkagesLieBelow DEF Floor
<1>4. \A i \in 2..Len(Contexts) :
         at \notin (Contexts[i].frame.bp + 1)..(Contexts[i].frame.bp + Contexts[i].frame.slots)
  BY <1>1, OutsideSlots
<1> HIDE DEF at
<1>5. at \in 1..Len(stack)
  <2>1. Len(stack) \in Nat
    BY LenProperties DEF BalancedInvariant, MachineInvariant, TypeOK
  <2> QED
    BY <1>1, <1>3, <2>1, ContextsAreTyped
<1>6. at \notin (OperandBase(frame) + 1)..Len(stack)
  <2>1. PICK floor \in Nat : floor = Floor /\ floor = OperandBase(frame)
    BY <1>2, ContextsAreTyped DEF OperandBase, LinkageWords
  <2> QED
    BY <1>3, <2>1
<1>7. at \notin SlotsOf(frame)
  <2>1. callDepth + 1 \in 2..Len(Contexts)
    BY <1>2
  <2>2. Contexts[callDepth + 1].frame = frame
    BY ContextsAreTyped
  <2> QED
    BY <1>4, <2>1, <2>2 DEF SlotsOf
<1>8. ASSUME NEW level \in Levels, display[level].active
      PROVE  at \notin SlotsOf(display[level])
  <2>1. IsLatest(Contexts, callDepth + 1, level, display[level])
    <3>1. callDepth + 1 \in 1..Len(Contexts)
      BY <1>2
    <3>2. Contexts[callDepth + 1].display = display
      BY ContextsAreTyped
    <3> QED
      BY <1>1, <3>1, <3>2 DEF DisplaysStand
  <2>2. display[level] # NoEntry
    BY <1>8 DEF NoEntry
  <2>3. PICK i \in 2..(callDepth + 1) :
          display[level] = [active |-> TRUE, bp |-> Contexts[i].frame.bp,
                            slots |-> Contexts[i].frame.slots]
    BY <2>1, <2>2 DEF IsLatest
  <2>4. display[level].bp = Contexts[i].frame.bp /\ display[level].slots = Contexts[i].frame.slots
    BY <2>3
  <2>5. i \in 2..Len(Contexts)
    BY <1>2
  <2> QED
    BY <1>4, <2>4, <2>5 DEF SlotsOf
<1>9. at \notin Writable
  <2>1. callDepth # 0
    BY <1>2
  <2> QED
    BY <1>6, <1>7, <1>8, <2>1 DEF Writable
<1> QED
  BY <1>5, <1>9 DEF at

-----------------------------------------------------------------------------
(* The steps that stay in the running frame. *)

\* Of what the running frame must not touch, nothing changes.
HiddenStays ==
    \A i \in (1..Len(stack)) \ Writable : i <= Len(stack') /\ stack'[i] = stack[i]

\* A step that neither calls nor returns, and leaves a line of known height.
StaysBalanced ==
    /\ UNCHANGED <<prog, frame, display, callDepth, suspended>>
    /\ Floor <= Len(stack')
    /\ HiddenStays
    /\ error' \notin BalanceErrors
    /\ result' # "false" =>
          /\ pc' \in DOMAIN Heights[prog]
          /\ Len(stack') = Floor + Heights[prog][pc']
    /\ result' = "true" => stack' = <<>> /\ callDepth = 0
    /\ stopped' => Heights[prog][pc'] = 0 /\ result' # "false"

LEMMA StayingKeeps ==
    ASSUME BalancedInvariant, MachineInvariant', StaysBalanced
    PROVE  BalancedInvariant'
<1>1. /\ prog' = prog /\ frame' = frame /\ display' = display
      /\ callDepth' = callDepth /\ suspended' = suspended
  BY DEF StaysBalanced
<1>2. pc' \in Nat
  <2>1. Code' \in Seq(Instruction)
    BY LibraryAssumption DEF MachineInvariant, TypeOK, Code, IsInstructionList
  <2>2. Len(Code') \in Nat /\ pc' \in 0..Len(Code')
    BY <2>1, LenProperties DEF MachineInvariant, TypeOK
  <2> QED
    BY <2>2
<1> DEFINE top == [frame |-> frame, display |-> display, resume |-> pc']
<1>3. suspended \in Seq(Context) /\ Len(suspended) = callDepth
  BY DEF BalancedInvariant
<1>4. top \in Context
  <2>1. Contexts[callDepth + 1] \in Context
    BY ContextsAreTyped, ElementOfSeq
  <2>2. frame \in Registers /\ display \in [Levels -> DisplayEntry]
    BY <2>1, ContextsAreTyped DEF Context
  <2> QED
    BY <1>2, <2>2 DEF Context
<1>5. Contexts' = Append(suspended, top)
  BY <1>1 DEF Contexts
<1>6. top.frame = frame /\ top.display = display
  OBVIOUS
<1> HIDE DEF top
<1>7. PICK D : D = Contexts'
  OBVIOUS
<1>8. /\ D \in Seq(Context) /\ Len(D) = callDepth + 1
      /\ D[callDepth + 1] = top
      /\ \A j \in 1..callDepth : D[j] = suspended[j]
  BY <1>3, <1>4, <1>5, <1>7, AppendProperties
<1>9. PICK n \in Nat \ {0} : n = callDepth + 1 /\ n - 1 = callDepth /\ n = Len(Contexts)
  BY ContextsAreTyped
<1>10. \A j \in 1..(n - 1) : D[j] = Contexts[j]
  BY <1>8, <1>9, ContextsAreTyped
<1>11. D[n].frame = Contexts[n].frame /\ D[n].display = Contexts[n].display
  <2>1. Contexts[n].frame = frame /\ Contexts[n].display = display
    BY <1>9, ContextsAreTyped
  <2> QED
    BY <1>6, <1>8, <1>9, <2>1
<1>12. \A j \in 1..n : D[j].frame = Contexts[j].frame /\ D[j].display = Contexts[j].display
  <2>1. \A j \in 1..n : j \in 1..(n - 1) \/ j = n
    OBVIOUS
  <2> QED
    BY <1>10, <1>11, <2>1
<1>13. \A j \in 2..n : \A w \in 1..LinkageWords :
          stack'[Contexts[j].frame.bp + Contexts[j].frame.slots + w]
            = stack[Contexts[j].frame.bp + Contexts[j].frame.slots + w]
  BY <1>9, LinkagesAreHidden DEF StaysBalanced, HiddenStays
<1>14. FramesStand(Library[prog], Heights[prog], D, stack')
  <2>1. FramesStand(Library[prog], Heights[prog], Contexts, stack)
    BY DEF BalancedInvariant
  <2>2. Base(Contexts, Len(Contexts)) <= Len(stack')
    BY <1>9 DEF StaysBalanced, Floor
  <2>3. Len(Contexts) = n /\ n >= 1 /\ Len(D) = n
    BY <1>8, <1>9
  <2> QED
    BY <1>8, <1>10, <1>12, <1>13, <2>1, <2>2, <2>3, StayingStands
<1>15. Base(D, callDepth + 1) = Floor
  BY <1>9, <1>12 DEF Base, Floor
<1>16. FramesStand(Library[prog], Heights[prog], Contexts, stack)'
  BY <1>1, <1>7, <1>14
<1>17. AtHeight'
  BY <1>1, <1>7, <1>15 DEF AtHeight, StaysBalanced
<1>18. (stopped => Heights[prog][pc] = 0 /\ result # "false")'
  BY <1>1 DEF StaysBalanced
<1>19. EndsInBalance'
  BY <1>1 DEF EndsInBalance, StaysBalanced
<1>20. (suspended \in Seq(Context) /\ Len(suspended) = callDepth)'
  BY <1>1, <1>3
<1> QED
  BY <1>16, <1>17, <1>18, <1>19, <1>20 DEF BalancedInvariant

\* A stack that has all that lies below the operands of the running frame.
KeepsFloor(left) == Floor <= Len(left) /\ \A i \in 1..Floor : left[i] = stack[i]

LEMMA KeptFloorHides ==
    ASSUME BalancedInvariant, Len(stack') \in Nat, KeepsFloor(stack')
    PROVE  HiddenStays
<1> SUFFICES ASSUME NEW i \in (1..Len(stack)) \ Writable
             PROVE  i <= Len(stack') /\ stack'[i] = stack[i]
  BY DEF HiddenStays
<1>1. i \in 1..Floor
  BY HiddenLiesBelow
<1>2. PICK floor \in Nat : floor = Floor /\ floor <= Len(stack')
  BY ContextsAreTyped DEF KeepsFloor
<1> QED
  BY <1>1, <1>2 DEF KeepsFloor

\* In balanced code the operands an instruction takes are there.
LEMMA PoppingKeepsFloor ==
    ASSUME BalancedInvariant, result # "false",
           NEW n \in Nat, n <= Heights[prog][pc]
    PROVE  /\ n \in 0..Len(stack)
           /\ Below(n) \in Seq(Value)
           /\ Len(Below(n)) = Floor + Heights[prog][pc] - n
           /\ KeepsFloor(Below(n))
<1>1. PICK floor \in Nat, height \in Nat :
         /\ floor = Floor /\ height = Heights[prog][pc] /\ Len(stack) = floor + height
  BY AtLine, ContextsAreTyped
<1>2. stack \in Seq(Value)
  BY DEF BalancedInvariant, MachineInvariant, TypeOK
<1>3. n \in 0..Len(stack) /\ n <= height
  BY <1>1
<1>4. Below(n) \in Seq(Value) /\ Len(Below(n)) = Len(stack) - n
  BY <1>2, <1>3, PoppedIsTyped
<1>5. floor + height - n \in 0..Len(stack) /\ floor <= floor + height - n
  BY <1>1, <1>3
<1>6. \A i \in 1..(floor + height - n) : SubSeq(stack, 1, floor + height - n)[i] = stack[i]
  BY <1>2, <1>5, PrefixProperties
<1>7. Below(n) = SubSeq(stack, 1, floor + height - n)
  <2>1. Len(stack) - n = floor + height - n
    BY <1>1
  <2> QED
    BY <2>1, Zenon DEF Below
<1>8. \A i \in 1..floor : Below(n)[i] = stack[i]
  BY <1>3, <1>6, <1>7
<1>9. Len(Below(n)) = floor + height - n
  BY <1>1, <1>4
<1>10. KeepsFloor(Below(n))
  BY <1>1, <1>5, <1>8, <1>9 DEF KeepsFloor
<1> QED
  BY <1>1, <1>3, <1>4, <1>9, <1>10

LEMMA PushingKeepsFloor ==
    ASSUME BalancedInvariant, NEW left \in Seq(Value), KeepsFloor(left), NEW value \in Value
    PROVE  /\ KeepsFloor(Append(left, value))
           /\ Len(Append(left, value)) = Len(left) + 1
<1>1. PICK floor \in Nat, size \in Nat : floor = Floor /\ size = Len(left) /\ floor <= size
  BY ContextsAreTyped, LenProperties DEF KeepsFloor
<1>2. Len(Append(left, value)) = size + 1
      /\ \A i \in 1..size : Append(left, value)[i] = left[i]
  BY <1>1, AppendProperties
<1>3. \A i \in 1..floor : Append(left, value)[i] = stack[i]
  BY <1>1, <1>2 DEF KeepsFloor
<1> QED
  BY <1>1, <1>2, <1>3 DEF KeepsFloor

\* An instruction that fails without having touched what lies below its operands.
LEMMA FailingStays ==
    ASSUME BalancedInvariant, MachineInvariant', InLoop, Track,
           NEW kind, kind \notin BalanceErrors, NEW left, KeepsFloor(left),
           Fail(kind, left)
    PROVE  StaysBalanced
<1>1. /\ UNCHANGED <<prog, frame, display, callDepth>> /\ stack' = left
      /\ error' = kind /\ result' = "false" /\ stopped' = stopped
  BY DEF Fail
<1>2. suspended' = suspended
  BY <1>1, ContextsAreTyped DEF Track
<1>3. stopped' = FALSE
  BY <1>1 DEF InLoop, BalancedInvariant, MachineInvariant, TypeOK
<1>4. Floor <= Len(stack')
  BY <1>1 DEF KeepsFloor
<1>5. HiddenStays
  <2>1. Len(stack') \in Nat
    BY LenProperties DEF MachineInvariant, TypeOK
  <2> QED
    BY <1>1, <2>1, KeptFloorHides
<1> QED
  BY <1>1, <1>2, <1>3, <1>4, <1>5 DEF StaysBalanced

\* An instruction that goes on at a line of the height it leaves.
LEMMA GoingOnStays ==
    ASSUME BalancedInvariant, MachineInvariant', InLoop, Track,
           NEW at \in DOMAIN Heights[prog], NEW left, Floor <= Len(left), Continue(at, left),
           HiddenStays, Len(left) = Floor + Heights[prog][at]
    PROVE  StaysBalanced
<1>1. /\ UNCHANGED <<prog, frame, display, callDepth>> /\ stack' = left
      /\ error' = error /\ result' = result /\ stopped' = stopped /\ pc' = at
  BY DEF Continue
<1>2. suspended' = suspended
  BY <1>1, ContextsAreTyped DEF Track
<1>3. stopped' = FALSE /\ result' = "running"
  BY <1>1 DEF InLoop, BalancedInvariant, MachineInvariant, TypeOK
<1>4. error' \notin BalanceErrors
  BY <1>1 DEF BalancedInvariant, EndsInBalance
<1> QED
  BY <1>1, <1>2, <1>3, <1>4 DEF StaysBalanced

LEMMA KeepingStays ==
    ASSUME BalancedInvariant, MachineInvariant', InLoop, Track,
           NEW at \in DOMAIN Heights[prog], NEW left, KeepsFloor(left), Continue(at, left),
           Len(left) = Floor + Heights[prog][at]
    PROVE  StaysBalanced
<1>1. stack' = left
  BY DEF Continue
<1>2. Len(stack') \in Nat
  BY LenProperties DEF MachineInvariant, TypeOK
<1>3. HiddenStays
  BY <1>1, <1>2, KeptFloorHides
<1>4. Floor <= Len(left)
  BY DEF KeepsFloor
<1> QED
  BY <1>3, <1>4, GoingOnStays

LEMMA EffectOfInstruction ==
    ASSUME NEW i, NEW calls, NEW line
    PROVE  /\ i.opcode = "LIT" =>
                Pops(i, calls) = 0 /\ Pushes(i, calls) = 1 /\ Following(i, line) = {line + 1}
           /\ i.opcode = "INT" =>
                Pops(i, calls) = 0 /\ Pushes(i, calls) = 0 /\ Following(i, line) = {line + 1}
           /\ i.opcode \in {"LOD", "RLOD"} =>
                /\ Pops(i, calls) = IF i.level = 1 THEN 1 ELSE 0
                /\ Pushes(i, calls) = 1 /\ Following(i, line) = {line + 1}
           /\ i.opcode = "STO" =>
                /\ Pops(i, calls) = IF i.level = 1 THEN 2 ELSE 1
                /\ Pushes(i, calls) = 0 /\ Following(i, line) = {line + 1}
           /\ i.opcode = "JMP" =>
                Pops(i, calls) = 0 /\ Pushes(i, calls) = 0 /\ Following(i, line) = {i.operand}
           /\ i.opcode = "JPC" =>
                /\ Pops(i, calls) = 1 /\ Pushes(i, calls) = 0
                /\ Following(i, line) = {i.operand, line + 1}
           /\ i.opcode = "CAL" =>
                /\ Pops(i, calls) = calls[i.operand].parameterSlotCount
                /\ Pushes(i, calls) = IF Returns(calls[i.operand])
                                      THEN calls[i.operand].returnSlotCount ELSE 0
                /\ Following(i, line) = {line + 1}
<1>1. i.opcode = "LIT" =>
        Pops(i, calls) = 0 /\ Pushes(i, calls) = 1 /\ Following(i, line) = {line + 1}
  BY DEF Pops, Pushes, Following
<1>2. i.opcode = "INT" =>
        Pops(i, calls) = 0 /\ Pushes(i, calls) = 0 /\ Following(i, line) = {line + 1}
  BY DEF Pops, Pushes, Following
<1>3. i.opcode \in {"LOD", "RLOD"} =>
        /\ Pops(i, calls) = IF i.level = 1 THEN 1 ELSE 0
        /\ Pushes(i, calls) = 1 /\ Following(i, line) = {line + 1}
  BY DEF Pops, Pushes, Following
<1>4. i.opcode = "STO" =>
        /\ Pops(i, calls) = IF i.level = 1 THEN 2 ELSE 1
        /\ Pushes(i, calls) = 0 /\ Following(i, line) = {line + 1}
  BY DEF Pops, Pushes, Following
<1>5. i.opcode = "JMP" =>
        Pops(i, calls) = 0 /\ Pushes(i, calls) = 0 /\ Following(i, line) = {i.operand}
  BY DEF Pops, Pushes, Following
<1>6. i.opcode = "JPC" =>
        /\ Pops(i, calls) = 1 /\ Pushes(i, calls) = 0
        /\ Following(i, line) = {i.operand, line + 1}
  BY DEF Pops, Pushes, Following
<1>7. i.opcode = "CAL" =>
        /\ Pops(i, calls) = calls[i.operand].parameterSlotCount
        /\ Pushes(i, calls) = IF Returns(calls[i.operand])
                              THEN calls[i.operand].returnSlotCount ELSE 0
        /\ Following(i, line) = {line + 1}
  BY DEF Pops, Pushes, Following
<1> QED
  BY <1>1, <1>2, <1>3, <1>4, <1>5, <1>6, <1>7

LEMMA EffectOfOperation ==
    ASSUME NEW i, i.opcode = "OPR", NEW calls, NEW line
    PROVE  /\ i.operand \in ValueCodes =>
                /\ Pops(i, calls) = Arity(i.operand)
                /\ Pushes(i, calls) = 1 /\ Following(i, line) = {line + 1}
           /\ i.operand \in Reports => Pops(i, calls) = 3
           /\ i.operand \in Writes \cup {OPR_POP} =>
                Pops(i, calls) = 1 /\ Pushes(i, calls) = 0 /\ Following(i, line) = {line + 1}
<1>1. CASE i.operand \in ValueCodes
  <2>1. i.operand \notin Reports \cup Writes \cup {OPR_POP}
    BY <1>1 DEF ValueCodes, UnaryCodes, ArithmeticCodes, ComparisonCodes, Reports, Writes,
       OPR_NEG, OPR_TO_REAL, OPR_TO_CHAR, OPR_ADD, OPR_SUB, OPR_MUL, OPR_DIV, OPR_RDIV,
       OPR_MOD, OPR_EQL, OPR_NEQ, OPR_LSS, OPR_GEQ, OPR_GTR, OPR_LEQ, OPR_WRT, OPR_WRTLN,
       OPR_INDEX_ERROR, OPR_RANGE_ERROR, OPR_POP
  <2> QED
    BY <1>1, <2>1 DEF Pops, Pushes, Following
<1>2. CASE i.operand \in Reports \cup Writes \cup {OPR_POP}
  <2>1. i.operand \notin ValueCodes
    BY <1>2 DEF ValueCodes, UnaryCodes, ArithmeticCodes, ComparisonCodes, Reports, Writes,
       OPR_NEG, OPR_TO_REAL, OPR_TO_CHAR, OPR_ADD, OPR_SUB, OPR_MUL, OPR_DIV, OPR_RDIV,
       OPR_MOD, OPR_EQL, OPR_NEQ, OPR_LSS, OPR_GEQ, OPR_GTR, OPR_LEQ, OPR_WRT, OPR_WRTLN,
       OPR_INDEX_ERROR, OPR_RANGE_ERROR, OPR_POP
  <2>2. i.operand \in Writes \cup {OPR_POP} => i.operand \notin Reports
    BY DEF Reports, Writes, OPR_WRT, OPR_WRTLN, OPR_INDEX_ERROR, OPR_RANGE_ERROR, OPR_POP
  <2> QED
    BY <1>2, <2>1, <2>2 DEF Pops, Pushes, Following
<1> QED
  BY <1>1, <1>2

\* The instruction under the program counter, of balanced code.
LEMMA AtBalancedLine ==
    ASSUME BalancedInvariant, InLoop
    PROVE  /\ result # "false" /\ ~stopped /\ MachineInvariant
           /\ Fetched.opcode = "CAL" =>
                 /\ Fetched.operand \in DOMAIN Calls /\ IsLayout(Calls[Fetched.operand])
                 /\ Fetched.operand \in DOMAIN Heights[prog]
                 /\ Heights[prog][Fetched.operand] = 0
           /\ Fetched.opcode = "RET" => Heights[prog][pc] = 0
           /\ Fetched.opcode = "OPR" => Fetched.operand \in 1..20
           /\ Heights[prog][pc] \in Nat
           /\ Pops(Fetched, Calls) <= Heights[prog][pc]
           /\ \A next \in Following(Fetched, pc) :
                 /\ next \in DOMAIN Heights[prog]
                 /\ Heights[prog][next]
                      = Heights[prog][pc] - Pops(Fetched, Calls) + Pushes(Fetched, Calls)
<1>1. result # "false" /\ ~stopped /\ MachineInvariant
  BY DEF InLoop, BalancedInvariant
<1>2. IsBalancedAt(Library[prog], Heights[prog], pc) /\ Heights[prog][pc] \in Nat
  BY <1>1, AtLine
<1> QED
  BY <1>1, <1>2 DEF IsBalancedAt, Fetched, Code, Calls

LEMMA StackKeepsFloor ==
    ASSUME BalancedInvariant, result # "false"
    PROVE  KeepsFloor(stack) /\ stack \in Seq(Value)
<1>1. PICK floor \in Nat, height \in Nat :
         /\ floor = Floor /\ height = Heights[prog][pc] /\ Len(stack) = floor + height
  BY AtLine, ContextsAreTyped
<1>2. Floor <= Len(stack)
  BY <1>1
<1> QED
  BY <1>2 DEF KeepsFloor, BalancedInvariant, MachineInvariant, TypeOK

\* In balanced code nothing underflows.
LEMMA NothingUnderflows ==
    ASSUME BalancedInvariant, result # "false",
           NEW n \in Nat, n <= Heights[prog][pc]
    PROVE  ~Underflow(n) /\ Len(stack) >= n
<1>1. n \in 0..Len(stack)
  BY PoppingKeepsFloor
<1>2. PICK size \in Nat : size = Len(stack)
  BY LenProperties DEF BalancedInvariant, MachineInvariant, TypeOK
<1>3. size >= n /\ ~(size < n)
  BY <1>1, <1>2
<1> QED
  BY <1>2, <1>3 DEF Underflow

LEMMA PushingStays ==
    ASSUME BalancedInvariant, MachineInvariant', InLoop, Track,
           NEW left \in Seq(Value), KeepsFloor(left), NEW value \in Value,
           pc + 1 \in DOMAIN Heights[prog],
           Len(left) + 1 = Floor + Heights[prog][pc + 1],
           PushAndNext(left, value)
    PROVE  StaysBalanced
<1>1. CASE Fail("Stack Overflow", left)
  <2>1. "Stack Overflow" \notin BalanceErrors
    BY DEF BalanceErrors
  <2> QED
    BY <1>1, <2>1, FailingStays
<1>2. CASE Continue(pc + 1, Append(left, value))
  <2>1. KeepsFloor(Append(left, value)) /\ Len(Append(left, value)) = Len(left) + 1
    BY PushingKeepsFloor
  <2> QED
    BY <1>2, <2>1, KeepingStays
<1> QED
  BY <1>1, <1>2 DEF PushAndNext

LEMMA JumpingStays ==
    ASSUME BalancedInvariant, MachineInvariant', InLoop, Track,
           NEW target \in DOMAIN Heights[prog], NEW left, KeepsFloor(left),
           Len(left) = Floor + Heights[prog][target],
           JumpTo(target, left)
    PROVE  StaysBalanced
<1>1. IsTarget(target)
  BY AtLine, AtBalancedLine DEF IsTarget
<1> QED
  BY <1>1, KeepingStays DEF JumpTo

LEMMA ReplacingStays ==
    ASSUME BalancedInvariant, MachineInvariant', InLoop, Track,
           NEW n \in Nat, n <= Heights[prog][pc], NEW outcome, Sound(outcome),
           pc + 1 \in DOMAIN Heights[prog],
           Heights[prog][pc + 1] = Heights[prog][pc] - n + 1,
           Replace(n, outcome)
    PROVE  StaysBalanced
<1>1. result # "false" /\ Heights[prog][pc] \in Nat /\ Floor \in Nat
  BY AtBalancedLine, ContextsAreTyped
<1>2. /\ Below(n) \in Seq(Value) /\ KeepsFloor(Below(n))
      /\ Len(Below(n)) = Floor + Heights[prog][pc] - n
  BY <1>1, PoppingKeepsFloor
<1>3. CASE outcome.error # NoError /\ Fail(outcome.error, Below(n))
  <2>1. outcome.error \in OperationErrors
    BY <1>3 DEF Sound, NoError
  <2>2. outcome.error \notin BalanceErrors
    BY <2>1 DEF OperationErrors, BalanceErrors
  <2> QED
    BY <1>2, <1>3, <2>2, FailingStays
<1>4. CASE outcome.error = NoError /\ Continue(pc + 1, Append(Below(n), outcome.value))
  <2>1. outcome.value \in Value
    BY <1>4 DEF Sound
  <2>2. /\ KeepsFloor(Append(Below(n), outcome.value))
        /\ Len(Append(Below(n), outcome.value)) = Len(Below(n)) + 1
    BY <1>2, <2>1, PushingKeepsFloor
  <2>3. Len(Append(Below(n), outcome.value)) = Floor + Heights[prog][pc + 1]
    BY <1>1, <1>2, <2>2
  <2> QED
    BY <1>4, <2>2, <2>3, KeepingStays
<1>5. ~Underflow(n)
  BY <1>1, NothingUnderflows
<1> QED
  BY <1>3, <1>4, <1>5 DEF Replace

-----------------------------------------------------------------------------
(* One lemma per instruction that stays in its frame. *)

LEMMA IntStays ==
    ASSUME BalancedInvariant, MachineInvariant', Int_, Track
    PROVE  StaysBalanced
<1>1. InLoop /\ Fetched.opcode = "INT"
  BY DEF Int_, Executing
<1>2. /\ pc + 1 \in DOMAIN Heights[prog] /\ result # "false"
      /\ Heights[prog][pc + 1] = Heights[prog][pc] /\ Heights[prog][pc] \in Nat
  BY <1>1, AtBalancedLine, EffectOfInstruction
<1>3. CASE Fail("INT memory allocation failed", stack)
  <2>1. "INT memory allocation failed" \notin BalanceErrors
    BY DEF BalanceErrors
  <2> QED
    BY <1>1, <1>2, <1>3, <2>1, StackKeepsFloor, FailingStays
<1>4. CASE Continue(pc + 1, stack)
  BY <1>1, <1>2, <1>4, AtLine, StackKeepsFloor, KeepingStays
<1> QED
  BY <1>3, <1>4 DEF Int_

\* A literal that is in range is a value.
LEMMA LiteralIsTyped ==
    ASSUME BalancedInvariant, InLoop, LiteralError = NoError, Fetched.opcode = "LIT"
    PROVE  Fetched.literal \in Value
<1>1. Fetched.literal \in LiteralValue
  BY AtInstruction, AtBalancedLine DEF Instruction
<1>2. CASE Fetched.literal \in [type : {"integer"}, v : Int]
  <2>1. PICK n \in Int : Fetched.literal = Integer(n)
    BY <1>2 DEF Integer
  <2>2. RangeError(n) = NoError
    BY <2>1 DEF LiteralError, Integer
  <2> QED
    BY <2>1, <2>2, RangeErrorIsRange, ValuesAreValues
<1> QED
  BY <1>1, <1>2 DEF LiteralValue

LEMMA LiteralStays ==
    ASSUME BalancedInvariant, MachineInvariant', Literal, Track
    PROVE  StaysBalanced
<1>1. InLoop /\ Fetched.opcode = "LIT"
  BY DEF Literal, Executing
<1>2. /\ pc + 1 \in DOMAIN Heights[prog] /\ result # "false"
      /\ Heights[prog][pc + 1] = Heights[prog][pc] + 1 /\ Heights[prog][pc] \in Nat
  BY <1>1, AtBalancedLine, EffectOfInstruction
<1>3. KeepsFloor(stack) /\ stack \in Seq(Value)
  BY <1>2, StackKeepsFloor
<1>4. CASE LiteralError # NoError /\ Fail(LiteralError, stack)
  <2>1. LiteralError \in {"Numerical Overflow", "Numerical Underflow"}
    BY <1>4 DEF LiteralError, RangeError, NoError
  <2>2. LiteralError \notin BalanceErrors
    BY <2>1 DEF BalanceErrors
  <2> QED
    BY <1>1, <1>3, <1>4, <2>2, FailingStays
<1>5. CASE LiteralError = NoError /\ PushAndNext(stack, Fetched.literal)
  <2>1. Len(stack) + 1 = Floor + Heights[prog][pc + 1]
    <3>1. PICK floor \in Nat, height \in Nat :
            /\ floor = Floor /\ height = Heights[prog][pc]
            /\ Len(stack) = floor + height /\ Heights[prog][pc + 1] = height + 1
      BY <1>2, AtLine, ContextsAreTyped
    <3> QED
      BY <3>1
  <2>2. Fetched.literal \in Value
    BY <1>1, <1>5, LiteralIsTyped
  <2> QED
    BY <1>1, <1>2, <1>3, <1>5, <2>1, <2>2, PushingStays
<1> QED
  BY <1>4, <1>5 DEF Literal

LEMMA JumpStays ==
    ASSUME BalancedInvariant, MachineInvariant', Jump, Track
    PROVE  StaysBalanced
<1>1. InLoop /\ Fetched.opcode = "JMP" /\ JumpTo(Fetched.operand, stack)
  BY DEF Jump, Executing
<1>2. /\ Fetched.operand \in DOMAIN Heights[prog] /\ result # "false"
      /\ Heights[prog][Fetched.operand] = Heights[prog][pc] /\ Heights[prog][pc] \in Nat
  BY <1>1, AtBalancedLine, EffectOfInstruction
<1> QED
  BY <1>1, <1>2, AtLine, StackKeepsFloor, JumpingStays

LEMMA JumpIfZeroStays ==
    ASSUME BalancedInvariant, MachineInvariant', JumpIfZero, Track
    PROVE  StaysBalanced
<1>1. InLoop /\ Fetched.opcode = "JPC"
  BY DEF JumpIfZero, Executing
<1>2. Pops(Fetched, Calls) = 1 /\ Pushes(Fetched, Calls) = 0
      /\ Following(Fetched, pc) = {Fetched.operand, pc + 1}
  BY <1>1, EffectOfInstruction
<1>3. /\ result # "false" /\ Heights[prog][pc] \in Nat /\ 1 <= Heights[prog][pc]
      /\ \A next \in {Fetched.operand, pc + 1} :
            next \in DOMAIN Heights[prog] /\ Heights[prog][next] = Heights[prog][pc] - 1
  BY <1>1, <1>2, AtBalancedLine
<1>4. KeepsFloor(Below(1)) /\ Len(Below(1)) = Floor + Heights[prog][pc] - 1
  BY <1>3, PoppingKeepsFloor
<1>5. ~Underflow(1) /\ Floor \in Nat
  BY <1>3, NothingUnderflows, ContextsAreTyped
<1>6. \A next \in {Fetched.operand, pc + 1} : Len(Below(1)) = Floor + Heights[prog][next]
  BY <1>3, <1>4, <1>5
<1>7. CASE JumpTo(Fetched.operand, Below(1))
  BY <1>1, <1>3, <1>4, <1>6, <1>7, JumpingStays
<1>8. CASE Continue(pc + 1, Below(1))
  BY <1>1, <1>3, <1>4, <1>6, <1>8, KeepingStays
<1> QED
  BY <1>5, <1>7, <1>8 DEF JumpIfZero

LEMMA OperateStays ==
    ASSUME BalancedInvariant, MachineInvariant', NEW codes \in SUBSET ValueCodes,
           Operate(codes), Track
    PROVE  StaysBalanced
<1>1. InLoop /\ Fetched.opcode = "OPR" /\ Fetched.operand \in ValueCodes
  BY DEF Operate, Operating, Executing
<1> DEFINE n        == Arity(Fetched.operand)
           operands == [i \in 1..n |-> Operand(n, i)]
           outcome  == Outcome(Fetched.operand, operands)
<1>2. Pops(Fetched, Calls) = n /\ Pushes(Fetched, Calls) = 1
      /\ Following(Fetched, pc) = {pc + 1}
  BY <1>1, EffectOfOperation
<1>3. n \in {1, 2}
  BY DEF Arity
<1>4. Replace(n, outcome)
  BY DEF Operate
<1> HIDE DEF n
<1>5. /\ result # "false" /\ n <= Heights[prog][pc] /\ pc + 1 \in DOMAIN Heights[prog]
      /\ Heights[prog][pc + 1] = Heights[prog][pc] - n + 1
  BY <1>1, <1>2, AtBalancedLine
<1>6. Sound(outcome)
  <2>1. n \in 0..Len(stack)
    BY <1>3, <1>5, PoppingKeepsFloor
  <2>2. operands \in [1..n -> Value]
    BY <2>1, PoppedIsTyped DEF BalancedInvariant, MachineInvariant, TypeOK
  <2> QED
    BY <1>1, <2>2, OutcomeIsSound DEF n
<1> HIDE DEF outcome
<1> QED
  BY <1>1, <1>3, <1>4, <1>5, <1>6, ReplacingStays

\* An operation that takes one operand and leaves none.
LEMMA TakingStays ==
    ASSUME BalancedInvariant, MachineInvariant', InLoop, Track,
           Fetched.opcode = "OPR", Fetched.operand \in Writes \cup {OPR_POP}
    PROVE  /\ ~Underflow(1) /\ KeepsFloor(Below(1))
           /\ Continue(pc + 1, Below(1)) => StaysBalanced
<1>1. Pops(Fetched, Calls) = 1 /\ Pushes(Fetched, Calls) = 0
      /\ Following(Fetched, pc) = {pc + 1}
  BY EffectOfOperation
<1>2. /\ result # "false" /\ Heights[prog][pc] \in Nat /\ 1 <= Heights[prog][pc]
      /\ pc + 1 \in DOMAIN Heights[prog] /\ Heights[prog][pc + 1] = Heights[prog][pc] - 1
  BY <1>1, AtBalancedLine
<1>3. KeepsFloor(Below(1)) /\ Len(Below(1)) = Floor + Heights[prog][pc] - 1
  BY <1>2, PoppingKeepsFloor
<1>4. ~Underflow(1) /\ Floor \in Nat
  BY <1>2, NothingUnderflows, ContextsAreTyped
<1>5. Len(Below(1)) = Floor + Heights[prog][pc + 1]
  BY <1>2, <1>3, <1>4
<1> QED
  BY <1>2, <1>3, <1>4, <1>5, KeepingStays

LEMMA WriteStays ==
    ASSUME BalancedInvariant, MachineInvariant', Write, Track
    PROVE  StaysBalanced
<1>1. InLoop /\ Fetched.opcode = "OPR" /\ Fetched.operand \in Writes \cup {OPR_POP}
  BY DEF Write, Operating, Executing, Writes
<1>2. "Uninitialized value cannot be written" \notin BalanceErrors
  BY DEF BalanceErrors
<1> QED
  BY <1>1, <1>2, TakingStays, FailingStays DEF Write

LEMMA DiscardStays ==
    ASSUME BalancedInvariant, MachineInvariant', Discard, Track
    PROVE  StaysBalanced
<1>1. InLoop /\ Fetched.opcode = "OPR" /\ Fetched.operand \in Writes \cup {OPR_POP}
  BY DEF Discard, Operating, Executing
<1> QED
  BY <1>1, TakingStays DEF Discard

LEMMA ReportRangeStays ==
    ASSUME BalancedInvariant, MachineInvariant', ReportRange, Track
    PROVE  StaysBalanced
<1>1. InLoop /\ Fetched.opcode = "OPR" /\ Fetched.operand \in Reports
  BY DEF ReportRange, Operating, Executing, Reports
<1>2. result # "false" /\ 3 <= Heights[prog][pc]
  BY <1>1, AtBalancedLine, EffectOfOperation
<1>3. KeepsFloor(Below(3)) /\ ~Underflow(3)
  BY <1>2, PoppingKeepsFloor, NothingUnderflows
<1>4. PICK exception \in {"IndexOutOfBoundsException", "RangeCheckException"} :
        Fail(RangeReport(exception, [i \in 1..3 |-> Operand(3, i)]).error, Below(3))
  BY <1>3 DEF ReportRange
<1> DEFINE kind == RangeReport(exception, [i \in 1..3 |-> Operand(3, i)]).error
<1>5. kind \in {"IndexOutOfBoundsException", "RangeCheckException",
                "range operands must be numeric"}
  BY DEF RangeReport, Refuse
<1> HIDE DEF kind
<1>6. kind \notin BalanceErrors
  BY <1>5 DEF BalanceErrors
<1> QED
  BY <1>1, <1>3, <1>4, <1>6, FailingStays DEF kind

\* Balanced code has the operations the executor knows.
LEMMA NoInvalidOperation ==
    ASSUME BalancedInvariant, InvalidOperation
    PROVE  FALSE
BY AtBalancedLine DEF InvalidOperation, Executing

\* The loop is left by the RET of the main program only.
LEMMA LeaveStays ==
    ASSUME BalancedInvariant, MachineInvariant', Leave, Track
    PROVE  StaysBalanced
<1>1. result = "running" /\ ~InLoop
  BY DEF Leave
<1>2. stopped
  <2>1. pc < Len(Code)
    <3>1. pc \in 0..(Len(Code) - 1)
      BY <1>1, AtLine
    <3>2. Len(Code) \in Nat
      <4>1. Code \in Seq(Instruction)
        BY LibraryAssumption DEF BalancedInvariant, MachineInvariant, TypeOK, Code,
                                 IsInstructionList
      <4> QED
        BY <4>1, LenProperties
    <3> QED
      BY <3>1, <3>2
  <2> QED
    BY <1>1, <2>1 DEF InLoop, BalancedInvariant, MachineInvariant, TypeOK
<1>3. callDepth = 0 /\ Heights[prog][pc] = 0
  BY <1>2 DEF BalancedInvariant, MachineInvariant, EndsInMain
<1>4. /\ Len(stack) = 0 /\ Floor = 0 /\ pc \in DOMAIN Heights[prog]
  BY <1>1, <1>3, AtLine, ContextsAreTyped
<1>5. stack = <<>>
  BY <1>4, EmptySeq DEF BalancedInvariant, MachineInvariant, TypeOK
<1>6. /\ result' = "true"
      /\ UNCHANGED <<prog, pc, stack, memory, frame, display, callDepth,
                     output, stopped, error>>
  BY <1>2 DEF Leave
<1>7. suspended' = suspended
  BY <1>6, ContextsAreTyped DEF Track
<1>8. HiddenStays
  <2>1. \A i \in 1..Len(stack) : i <= Len(stack)
    BY <1>4
  <2> QED
    BY <1>6, <2>1 DEF HiddenStays
<1>9. error' \notin BalanceErrors
  BY <1>6 DEF BalancedInvariant, EndsInBalance
<1> QED
  BY <1>3, <1>4, <1>5, <1>6, <1>7, <1>8, <1>9 DEF StaysBalanced

-----------------------------------------------------------------------------
(* Loads and stores. *)

\* A slot found in a frame is one of those the running code may write.
LEMMA FrameSlotIsWritable ==
    ASSUME NEW held, held.bp \in Nat, held.slots \in Nat, NEW left, NEW offset \in Nat,
           FramePlace(held, left, offset).area = "stack"
    PROVE  /\ held.active
           /\ FramePlace(held, left, offset).at \in (held.bp + 1)..(held.bp + held.slots)
<1>1. held.active /\ offset < held.slots /\ held.bp + offset < Len(left)
  BY DEF FramePlace, NoPlace
<1>2. FramePlace(held, left, offset).at = held.bp + offset + 1
  BY <1>1 DEF FramePlace, Place
<1>3. PICK bp \in Nat, slots \in Nat : bp = held.bp /\ slots = held.slots /\ offset < slots
  BY <1>1
<1>4. bp + offset + 1 \in (bp + 1)..(bp + slots)
  BY <1>3
<1> QED
  BY <1>1, <1>2, <1>3, <1>4

LEMMA LevelSlotIsWritable ==
    ASSUME TypeOK, NEW level, NEW left, NEW offset \in Nat,
           LevelPlace(level, left, offset).area = "stack"
    PROVE  LevelPlace(level, left, offset).at \in Writable
<1>1. level \in Levels
  BY DEF LevelPlace, NoPlace
<1>2. LevelPlace(level, left, offset) = FramePlace(display[level], left, offset)
  BY <1>1 DEF LevelPlace
<1>3. display[level].bp \in Nat /\ display[level].slots \in Nat
  BY <1>1 DEF TypeOK, DisplayEntry
<1>4. /\ display[level].active
      /\ LevelPlace(level, left, offset).at \in SlotsOf(display[level])
  BY <1>2, <1>3, FrameSlotIsWritable DEF SlotsOf
<1> QED
  BY <1>1, <1>4 DEF Writable

LEMMA StackPlaceIsWritable ==
    ASSUME TypeOK, NEW level \in Int, NEW operand \in Int, NEW address \in Int, NEW left,
           PlaceOf(level, operand, address, left).area = "stack"
    PROVE  PlaceOf(level, operand, address, left).at \in Writable
<1>0. /\ \A n : MemoryPlace(n).area # "stack"
      /\ \A kind : NoPlace(kind).area # "stack"
  BY DEF MemoryPlace, Place, NoPlace
<1>1. CASE level >= 2
  <2>1. PlaceOf(level, operand, address, left) =
          IF operand < 0 THEN NoPlace(Silent) ELSE LevelPlace(level - 1, left, operand)
    <3>1. level # 1 /\ level # 0 /\ ~(level < 0)
      BY <1>1
    <3> QED
      BY <1>1, <3>1, Zenon DEF PlaceOf
  <2>2. ~(operand < 0)
    BY <2>1 DEF NoPlace
  <2>3. operand \in Nat
    BY <2>2
  <2> QED
    BY <2>1, <2>2, <2>3, LevelSlotIsWritable
<1>2. CASE level = 1
  <2>1. PlaceOf(level, operand, address, left) = AddressedPlace(address, left)
    BY <1>2 DEF PlaceOf
  <2>2. IsFrameAddress(address)
    <3>1. ~IsFrameAddress(address) => AddressedPlace(address, left) = MemoryPlace(address)
      BY DEF AddressedPlace
    <3> QED
      BY <1>0, <2>1, <3>1
  <2>3. CASE FrameBase <= address
    <3>1. DecodedLevel(address) = RunningFrame
      BY <2>3 DEF DecodedLevel
    <3>2. DecodedOffset(address) \in Nat
      BY <2>3, FrameAddressAssumption DEF DecodedOffset
    <3> DEFINE held == [active |-> callDepth > 0, bp |-> frame.bp, slots |-> frame.slots]
    <3>3. held.bp = frame.bp /\ held.slots = frame.slots
      OBVIOUS
    <3>4. held.bp \in Nat /\ held.slots \in Nat
      BY DEF TypeOK, FrameRecord
    <3>5. AddressedPlace(address, left) = FramePlace(held, left, DecodedOffset(address))
      BY <2>2, <3>1 DEF AddressedPlace, RunningPlace
    <3> HIDE DEF held
    <3>6. AddressedPlace(address, left).at \in SlotsOf(frame)
      BY <2>1, <3>2, <3>3, <3>4, <3>5, FrameSlotIsWritable DEF SlotsOf
    <3> QED
      BY <2>1, <3>6 DEF Writable
  <2>4. CASE address < FrameBase
    <3>1. /\ DecodedLevel(address) \in Levels
          /\ DecodedOffset(address) \in 0..(LevelStride - 1)
      BY <2>2, <2>4, DecodingIsSound
    <3>2. DecodedLevel(address) # RunningFrame /\ DecodedOffset(address) \in Nat
      BY <3>1, FrameAddressAssumption DEF Levels, RunningFrame
    <3>3. AddressedPlace(address, left)
            = LevelPlace(DecodedLevel(address), left, DecodedOffset(address))
      BY <2>2, <3>2 DEF AddressedPlace
    <3> QED
      BY <2>1, <3>2, <3>3, LevelSlotIsWritable
  <2> QED
    BY <2>3, <2>4, FrameAddressAssumption
<1>3. CASE level = 0
  <2>1. PlaceOf(level, operand, address, left) = MemoryPlace(operand)
    BY <1>3 DEF PlaceOf
  <2> QED
    BY <1>0, <2>1
<1>4. CASE level < 0
  <2>1. PlaceOf(level, operand, address, left) = NoPlace("Invalid addressing mode")
    <3>1. level # 1 /\ level # 0 /\ ~(level >= 2)
      BY <1>4
    <3> QED
      BY <1>4, <3>1, Zenon DEF PlaceOf
  <2> QED
    BY <1>0, <2>1
<1> QED
  BY <1>1, <1>2, <1>3, <1>4

LEMMA AddressErrorsAreNoBalanceErrors ==
    ASSUME NEW kind \in AccessErrors \cup {Silent}
    PROVE  kind \notin BalanceErrors
BY DEF AccessErrors, Silent, BalanceErrors

\* The place an access finds, once it has popped what it needs.
LEMMA FoundPlaceIsSound ==
    ASSUME MachineInvariant, InLoop, AddressError = NoError,
           NEW pops \in Nat, pops <= Len(stack), Indirect => pops > 0
    PROVE  LET place == PlaceOf(Fetched.level, Fetched.operand, PoppedAddress, Below(pops))
           IN  /\ SoundPlace(place, Below(pops))
               /\ place.area = "stack" => place.at \in Writable
<1>1. pops \in 0..Len(stack) /\ (Indirect => stack # <<>>)
  BY AtInstruction, EmptySeq
<1>2. Below(pops) \in Seq(Value)
  BY <1>1, AtInstruction, PoppedIsTyped
<1>3. PoppedAddress \in Int /\ Fetched.level \in Int /\ Fetched.operand \in Int
  BY <1>1, AtInstruction, PoppedAddressIsTyped DEF Instruction
<1> QED
  BY <1>2, <1>3, AtInstruction, PlaceIsSound, StackPlaceIsWritable

LEMMA LoadStays ==
    ASSUME BalancedInvariant, MachineInvariant', Load, Track
    PROVE  StaysBalanced
<1>1. InLoop /\ Fetched.opcode \in {"LOD", "RLOD"}
  BY DEF Load, Executing
<1>2. PICK pops \in {0, 1} : pops = IF Indirect THEN 1 ELSE 0
  OBVIOUS
<1>3. Pops(Fetched, Calls) = pops /\ Pushes(Fetched, Calls) = 1
      /\ Following(Fetched, pc) = {pc + 1}
  BY <1>1, <1>2, EffectOfInstruction DEF Indirect
<1>4. /\ result # "false" /\ Heights[prog][pc] \in Nat /\ pops <= Heights[prog][pc]
      /\ pc + 1 \in DOMAIN Heights[prog]
      /\ Heights[prog][pc + 1] = Heights[prog][pc] - pops + 1
      /\ MachineInvariant
  BY <1>1, <1>3, AtBalancedLine
<1> DEFINE left  == Below(pops)
           place == PlaceOf(Fetched.level, Fetched.operand, PoppedAddress, left)
<1>5. /\ left \in Seq(Value) /\ KeepsFloor(left) /\ Len(stack) >= pops /\ ~Underflow(pops)
      /\ pops \in 0..Len(stack) /\ Len(left) = Floor + Heights[prog][pc] - pops
  BY <1>4, PoppingKeepsFloor, NothingUnderflows
<1>6. ASSUME AddressError = NoError PROVE SoundPlace(place, left)
  BY <1>1, <1>2, <1>4, <1>5, <1>6, FoundPlaceIsSound
<1>7. Len(left) + 1 = Floor + Heights[prog][pc + 1]
  <2>1. PICK floor \in Nat, height \in Nat : floor = Floor /\ height = Heights[prog][pc]
    BY <1>4, ContextsAreTyped
  <2> QED
    BY <1>2, <1>4, <1>5, <2>1
<1> HIDE DEF left, place
<1>8. CASE AddressError # NoError /\ Fail(AddressError, left)
  BY <1>1, <1>5, <1>8, AddressErrorIsAccessError, AddressErrorsAreNoBalanceErrors, FailingStays
<1>9. CASE AddressError = NoError /\ place.error # NoError /\ Fail(place.error, left)
  <2>1. place.error \notin BalanceErrors
    BY <1>6, <1>9, AddressErrorsAreNoBalanceErrors DEF SoundPlace
  <2> QED
    BY <1>1, <1>5, <1>9, <2>1, FailingStays
<1>10. CASE Fail("Loaded value is uninitialized", left)
  <2>1. "Loaded value is uninitialized" \notin BalanceErrors
    BY DEF BalanceErrors
  <2> QED
    BY <1>1, <1>5, <1>10, <2>1, FailingStays
<1>11. CASE /\ AddressError = NoError /\ place.error = NoError
            /\ PushAndNext(left, ValueAt(place, left))
  <2>1. CASE place.area = "memory"
    <3>1. ValueAt(place, left) \in Value
      BY <1>1, <1>4, <1>6, <1>11, <2>1, AtInstruction, ElementOfSeq DEF SoundPlace, ValueAt
    <3> QED
      BY <1>1, <1>4, <1>5, <1>7, <1>11, <3>1, PushingStays
  <2>2. CASE place.area = "stack"
    <3>1. ValueAt(place, left) \in Value
      BY <1>5, <1>6, <1>11, <2>2, ElementOfSeq DEF SoundPlace, ValueAt
    <3> QED
      BY <1>1, <1>4, <1>5, <1>7, <1>11, <3>1, PushingStays
  <2> QED
    BY <1>6, <1>11, <2>1, <2>2 DEF SoundPlace
<1> QED
  BY <1>2, <1>5, <1>8, <1>9, <1>10, <1>11 DEF Load, left, place

LEMMA StoreStays ==
    ASSUME BalancedInvariant, MachineInvariant', Store, Track
    PROVE  StaysBalanced
<1>1. InLoop /\ Fetched.opcode = "STO"
  BY DEF Store, Executing
<1>2. PICK pops \in {1, 2} : pops = IF Indirect THEN 2 ELSE 1
  OBVIOUS
<1>3. Pops(Fetched, Calls) = pops /\ Pushes(Fetched, Calls) = 0
      /\ Following(Fetched, pc) = {pc + 1}
  BY <1>1, <1>2, EffectOfInstruction DEF Indirect
<1>4. /\ result # "false" /\ Heights[prog][pc] \in Nat /\ pops <= Heights[prog][pc]
      /\ pc + 1 \in DOMAIN Heights[prog]
      /\ Heights[prog][pc + 1] = Heights[prog][pc] - pops
      /\ MachineInvariant
  BY <1>1, <1>3, AtBalancedLine
<1> DEFINE left  == Below(pops)
           value == Operand(pops, 1)
           place == PlaceOf(Fetched.level, Fetched.operand, PoppedAddress, left)
<1>5. /\ left \in Seq(Value) /\ KeepsFloor(left) /\ Len(stack) >= pops /\ ~Underflow(pops)
      /\ pops \in 0..Len(stack) /\ Len(left) = Floor + Heights[prog][pc] - pops
  BY <1>4, PoppingKeepsFloor, NothingUnderflows
<1>6. KeepsFloor(Below(1))
  <2>1. 1 <= Heights[prog][pc]
    BY <1>2, <1>4
  <2> QED
    BY <1>4, <2>1, PoppingKeepsFloor
<1>7. ASSUME AddressError = NoError
      PROVE  SoundPlace(place, left) /\ (place.area = "stack" => place.at \in Writable)
  BY <1>1, <1>2, <1>4, <1>5, <1>7, FoundPlaceIsSound
<1>8. value \in Value
  <2>1. 1 \in 1..pops
    BY <1>2
  <2> QED
    BY <1>1, <1>4, <1>5, <2>1, AtInstruction, PoppedIsTyped
<1>9. Len(left) = Floor + Heights[prog][pc + 1]
  <2>1. PICK floor \in Nat, height \in Nat : floor = Floor /\ height = Heights[prog][pc]
    BY <1>4, ContextsAreTyped
  <2> QED
    BY <1>2, <1>4, <1>5, <2>1
<1> HIDE DEF left, place, value
<1>10. CASE AddressError # NoError /\ Fail(AddressError, Below(1))
  BY <1>1, <1>6, <1>10, AddressErrorIsAccessError, AddressErrorsAreNoBalanceErrors, FailingStays
<1>11. CASE AddressError = NoError /\ place.error # NoError /\ Fail(place.error, left)
  <2>1. place.error \notin BalanceErrors
    BY <1>7, <1>11, AddressErrorsAreNoBalanceErrors DEF SoundPlace
  <2> QED
    BY <1>1, <1>5, <1>11, <2>1, FailingStays
<1>12. CASE Continue(pc + 1, left)
  BY <1>1, <1>4, <1>5, <1>9, <1>12, KeepingStays
<1>13. CASE /\ AddressError = NoError /\ place.area = "stack"
            /\ Continue(pc + 1, [left EXCEPT ![place.at] = value])
  <2>1. place.at \in 1..Len(left) /\ place.at \in Writable
    BY <1>7, <1>13 DEF SoundPlace
  <2>2. PICK stored : stored = [left EXCEPT ![place.at] = value]
    OBVIOUS
  <2>3. /\ stored \in Seq(Value) /\ Len(stored) = Len(left)
        /\ \A i \in 1..Len(left) : stored[i] = IF i = place.at THEN value ELSE left[i]
    BY <1>5, <1>8, <2>1, <2>2, ExceptSeq
  <2>4. stack' = stored /\ Continue(pc + 1, stored)
    BY <1>13, <2>2 DEF Continue
  <2>5. PICK floor \in Nat, size \in Nat : floor = Floor /\ size = Len(left) /\ floor <= size
    BY <1>5, ContextsAreTyped, LenProperties DEF KeepsFloor
  <2>6. ASSUME NEW i \in (1..Len(stack)) \ Writable
        PROVE  i <= Len(stack') /\ stack'[i] = stack[i]
    <3>1. i \in 1..floor /\ i # place.at
      BY <2>1, <2>5, HiddenLiesBelow
    <3>2. i \in 1..size /\ i <= size
      BY <2>5, <3>1
    <3>3. stored[i] = left[i] /\ left[i] = stack[i]
      BY <1>5, <2>3, <2>5, <3>1, <3>2 DEF KeepsFloor
    <3> QED
      BY <2>3, <2>4, <2>5, <3>2, <3>3
  <2>7. HiddenStays
    BY <2>6 DEF HiddenStays
  <2> QED
    BY <1>1, <1>4, <1>9, <2>3, <2>4, <2>5, <2>7, GoingOnStays
<1> QED
  BY <1>2, <1>5, <1>10, <1>11, <1>12, <1>13 DEF Store, left, place, value

-----------------------------------------------------------------------------
(* What the linkage of a frame says. *)

LEMMA SavedWords ==
    ASSUME NEW caller, NEW level
    PROVE  /\ SavedWord(caller, level, 1) = Integer(caller.frame.bp)
           /\ SavedWord(caller, level, 2) = Integer(caller.frame.slots)
           /\ SavedWord(caller, level, 3) = Integer(caller.frame.returnOffset)
           /\ SavedWord(caller, level, 4) = Integer(caller.frame.returnSlots)
           /\ SavedWord(caller, level, 5) = Integer(IF caller.frame.structured THEN 1 ELSE 0)
           /\ SavedWord(caller, level, 6) = Integer(caller.frame.level)
           /\ SavedWord(caller, level, 8)
                = Integer(IF caller.display[level].active THEN 1 ELSE 0)
           /\ SavedWord(caller, level, 9) = Integer(caller.display[level].bp)
           /\ SavedWord(caller, level, 10) = Integer(caller.display[level].slots)
           /\ SavedWord(caller, level, 12) = Integer(caller.resume)
           /\ SavedWord(caller, level, 13) = Integer(Canary)
           /\ \A w \in 1..LinkageWords : SavedWord(caller, level, w).type = "integer"
<1>1. \A w \in 1..LinkageWords : SavedWord(caller, level, w).type = "integer"
  BY DEF SavedWord, Integer
<1> QED
  BY <1>1 DEF SavedWord

LEMMA IntegersReadBack ==
    ASSUME NEW n
    PROVE  AsInteger(Integer(n)) = n /\ IsNumeric(Integer(n))
BY DEF AsInteger, Integer, IsNumeric

\* The linkage of every frame holds the registers of its caller, the entry of
\* the display it displaced, and the line to resume at.
LEMMA LinkageReads ==
    ASSUME BalancedInvariant, NEW j \in 2..Len(Contexts)
    PROVE  LET held   == Contexts[j].frame
               caller == Contexts[j - 1]
           IN  /\ \A w \in 1..LinkageWords : Word(held, w).type = "integer"
               /\ Saved(held, LinkageWords) = Canary
               /\ CallerOf(held) = caller.frame
               /\ held.level \in Levels => DisplacedBy(held) = caller.display[held.level]
               /\ Saved(held, 12) = caller.resume
<1> DEFINE held   == Contexts[j].frame
           caller == Contexts[j - 1]
<1>1. \A w \in 1..LinkageWords : Word(held, w) = SavedWord(caller, held.level, w)
  BY DEF BalancedInvariant, FramesStand, LinkagesStand, Word
<1>2. /\ caller.frame \in Registers
      /\ \A level \in Levels : caller.display[level] \in DisplayEntry
  <2>1. j - 1 \in 1..Len(Contexts) /\ Contexts \in Seq(Context)
    BY ContextsAreTyped
  <2>2. Contexts[j - 1] \in Context
    BY <2>1, ElementOfSeq
  <2> QED
    BY <2>2 DEF Context
<1> HIDE DEF held, caller
<1>3. /\ Saved(held, 1) = caller.frame.bp /\ Saved(held, 2) = caller.frame.slots
      /\ Saved(held, 3) = caller.frame.returnOffset
      /\ Saved(held, 4) = caller.frame.returnSlots
      /\ Saved(held, 5) = IF caller.frame.structured THEN 1 ELSE 0
      /\ Saved(held, 6) = caller.frame.level
      /\ Saved(held, 12) = caller.resume
      /\ Saved(held, 13) = Canary
  BY <1>1, SavedWords, IntegersReadBack DEF Saved, LinkageWords
<1>4. /\ Saved(held, 8) = IF caller.display[held.level].active THEN 1 ELSE 0
      /\ Saved(held, 9) = caller.display[held.level].bp
      /\ Saved(held, 10) = caller.display[held.level].slots
  BY <1>1, SavedWords, IntegersReadBack DEF Saved, LinkageWords
<1>5. \A n \in Nat : Count(n) = n
  BY DEF Count
<1>6. CallerOf(held) = caller.frame
  <2>1. PICK record \in Registers : record = caller.frame
    BY <1>2
  <2>2. /\ record.bp \in Nat /\ record.slots \in Nat /\ record.returnSlots \in Nat
        /\ record.structured \in BOOLEAN
        /\ record = [bp |-> record.bp, slots |-> record.slots,
                     returnOffset |-> record.returnOffset,
                     returnSlots |-> record.returnSlots,
                     structured |-> record.structured, level |-> record.level]
    BY DEF FrameRecord, Registers
  <2>3. (Saved(held, 5) # 0) = record.structured
    BY <1>3, <2>1, <2>2
  <2>4. /\ Count(Saved(held, 1)) = record.bp /\ Count(Saved(held, 2)) = record.slots
        /\ Count(Saved(held, 4)) = record.returnSlots
        /\ Saved(held, 3) = record.returnOffset /\ Saved(held, 6) = record.level
    BY <1>3, <1>5, <2>1, <2>2
  <2> QED
    BY <2>1, <2>2, <2>3, <2>4, Zenon DEF CallerOf
<1>7. ASSUME held.level \in Levels
      PROVE  DisplacedBy(held) = caller.display[held.level]
  <2>1. PICK entry \in DisplayEntry : entry = caller.display[held.level]
    BY <1>2, <1>7
  <2>2. /\ entry.bp \in Nat /\ entry.slots \in Nat /\ entry.active \in BOOLEAN
        /\ entry = [active |-> entry.active, bp |-> entry.bp, slots |-> entry.slots]
    BY DEF DisplayEntry
  <2>3. (Saved(held, 8) # 0) = entry.active
    BY <1>4, <2>1, <2>2
  <2>4. Count(Saved(held, 9)) = entry.bp /\ Count(Saved(held, 10)) = entry.slots
    BY <1>4, <1>5, <2>1, <2>2
  <2> QED
    BY <2>1, <2>2, <2>3, <2>4, Zenon DEF DisplacedBy
<1>8. \A w \in 1..LinkageWords : Word(held, w).type = "integer"
  <2> SUFFICES ASSUME NEW w \in 1..LinkageWords PROVE Word(held, w).type = "integer"
    OBVIOUS
  <2>1. SavedWord(caller, held.level, w).type = "integer"
    BY SavedWords
  <2> QED
    BY <1>1, <2>1
<1> QED
  BY <1>3, <1>6, <1>7, <1>8 DEF held, caller, LinkageWords

\* The call a frame was made by, and the height of the line it resumes at.
LEMMA CallSiteIsSound ==
    ASSUME BalancedInvariant, NEW j \in 2..Len(Contexts)
    PROVE  LET line == Contexts[j - 1].resume - 1
               info == Calls[Code[line + 1].operand]
               held == Contexts[j].frame
           IN  /\ line \in DOMAIN Heights[prog]
               /\ line + 1 \in DOMAIN Heights[prog]
               /\ IsLayout(info)
               /\ held = [bp |-> Base(Contexts, j - 1) + Heights[prog][line]
                                   - info.parameterSlotCount,
                          slots |-> info.frameSlotCount, returnOffset |-> info.returnOffset,
                          returnSlots |-> info.returnSlotCount,
                          structured |-> info.structuredReturn, level |-> info.lexicalLevel]
               /\ info.parameterSlotCount <= Heights[prog][line]
               /\ Heights[prog][line + 1]
                    = Heights[prog][line] - info.parameterSlotCount
                        + (IF Returns(info) THEN info.returnSlotCount ELSE 0)
<1> DEFINE line == Contexts[j - 1].resume - 1
           i    == Code[line + 1]
           info == Calls[i.operand]
           held == Contexts[j].frame
<1>1. CalledFrom(Library[prog], Heights[prog], Contexts[j - 1].resume - 1,
                 Base(Contexts, j - 1), Contexts[j].frame)
  BY DEF BalancedInvariant, FramesStand, CallsStand
<1>2. /\ line \in DOMAIN Heights[prog] /\ i.opcode = "CAL"
      /\ held = [bp |-> Base(Contexts, j - 1) + Heights[prog][line] - info.parameterSlotCount,
                 slots |-> info.frameSlotCount, returnOffset |-> info.returnOffset,
                 returnSlots |-> info.returnSlotCount,
                 structured |-> info.structuredReturn, level |-> info.lexicalLevel]
  BY <1>1 DEF CalledFrom, Code, Calls
<1>3. IsBalancedAt(Library[prog], Heights[prog], line)
  <2>1. IsBalanced(Library[prog], Heights[prog])
    BY BalancedAssumption DEF BalancedInvariant, MachineInvariant, TypeOK
  <2> QED
    BY <1>2, <2>1 DEF IsBalanced
<1> HIDE DEF held, line
<1>4. /\ IsLayout(info)
      /\ Pops(i, Calls) <= Heights[prog][line]
      /\ \A next \in Following(i, line) :
            /\ next \in DOMAIN Heights[prog]
            /\ Heights[prog][next]
                 = Heights[prog][line] - Pops(i, Calls) + Pushes(i, Calls)
  BY <1>2, <1>3 DEF IsBalancedAt, Code, Calls
<1> HIDE DEF i
<1>5. /\ Pops(i, Calls) = info.parameterSlotCount
      /\ Pushes(i, Calls) = IF Returns(info) THEN info.returnSlotCount ELSE 0
      /\ Following(i, line) = {line + 1}
  BY <1>2, EffectOfInstruction
<1> HIDE DEF info
<1>6. /\ info.parameterSlotCount <= Heights[prog][line]
      /\ line + 1 \in DOMAIN Heights[prog]
      /\ Heights[prog][line + 1] = Heights[prog][line] - info.parameterSlotCount
                        + (IF Returns(info) THEN info.returnSlotCount ELSE 0)
  BY <1>4, <1>5
<1> QED
  BY <1>2, <1>4, <1>6 DEF line, info, held, i

-----------------------------------------------------------------------------
(* CAL. *)

\* What is put on top of two sequences.
LEMMA ConcatTop ==
    ASSUME NEW S, NEW s \in Seq(S), NEW t \in Seq(S), NEW u \in Seq(S), NEW w \in 1..Len(u)
    PROVE  (s \o t \o u)[Len(s) + Len(t) + w] = u[w]
<1>1. Len(s) \in Nat /\ Len(t) \in Nat /\ Len(u) \in Nat
  BY LenProperties
<1>2. PICK st \in Seq(S) : st = s \o t /\ Len(st) = Len(s) + Len(t)
  BY ConcatProperties
<1>3. PICK k \in Nat : k = Len(s) + Len(t)
  BY <1>1
<1>4. k + w \in 1..(Len(st) + Len(u)) /\ ~(k + w <= Len(st)) /\ k + w - Len(st) = w
  BY <1>1, <1>2, <1>3
<1>5. (st \o u)[k + w] = u[w]
  BY <1>4, ConcatProperties
<1> QED
  BY <1>2, <1>3, <1>5

\* The only check of CAL that balanced code can fail is that of the call depth.
LEMMA CallErrorIsDepth ==
    ASSUME BalancedInvariant, InLoop, Fetched.opcode = "CAL"
    PROVE  CallError(Fetched.operand) \in {NoError, "Stack Overflow"}
<1> DEFINE target == Fetched.operand
           info   == Calls[target]
<1>1. /\ target \in DOMAIN Calls /\ IsLayout(info) /\ target \in DOMAIN Heights[prog]
      /\ Pops(Fetched, Calls) <= Heights[prog][pc] /\ result # "false"
  BY AtBalancedLine
<1>2. info.parameterSlotCount <= Heights[prog][pc]
  BY <1>1, EffectOfInstruction
<1>3. info.parameterSlotCount \in Nat
  <2>1. info \in CallInfo
    BY <1>1, LibraryAssumption DEF BalancedInvariant, MachineInvariant, TypeOK, Calls,
                                   IsInstructionList
  <2>2. info.parameterSlotCount \in Int /\ info.frameSlotCount \in Int
    BY <2>1 DEF CallInfo
  <2> QED
    BY <1>1, <2>2 DEF IsLayout
<1>4. ~(Len(stack) < info.parameterSlotCount)
  <2>1. info.parameterSlotCount \in 0..Len(stack)
    BY <1>1, <1>2, <1>3, PoppingKeepsFloor
  <2>2. Len(stack) \in Nat
    BY LenProperties DEF BalancedInvariant, MachineInvariant, TypeOK
  <2> QED
    BY <2>1, <2>2
<1>5. IsTarget(target)
  BY <1>1, AtLine DEF IsTarget
<1>6. /\ info.lexicalLevel \in Levels
      /\ ~(info.parameterSlotCount < 0)
      /\ ~(info.frameSlotCount < info.parameterSlotCount)
      /\ \A p \in 1..info.parameterSlotCount :
            info.parameterOffsets[p] \in 0..(info.frameSlotCount - 1)
  <2>1. info.frameSlotCount \in Int
    BY <1>1, LibraryAssumption DEF BalancedInvariant, MachineInvariant, TypeOK, Calls,
                                   IsInstructionList, CallInfo
  <2>2. info.parameterSlotCount \in 0..info.frameSlotCount
    BY <1>1 DEF IsLayout
  <2> QED
    BY <1>1, <2>1, <2>2 DEF IsLayout
<1> HIDE DEF target, info
<1>7. CallError(target) \in {NoError, "Stack Overflow"}
  BY <1>1, <1>4, <1>5, <1>6 DEF CallError, info
<1> QED
  BY <1>7 DEF target

\* The stack a call builds: the operands that stay, the slots, the linkage.
LEMMA CallGrows ==
    ASSUME BalancedInvariant, InLoop, Fetched.opcode = "CAL",
           CallError(Fetched.operand) = NoError
    PROVE  LET info   == Calls[Fetched.operand]
               kept   == Below(info.parameterSlotCount)
               grown  == kept \o FrameSlots(info) \o Linkage(info.lexicalLevel, pc + 1)
               caller == [frame |-> frame, display |-> display, resume |-> pc + 1]
           IN  /\ Len(kept) \in Nat /\ Floor <= Len(kept)
               /\ Len(kept) = Floor + Heights[prog][pc] - info.parameterSlotCount
               /\ info.frameSlotCount \in Nat
               /\ grown \in Seq(WideValue)
               /\ Len(grown) = Len(kept) + info.frameSlotCount + LinkageWords
               /\ \A i \in 1..Len(kept) : grown[i] = stack[i]
               /\ \A w \in 1..LinkageWords :
                     grown[Len(kept) + info.frameSlotCount + w]
                       = SavedWord(caller, info.lexicalLevel, w)
<1> DEFINE info   == Calls[Fetched.operand]
           caller == [frame |-> frame, display |-> display, resume |-> pc + 1]
<1>1. /\ MachineInvariant /\ result # "false" /\ TypeOK /\ stack \in Seq(Value)
      /\ Len(stack) \in Nat
  BY AtBalancedLine, AtInstruction
<1>2. /\ info.lexicalLevel \in Levels /\ info.frameSlotCount \in Nat
      /\ info.parameterSlotCount \in 0..Len(stack)
  BY <1>1, CallIsChecked
<1> HIDE DEF info
<1>3. info.parameterSlotCount \in Nat /\ info.parameterSlotCount <= Heights[prog][pc]
  BY <1>1, <1>2, AtBalancedLine, EffectOfInstruction DEF info
<1>4. PICK kept : kept = Below(info.parameterSlotCount)
  OBVIOUS
<1>5. /\ kept \in Seq(Value) /\ Len(kept) \in Nat /\ Floor <= Len(kept)
      /\ Len(kept) = Floor + Heights[prog][pc] - info.parameterSlotCount
  BY <1>1, <1>3, <1>4, PoppingKeepsFloor, LenProperties DEF KeepsFloor
<1>6. \A i \in 1..Len(kept) : kept[i] = stack[i]
  <2>1. PICK n \in 0..Len(stack) : n = Len(stack) - info.parameterSlotCount
    BY <1>1, <1>2
  <2>2. kept = SubSeq(stack, 1, n)
    BY <1>4, <2>1 DEF Below
  <2> QED
    BY <1>1, <2>2, PrefixProperties
<1>7. PICK slots \in Seq(WideValue) :
         slots = FrameSlots(info) /\ Len(slots) = info.frameSlotCount
  <2>1. /\ FrameSlots(info) \in Seq(Value)
        /\ Len(FrameSlots(info)) = info.frameSlotCount
    BY <1>1, <1>2, FrameSlotsAreValues
  <2>2. Value \subseteq WideValue
    BY DEF WideValue
  <2> QED
    BY <2>1, <2>2, SeqMonotonic
<1>8. PICK linkage \in Seq(WideValue) :
         linkage = Linkage(info.lexicalLevel, pc + 1) /\ Len(linkage) = LinkageWords
  <2>1. pc + 1 \in Int
    BY <1>1, FetchedIsTyped
  <2> QED
    BY <1>1, <1>2, <2>1, LinkageIsWide
<1>9. \A w \in 1..LinkageWords : linkage[w] = SavedWord(caller, info.lexicalLevel, w)
  BY <1>8 DEF Linkage, SavedWord
<1>10. kept \in Seq(WideValue)
  <2>1. Value \subseteq WideValue
    BY DEF WideValue
  <2> QED
    BY <1>5, <2>1, SeqMonotonic
<1> HIDE DEF caller
<1>11. /\ kept \o slots \o linkage \in Seq(WideValue)
       /\ Len(kept \o slots \o linkage) = Len(kept) + Len(slots) + Len(linkage)
       /\ \A i \in 1..Len(kept) : (kept \o slots \o linkage)[i] = kept[i]
  BY <1>10, ConcatOnTop
<1>12. \A w \in 1..LinkageWords :
          (kept \o slots \o linkage)[Len(kept) + info.frameSlotCount + w] = linkage[w]
  <2> SUFFICES ASSUME NEW w \in 1..LinkageWords
               PROVE  (kept \o slots \o linkage)[Len(kept) + info.frameSlotCount + w]
                        = linkage[w]
    OBVIOUS
  <2>1. w \in 1..Len(linkage)
    BY <1>8
  <2>2. (kept \o slots \o linkage)[Len(kept) + Len(slots) + w] = linkage[w]
    BY <1>10, <2>1, ConcatTop
  <2> QED
    BY <1>7, <2>2
<1> DEFINE grown == kept \o slots \o linkage
<1> HIDE DEF grown
<1>13. /\ grown \in Seq(WideValue)
       /\ Len(grown) = Len(kept) + info.frameSlotCount + LinkageWords
       /\ \A i \in 1..Len(kept) : grown[i] = stack[i]
       /\ \A w \in 1..LinkageWords :
             grown[Len(kept) + info.frameSlotCount + w]
               = SavedWord(caller, info.lexicalLevel, w)
  BY <1>6, <1>7, <1>8, <1>9, <1>11, <1>12 DEF grown
<1> QED
  BY <1>2, <1>4, <1>5, <1>7, <1>8, <1>13 DEF info, caller, grown

\* A call that is refused stays in its frame.
LEMMA CallRefusedStays ==
    ASSUME BalancedInvariant, MachineInvariant', Call, Track, result' = "false"
    PROVE  StaysBalanced
<1> DEFINE target  == Fetched.operand
           info    == Calls[target]
           kept    == Below(info.parameterSlotCount)
           grown   == kept \o FrameSlots(info) \o Linkage(info.lexicalLevel, pc + 1)
           refused == RefusedPushes(grown, Len(kept))
<1>1. InLoop /\ Fetched.opcode = "CAL" /\ result # "false"
  BY DEF Call, Executing, InLoop
<1>2. CASE CallError(target) # NoError /\ Fail(CallError(target), stack)
  <2>1. CallError(target) = "Stack Overflow"
    BY <1>1, <1>2, CallErrorIsDepth
  <2>2. CallError(target) \notin BalanceErrors
    BY <2>1 DEF BalanceErrors
  <2> QED
    BY <1>1, <1>2, <2>2, StackKeepsFloor, FailingStays
<1>3. ASSUME CallError(target) = NoError, NEW i \in refused,
             Fail(PushError(grown, i), SubSeq(grown, 1, i - 1))
      PROVE  StaysBalanced
  <2>1. /\ Len(kept) \in Nat /\ Floor <= Len(kept) /\ grown \in Seq(WideValue)
        /\ Len(grown) = Len(kept) + info.frameSlotCount + LinkageWords
        /\ info.frameSlotCount \in Nat
        /\ \A k \in 1..Len(kept) : grown[k] = stack[k]
    BY <1>1, <1>3, CallGrows
  <2>2. i \in (Len(kept) + 1)..Len(grown) /\ PushError(grown, i) # NoError
    BY <1>3 DEF RefusedPushes
  <2> HIDE DEF grown, kept, info
  <2>3. PICK size \in Nat, floor \in Nat : size = Len(kept) /\ floor = Floor /\ floor <= size
    BY <2>1, ContextsAreTyped
  <2>4. i \in 1..Len(grown) /\ i - 1 \in 0..Len(grown) /\ size <= i - 1
    BY <2>1, <2>2, <2>3 DEF LinkageWords
  <2>5. PushError(grown, i) \in {"Stack Overflow", "Numerical Overflow", "Numerical Underflow"}
    BY <2>1, <2>2, <2>4, PushErrorIsSound
  <2>6. PushError(grown, i) \notin BalanceErrors
    BY <2>5 DEF BalanceErrors
  <2>7. /\ Len(SubSeq(grown, 1, i - 1)) = i - 1
        /\ \A k \in 1..(i - 1) : SubSeq(grown, 1, i - 1)[k] = grown[k]
    BY <2>1, <2>4, PrefixProperties
  <2>8. \A k \in 1..floor : k \in 1..(i - 1) /\ k \in 1..size
    BY <2>3, <2>4
  <2>9. \A k \in 1..floor : SubSeq(grown, 1, i - 1)[k] = stack[k]
    BY <2>1, <2>3, <2>7, <2>8
  <2>10. floor <= Len(SubSeq(grown, 1, i - 1))
    BY <2>2, <2>3, <2>4, <2>7
  <2>11. KeepsFloor(SubSeq(grown, 1, i - 1))
    BY <2>3, <2>9, <2>10 DEF KeepsFloor
  <2> QED
    BY <1>1, <1>3, <2>6, <2>11, FailingStays
<1> QED
  BY <1>1, <1>2, <1>3 DEF Call

\* A call that is made: the callee's frame stands on top of the others.
LEMMA CallMadeKeeps ==
    ASSUME BalancedInvariant, MachineInvariant', Call, Track, result' # "false"
    PROVE  BalancedInvariant' /\ HiddenStays /\ callDepth' = callDepth + 1
<1> DEFINE info   == Calls[Fetched.operand]
           kept   == Below(info.parameterSlotCount)
           grown  == kept \o FrameSlots(info) \o Linkage(info.lexicalLevel, pc + 1)
           caller == [frame |-> frame, display |-> display, resume |-> pc + 1]
           callee == [frame |-> frame', display |-> display', resume |-> pc']
<1>1. /\ InLoop /\ Fetched.opcode = "CAL" /\ result = "running"
      /\ CallError(Fetched.operand) = NoError
      /\ stack' = grown
      /\ pc' = Fetched.operand
      /\ frame' = [bp |-> Len(kept), slots |-> info.frameSlotCount,
                   returnOffset |-> info.returnOffset,
                   returnSlots |-> info.returnSlotCount,
                   structured |-> info.structuredReturn,
                   level |-> info.lexicalLevel]
      /\ display' = [display EXCEPT ![info.lexicalLevel] =
                       [active |-> TRUE, bp |-> Len(kept), slots |-> info.frameSlotCount]]
      /\ callDepth' = callDepth + 1
      /\ UNCHANGED <<prog, memory, output, stopped, error, result>>
  BY DEF Call, Executing, InLoop, Fail
<1>2. /\ Len(kept) \in Nat /\ Floor <= Len(kept) /\ info.frameSlotCount \in Nat
      /\ Len(kept) = Floor + Heights[prog][pc] - info.parameterSlotCount
      /\ Len(grown) = Len(kept) + info.frameSlotCount + LinkageWords
      /\ \A i \in 1..Len(kept) : grown[i] = stack[i]
      /\ \A w \in 1..LinkageWords :
            grown[Len(kept) + info.frameSlotCount + w] = SavedWord(caller, info.lexicalLevel, w)
  BY <1>1, CallGrows
<1>3. /\ IsLayout(info) /\ pc' \in DOMAIN Heights[prog] /\ Heights[prog][pc'] = 0
  BY <1>1, AtBalancedLine
<1>4. PICK bp \in Nat, slots \in Nat :
         bp = Len(kept) /\ slots = info.frameSlotCount
  BY <1>2
<1>5. /\ frame'.bp = bp /\ frame'.slots = slots /\ frame'.level = info.lexicalLevel
      /\ frame'.returnSlots = info.returnSlotCount
  BY <1>1, <1>4
<1>6. frame'.level \in Levels /\ frame'.returnSlots >= 0
  BY <1>3, <1>5 DEF IsLayout
<1>7. CalledFrom(Library[prog], Heights[prog], pc, Floor, frame')
  <2>2. pc \in DOMAIN Heights[prog]
    BY <1>1, AtLine
  <2>3. Library[prog].code[pc + 1] = Fetched /\ Library[prog].calls[Fetched.operand] = info
    BY DEF Fetched, Code, Calls
  <2>5. Fetched.opcode = "CAL"
    BY <1>1
  <2> HIDE DEF info, kept
  <2>4. frame' = [bp |-> Floor + Heights[prog][pc] - info.parameterSlotCount,
                  slots |-> info.frameSlotCount, returnOffset |-> info.returnOffset,
                  returnSlots |-> info.returnSlotCount,
                  structured |-> info.structuredReturn, level |-> info.lexicalLevel]
    BY <1>1, <1>2
  <2> QED
    BY <2>2, <2>3, <2>4, <2>5 DEF CalledFrom
<1>8. /\ Len(stack') = bp + slots + LinkageWords
      /\ \A i \in 1..bp : stack'[i] = stack[i]
      /\ \A w \in 1..LinkageWords :
            stack'[bp + slots + w] = SavedWord(caller, frame'.level, w)
  BY <1>1, <1>2, <1>4, <1>5
<1>9. display' = [display EXCEPT ![frame'.level] = [active |-> TRUE, bp |-> bp, slots |-> slots]]
  BY <1>1, <1>4, <1>5
<1> HIDE DEF info, kept, grown
<1>10. KeepsFloor(stack')
  <2>1. PICK floor \in Nat : floor = Floor /\ floor <= bp
    BY <1>2, <1>4, ContextsAreTyped
  <2>2. floor <= bp + slots + 13 /\ \A i \in 1..floor : i \in 1..bp
    BY <2>1
  <2> QED
    BY <1>8, <2>1, <2>2 DEF KeepsFloor, LinkageWords
<1>11. HiddenStays
  <2>1. Len(stack') \in Nat
    BY LenProperties DEF MachineInvariant, TypeOK
  <2> QED
    BY <1>10, <2>1, KeptFloorHides
<1>12. suspended' = Append(suspended, caller)
  <2>1. callDepth' > callDepth
    BY <1>1, ContextsAreTyped
  <2> QED
    BY <2>1 DEF Track
<1>13. caller \in Context /\ callee \in Context
  <2>1. pc' \in Nat /\ pc + 1 \in Nat
    BY <1>1, <1>3, AtLine
  <2>2. Contexts[callDepth + 1] \in Context
    BY ContextsAreTyped, ElementOfSeq
  <2>3. frame \in Registers /\ display \in [Levels -> DisplayEntry]
    BY <2>2, ContextsAreTyped DEF Context
  <2>4. frame' \in Registers /\ display' \in [Levels -> DisplayEntry]
    BY <1>6 DEF MachineInvariant, TypeOK, Registers
  <2> QED
    BY <2>1, <2>3, <2>4 DEF Context
<1>14. PICK D : D = Contexts'
  OBVIOUS
<1>15. PICK n \in Nat \ {0} : n = callDepth + 1 /\ n - 1 = callDepth
  BY ContextsAreTyped
<1> HIDE DEF callee
<1>16. /\ suspended' \in Seq(Context) /\ Len(suspended') = n
       /\ suspended'[n] = caller
       /\ \A j \in 1..(n - 1) : suspended'[j] = suspended[j]
  <2>1. suspended \in Seq(Context) /\ Len(suspended) = n - 1
    BY <1>15 DEF BalancedInvariant
  <2> HIDE DEF caller
  <2> QED
    BY <1>12, <1>13, <2>1, AppendProperties
<1>17. /\ D \in Seq(Context) /\ Len(D) = n + 1
       /\ D[n + 1] = callee
       /\ \A j \in 1..n : D[j] = suspended'[j]
  <2>1. D = Append(suspended', callee)
    BY <1>14 DEF Contexts, callee
  <2> QED
    BY <1>13, <1>16, <2>1, AppendProperties
<1>18. /\ \A j \in 1..(n - 1) : D[j] = Contexts[j]
       /\ D[n] = caller
  BY <1>15, <1>16, <1>17, ContextsAreTyped
<1>19. \A j \in 1..n : D[j].frame = Contexts[j].frame /\ D[j].display = Contexts[j].display
  <2>1. Contexts[n].frame = frame /\ Contexts[n].display = display
    BY <1>15, ContextsAreTyped
  <2>2. D[n].frame = frame /\ D[n].display = display
    BY <1>18
  <2>3. \A j \in 1..n : j \in 1..(n - 1) \/ j = n
    OBVIOUS
  <2> QED
    BY <1>18, <2>1, <2>2, <2>3
<1>20. D[n + 1].frame = frame' /\ D[n + 1].display = display' /\ D[n].resume - 1 = pc
  <2>1. D[n].resume = pc + 1
    BY <1>18
  <2>2. pc \in Nat
    BY <1>1, AtLine
  <2> QED
    BY <1>17, <2>1, <2>2 DEF callee
<1>21. Entered(Library[prog], Heights[prog], Contexts, D, stack, stack', n, bp)
  <2>1. /\ Contexts \in Seq(Context) /\ Len(Contexts) = n /\ Floor = Base(Contexts, n)
        /\ Contexts[n].display = display
    BY <1>15, ContextsAreTyped DEF Floor
  <2>2. Base(Contexts, n) <= bp
    BY <1>2, <1>4, <2>1
  <2>3. CalledFrom(Library[prog], Heights[prog], D[n].resume - 1, Base(Contexts, n),
                   D[n + 1].frame)
    BY <1>7, <1>20, <2>1, Zenon
  <2>4. /\ D[n + 1].frame.bp = bp /\ D[n + 1].frame.slots = slots
        /\ D[n + 1].frame.level \in Levels
    BY <1>5, <1>6, <1>20, Zenon
  <2>5. D[n + 1].display =
          [Contexts[n].display EXCEPT ![D[n + 1].frame.level] =
             [active |-> TRUE, bp |-> bp, slots |-> D[n + 1].frame.slots]]
    BY <1>9, <1>20, <2>1, <2>4, Zenon
  <2>6. \A w \in 1..LinkageWords :
           stack'[bp + D[n + 1].frame.slots + w] = SavedWord(D[n], D[n + 1].frame.level, w)
    BY <1>8, <1>18, <1>20, <2>4, Zenon
  <2>7. /\ \A i \in 1..bp : stack'[i] = stack[i]
        /\ Len(stack') = bp + D[n + 1].frame.slots + LinkageWords
    BY <1>8, <2>4, Zenon
  <2> QED
    BY <1>17, <1>18, <1>19, <2>1, <2>2, <2>3, <2>4, <2>5, <2>6, <2>7, Zenon DEF Entered
<1>22. FramesStand(Library[prog], Heights[prog], D, stack')
  BY <1>21, EnteringStands DEF BalancedInvariant
<1>23. prog' = prog /\ error' = error /\ result' = "running" /\ stopped' = stopped /\ ~stopped
  BY <1>1 DEF InLoop
<1>24. AtHeight'
  <2>1. callDepth' + 1 = n + 1 /\ n + 1 # 1
    BY <1>1, <1>15
  <2>2. Base(D, n + 1) = bp + slots + 13
    BY <1>5, <1>20, <2>1 DEF Base, OperandBase, LinkageWords
  <2>3. Len(stack') = Base(D, callDepth' + 1) + Heights[prog][pc']
    BY <1>3, <1>8, <2>1, <2>2 DEF LinkageWords
  <2> QED
    BY <1>3, <1>14, <1>23, <2>3 DEF AtHeight
<1>25. EndsInBalance'
  BY <1>23 DEF EndsInBalance, BalancedInvariant
<1>26. FramesStand(Library[prog], Heights[prog], Contexts, stack)'
  BY <1>14, <1>22, <1>23
<1>27. (suspended \in Seq(Context) /\ Len(suspended) = callDepth)'
  BY <1>1, <1>15, <1>16
<1>28. (stopped => Heights[prog][pc] = 0 /\ result # "false")'
  BY <1>23
<1> QED
  BY <1>1, <1>11, <1>24, <1>25, <1>26, <1>27, <1>28 DEF BalancedInvariant

-----------------------------------------------------------------------------
(* RET. *)

\* The running frame of a subprogram, its caller, and the call it was made by.
LEMMA AtRunningFrame ==
    ASSUME BalancedInvariant, callDepth > 0
    PROVE  /\ callDepth + 1 \in 2..Len(Contexts) /\ callDepth + 1 - 1 = callDepth
           /\ Contexts[callDepth + 1].frame = frame
           /\ Contexts[callDepth + 1].display = display
           /\ Contexts[callDepth] = suspended[callDepth]
           /\ Contexts[callDepth] \in Context
           /\ frame.level \in Levels /\ frame.returnOffset \in Int /\ frame.returnSlots \in Nat
           /\ ReturnsValue => frame.returnOffset + frame.returnSlots <= frame.slots
<1>1. /\ callDepth \in Nat /\ Len(Contexts) = callDepth + 1 /\ Contexts \in Seq(Context)
      /\ Contexts[callDepth + 1] = [frame |-> frame, display |-> display, resume |-> pc]
  BY ContextsAreTyped
<1>2. /\ callDepth + 1 \in 2..Len(Contexts) /\ callDepth + 1 - 1 = callDepth
      /\ callDepth \in 1..Len(Contexts) /\ callDepth \in 1..callDepth
      /\ callDepth + 1 \in 1..Len(Contexts)
  BY <1>1
<1>3. Contexts[callDepth] = suspended[callDepth] /\ Contexts[callDepth] \in Context
  BY <1>1, <1>2, ContextsAreTyped, ElementOfSeq
<1>4. frame \in FrameRecord /\ frame.returnSlots >= 0
  <2>1. Contexts[callDepth + 1] \in Context
    BY <1>1, <1>2, ElementOfSeq
  <2>2. Contexts[callDepth + 1].frame = frame
    BY <1>1
  <2> QED
    BY <2>1, <2>2 DEF Context, Registers
<1>5. frame.returnOffset \in Int /\ frame.returnSlots \in Nat
  <2>1. frame.returnOffset \in Int /\ frame.returnSlots \in Int
    BY <1>4 DEF FrameRecord
  <2> QED
    BY <1>4, <2>1
<1>6. PICK line : line = Contexts[callDepth].resume - 1
  OBVIOUS
<1>7. PICK info : info = Calls[Code[line + 1].operand]
  OBVIOUS
<1>8. /\ IsLayout(info)
      /\ frame = [bp |-> Base(Contexts, callDepth) + Heights[prog][line]
                           - info.parameterSlotCount,
                  slots |-> info.frameSlotCount, returnOffset |-> info.returnOffset,
                  returnSlots |-> info.returnSlotCount,
                  structured |-> info.structuredReturn, level |-> info.lexicalLevel]
  <2>1. PICK j \in 2..Len(Contexts) : j - 1 = callDepth /\ Contexts[j].frame = frame
    BY <1>1, <1>2
  <2>2. line = Contexts[j - 1].resume - 1
    BY <1>6, <2>1
  <2>3. /\ IsLayout(info)
        /\ Contexts[j].frame =
             [bp |-> Base(Contexts, j - 1) + Heights[prog][line] - info.parameterSlotCount,
              slots |-> info.frameSlotCount, returnOffset |-> info.returnOffset,
              returnSlots |-> info.returnSlotCount,
              structured |-> info.structuredReturn, level |-> info.lexicalLevel]
    BY <1>7, <2>2, CallSiteIsSound
  <2> QED
    BY <2>1, <2>3
<1>9. /\ frame.slots = info.frameSlotCount /\ frame.returnOffset = info.returnOffset
      /\ frame.returnSlots = info.returnSlotCount /\ frame.level = info.lexicalLevel
  BY <1>8
<1>10. ReturnsValue => frame.returnOffset + frame.returnSlots <= frame.slots
  BY <1>8, <1>9 DEF ReturnsValue, Returns, IsLayout
<1>11. frame.level \in Levels
  BY <1>8, <1>9 DEF IsLayout
<1> QED
  BY <1>1, <1>2, <1>3, <1>5, <1>10, <1>11

\* The only thing RET can object to in balanced code is a result never set.
LEMMA ReturnErrorIsUnset ==
    ASSUME BalancedInvariant, InLoop, Fetched.opcode = "RET", callDepth > 0
    PROVE  ReturnError \in {NoError, "Function return value is uninitialized"}
<1>1. Len(stack) = frame.bp + frame.slots + LinkageWords
  <2>1. Heights[prog][pc] = 0 /\ result # "false"
    BY AtBalancedLine
  <2>2. PICK floor \in Nat : floor = Floor /\ floor = frame.bp + frame.slots + 13
    BY ContextsAreTyped
  <2>3. Len(stack) = floor + 0
    BY <2>1, <2>2, AtLine
  <2> QED
    BY <2>2, <2>3 DEF LinkageWords
<1>2. /\ \A w \in 1..LinkageWords : Word(frame, w).type = "integer"
      /\ Saved(frame, LinkageWords) = Canary
  BY AtRunningFrame, LinkageReads
<1>3. \A w \in 1..LinkageWords : IsNumeric(Word(frame, w))
  BY <1>2 DEF IsNumeric
<1>4. ~(ReturnsValue /\ frame.returnOffset + frame.returnSlots > frame.slots)
  <2>1. frame.returnOffset \in Int /\ frame.returnSlots \in Nat /\ frame.slots \in Nat
    BY AtRunningFrame, ContextsAreTyped
  <2>2. ReturnsValue => frame.returnOffset + frame.returnSlots <= frame.slots
    BY AtRunningFrame
  <2> QED
    BY <2>1, <2>2
<1> QED
  BY <1>1, <1>2, <1>3, <1>4 DEF ReturnError

\* RET in the main program ends the loop; a result never set stops the machine.
LEMMA ReturnRefusedStays ==
    ASSUME BalancedInvariant, MachineInvariant', Return, Track,
           callDepth = 0 \/ ReturnError # NoError
    PROVE  StaysBalanced
<1>1. InLoop /\ Fetched.opcode = "RET" /\ result # "false"
  BY DEF Return, Executing, InLoop
<1>2. Heights[prog][pc] = 0
  BY <1>1, AtBalancedLine
<1>3. callDepth \in Nat /\ Floor \in Nat
  BY ContextsAreTyped
<1>4. CASE callDepth > 0
  <2>1. ReturnError # NoError /\ Fail(ReturnError, stack)
    <3>1. callDepth # 0
      BY <1>3, <1>4
    <3> QED
      BY <3>1, Zenon DEF Return
  <2>2. ReturnError = "Function return value is uninitialized"
    BY <1>1, <1>4, <2>1, ReturnErrorIsUnset
  <2>3. ReturnError \notin BalanceErrors
    BY <2>2 DEF BalanceErrors
  <2> QED
    BY <1>1, <2>1, <2>3, StackKeepsFloor, FailingStays
<1>5. CASE callDepth = 0
  <2>1. /\ stopped' = TRUE
        /\ UNCHANGED <<prog, pc, stack, memory, frame, display, callDepth, output,
                       error, result>>
    BY <1>5 DEF Return
  <2>2. suspended' = suspended
    BY <1>3, <2>1 DEF Track
  <2>3. HiddenStays /\ Floor <= Len(stack')
    <3>1. KeepsFloor(stack')
      BY <1>1, <2>1, StackKeepsFloor
    <3>2. Len(stack') \in Nat
      BY LenProperties DEF MachineInvariant, TypeOK
    <3> QED
      BY <3>1, <3>2, KeptFloorHides DEF KeepsFloor
  <2>4. pc \in DOMAIN Heights[prog] /\ Len(stack) = Floor + Heights[prog][pc]
    BY <1>1, AtLine
  <2>5. error' \notin BalanceErrors /\ result' = "running"
    BY <1>1, <2>1 DEF BalancedInvariant, EndsInBalance, InLoop
  <2> QED
    BY <1>1, <1>2, <2>1, <2>2, <2>3, <2>4, <2>5 DEF StaysBalanced
<1> QED
  BY <1>3, <1>4, <1>5

\* A return takes the registers, the display and the line to go on at from the
\* linkage, which are those its call found.
LEMMA ReturnFindsCaller ==
    ASSUME BalancedInvariant, MachineInvariant', Return, callDepth > 0, ReturnError = NoError
    PROVE  LET caller == Contexts[callDepth]
           IN  /\ frame' = caller.frame
               /\ display' = caller.display
               /\ pc' = caller.resume
               /\ pc' \in DOMAIN Heights[prog]
               /\ stack' = SubSeq(stack, 1, frame.bp) \o ReturnedSlots
               /\ callDepth' = callDepth - 1
               /\ UNCHANGED <<prog, memory, output, stopped, error, result>>
<1>1. PICK caller : caller = Contexts[callDepth]
  OBVIOUS
<1>2. PICK n \in 2..Len(Contexts) :
         n = callDepth + 1 /\ n - 1 = callDepth /\ Contexts[n].frame = frame
         /\ Contexts[n].display = display
  <2>1. PICK n \in 2..Len(Contexts) : n = callDepth + 1
    BY AtRunningFrame
  <2>2. n - 1 = callDepth
    BY <2>1, ContextsAreTyped
  <2>3. Contexts[n].frame = frame /\ Contexts[n].display = display
    BY <2>1, AtRunningFrame
  <2> QED
    BY <2>1, <2>2, <2>3
<1>3. /\ caller \in Context /\ frame.level \in Levels
  BY <1>1, AtRunningFrame
<1>4. /\ CallerOf(frame) = caller.frame
      /\ DisplacedBy(frame) = caller.display[frame.level]
      /\ Saved(frame, 12) = caller.resume
  BY <1>1, <1>2, <1>3, LinkageReads
<1>5. Saved(frame, 12) \in DOMAIN Heights[prog]
  <2>1. caller.resume - 1 + 1 \in DOMAIN Heights[prog]
    BY <1>1, <1>2, CallSiteIsSound
  <2>2. caller.resume \in Nat
    BY <1>3 DEF Context
  <2> QED
    BY <1>4, <2>1, <2>2
<1>6. IsTarget(Saved(frame, 12))
  <2>1. result # "false"
    BY DEF Return, Executing, InLoop
  <2> QED
    BY <1>5, <2>1, AtLine DEF IsTarget
<1>7. callDepth # 0
  BY ContextsAreTyped
<1>8. /\ frame' = CallerOf(frame)
      /\ display' = [display EXCEPT ![frame.level] = DisplacedBy(frame)]
      /\ pc' = Saved(frame, 12)
      /\ stack' = SubSeq(stack, 1, frame.bp) \o ReturnedSlots
      /\ callDepth' = callDepth - 1
      /\ UNCHANGED <<prog, memory, output, stopped, error, result>>
  BY <1>3, <1>6, <1>7 DEF Return
<1>9. display' = caller.display
  <2>1. display \in [Levels -> DisplayEntry] /\ caller.display \in [Levels -> DisplayEntry]
    BY <1>3 DEF Context, BalancedInvariant, MachineInvariant, TypeOK
  <2>2. ASSUME NEW level \in Levels, level # frame.level
        PROVE  display[level] = caller.display[level]
    <3>1. PICK below \in Nat \ {0} : below = callDepth /\ below + 1 = n
      BY <1>2, <1>7, ContextsAreTyped
    <3>2. n \in 1..Len(Contexts) /\ below \in 1..Len(Contexts) /\ n \in Nat
      BY <1>2, <3>1
    <3>3. DisplaysStand(Contexts)
      BY DEF BalancedInvariant, FramesStand
    <3>4. /\ IsLatest(Contexts, n, level, display[level])
          /\ IsLatest(Contexts, below, level, caller.display[level])
      BY <1>1, <1>2, <3>1, <3>2, <3>3 DEF DisplaysStand
    <3>5. Contexts[below + 1].frame.level # level
      BY <1>2, <2>2, <3>1
    <3>6. IsLatest(Contexts, below + 1, level, caller.display[level])
      BY <3>4, <3>5, LatestBelowTop
    <3> QED
      BY <3>1, <3>2, <3>4, <3>6, LatestIsUnique
  <2>3. \A level \in Levels : display'[level] = caller.display[level]
    BY <1>4, <1>8, <2>1, <2>2
  <2> QED
    BY <1>8, <2>1, <2>3
<1> QED
  BY <1>1, <1>4, <1>5, <1>8, <1>9

\* A return that is made: the context of the callee is gone, the others stand.
LEMMA ReturnMadeKeeps ==
    ASSUME BalancedInvariant, MachineInvariant', Return, Track, callDepth > 0,
           ReturnError = NoError
    PROVE  /\ BalancedInvariant'
           /\ callDepth' < callDepth
           /\ LET caller == suspended[Len(suspended)]
              IN  frame' = caller.frame /\ display' = caller.display /\ pc' = caller.resume
<1>1. PICK caller : caller = Contexts[callDepth]
  OBVIOUS
<1>2. /\ frame' = caller.frame /\ display' = caller.display /\ pc' = caller.resume
      /\ pc' \in DOMAIN Heights[prog]
      /\ stack' = SubSeq(stack, 1, frame.bp) \o ReturnedSlots
      /\ callDepth' = callDepth - 1
      /\ UNCHANGED <<prog, memory, output, stopped, error, result>>
  BY <1>1, ReturnFindsCaller
<1>3. result = "running" /\ stopped = FALSE
  BY DEF Return, Executing, InLoop, BalancedInvariant, MachineInvariant, TypeOK
<1>4. PICK n \in Nat : n >= 2 /\ n = callDepth + 1 /\ n - 1 = callDepth /\ n = Len(Contexts)
  BY ContextsAreTyped
<1>5. /\ Contexts \in Seq(Context) /\ Contexts[n].frame = frame
      /\ suspended \in Seq(Context) /\ Len(suspended) = n - 1
      /\ \A j \in 1..(n - 1) : Contexts[j] = suspended[j]
  BY <1>4, ContextsAreTyped, AtRunningFrame DEF BalancedInvariant
<1>6. caller \in Context /\ caller = suspended[n - 1]
  BY <1>1, <1>4, AtRunningFrame
<1>7. callDepth' < callDepth /\ ~(callDepth' > callDepth)
  BY <1>2, <1>4
<1>8. /\ suspended' \in Seq(Context) /\ Len(suspended') = n - 2
      /\ \A j \in 1..(n - 2) : suspended'[j] = suspended[j]
  <2>1. suspended' = SubSeq(suspended, 1, n - 2)
    BY <1>4, <1>5, <1>7 DEF Track
  <2>2. n - 2 \in 0..Len(suspended)
    BY <1>4, <1>5
  <2> QED
    BY <1>5, <2>1, <2>2, PrefixProperties
<1>9. PICK D : D = Contexts'
  OBVIOUS
<1>10. D = Append(suspended', caller)
  <2>1. caller = [frame |-> caller.frame, display |-> caller.display, resume |-> caller.resume]
    BY <1>6 DEF Context
  <2> QED
    BY <1>2, <1>9, <2>1 DEF Contexts
<1>11. /\ D \in Seq(Context) /\ Len(D) = n - 1
       /\ \A j \in 1..(n - 1) : D[j] = Contexts[j]
  <2>1. /\ D \in Seq(Context) /\ Len(D) = n - 2 + 1
        /\ D[n - 2 + 1] = caller /\ \A j \in 1..(n - 2) : D[j] = suspended'[j]
    BY <1>6, <1>8, <1>10, AppendProperties
  <2>2. n - 2 + 1 = n - 1 /\ \A j \in 1..(n - 1) : j \in 1..(n - 2) \/ j = n - 1
    BY <1>4
  <2> QED
    BY <1>4, <1>5, <1>6, <1>8, <2>1, <2>2
<1>12. PICK line : line = caller.resume - 1
  OBVIOUS
<1>13. PICK info : info = Calls[Code[line + 1].operand]
  OBVIOUS
<1>14. /\ line \in DOMAIN Heights[prog]
       /\ frame = [bp |-> Base(Contexts, n - 1) + Heights[prog][line]
                            - info.parameterSlotCount,
                   slots |-> info.frameSlotCount, returnOffset |-> info.returnOffset,
                   returnSlots |-> info.returnSlotCount,
                   structured |-> info.structuredReturn, level |-> info.lexicalLevel]
       /\ info.parameterSlotCount <= Heights[prog][line]
       /\ IsLayout(info)
       /\ Heights[prog][line + 1] = Heights[prog][line] - info.parameterSlotCount
                        + (IF Returns(info) THEN info.returnSlotCount ELSE 0)
  <2>1. n \in 2..Len(Contexts) /\ line = Contexts[n - 1].resume - 1
    BY <1>1, <1>4, <1>12
  <2>2. LET l == Contexts[n - 1].resume - 1
            i == Calls[Code[l + 1].operand]
        IN  /\ l \in DOMAIN Heights[prog]
            /\ IsLayout(i)
            /\ Contexts[n].frame =
                 [bp |-> Base(Contexts, n - 1) + Heights[prog][l] - i.parameterSlotCount,
                  slots |-> i.frameSlotCount, returnOffset |-> i.returnOffset,
                  returnSlots |-> i.returnSlotCount,
                  structured |-> i.structuredReturn, level |-> i.lexicalLevel]
            /\ i.parameterSlotCount <= Heights[prog][l]
            /\ Heights[prog][l + 1] = Heights[prog][l] - i.parameterSlotCount
                        + (IF Returns(i) THEN i.returnSlotCount ELSE 0)
    BY <2>1, CallSiteIsSound
  <2> QED
    BY <1>5, <1>13, <2>1, <2>2
<1>15. /\ Base(Contexts, n - 1) + Heights[prog][pc'] \in Nat
       /\ Len(stack') = Base(Contexts, n - 1) + Heights[prog][pc']
       /\ \A i \in 1..frame.bp : stack'[i] = stack[i]
  <2>1. /\ Len(stack') = frame.bp + (IF ReturnsValue THEN frame.returnSlots ELSE 0)
        /\ \A i \in 1..frame.bp : stack'[i] = stack[i]
    BY <1>2, ReturnedFits DEF BalancedInvariant, MachineInvariant
  <2>2. PICK base \in Nat, height \in Nat : base = Base(Contexts, n - 1) /\ height = Heights[prog][line]
    <3>1. n - 1 \in 1..Len(Contexts)
      BY <1>4
    <3>2. Base(Contexts, n - 1) \in Nat
      BY <1>5, <3>1, ContextIsTyped
    <3>3. Heights[prog][line] \in Nat
      BY <1>3, <1>14, AtLine
    <3> QED
      BY <3>2, <3>3
  <2>3. PICK size \in Nat : size = info.parameterSlotCount /\ size <= height
    <3>1. info.frameSlotCount \in Nat
      <4>1. frame.slots = info.frameSlotCount
        BY <1>14
      <4> QED
        BY <4>1, ContextsAreTyped
    <3> QED
      BY <1>14, <2>2, <3>1 DEF IsLayout
  <2>4. frame.bp = base + height - size
    <3>1. frame.bp = Base(Contexts, n - 1) + Heights[prog][line] - info.parameterSlotCount
      BY <1>14
    <3> QED
      BY <2>2, <2>3, <3>1
  <2>5. PICK count \in Nat : count = IF ReturnsValue THEN frame.returnSlots ELSE 0
    BY AtRunningFrame
  <2>6. count = IF Returns(info) THEN info.returnSlotCount ELSE 0
    <3>1. frame.returnSlots = info.returnSlotCount /\ frame.returnOffset = info.returnOffset
      BY <1>14
    <3> QED
      BY <2>5, <3>1 DEF ReturnsValue, Returns
  <2>7. line + 1 = pc'
    <3>1. caller.resume \in Nat
      BY <1>6 DEF Context
    <3> QED
      BY <1>2, <1>12, <3>1
  <2>8. Heights[prog][pc'] = height - size + count
    <3>1. Heights[prog][line + 1] = height - size + count
      BY <1>14, <2>2, <2>3, <2>6
    <3> QED
      BY <2>7, <3>1
  <2>9. Len(stack') = base + height - size + count
    BY <2>1, <2>4, <2>5
  <2> QED
    BY <2>1, <2>2, <2>3, <2>8, <2>9, SMTT(30)
<1>16. FramesStand(Library[prog], Heights[prog], D, stack')
  <2>1. FramesStand(Library[prog], Heights[prog], Contexts, stack)
    BY DEF BalancedInvariant
  <2>2. Len(Contexts) >= 2 /\ Len(D) = Len(Contexts) - 1
    BY <1>4, <1>11
  <2>3. Base(Contexts, Len(Contexts) - 1) <= Len(stack')
    <3>1. PICK base \in Nat : base = Base(Contexts, n - 1)
      <4>1. n - 1 \in 1..Len(Contexts)
        BY <1>4
      <4> QED
        BY <1>5, <4>1, ContextIsTyped
    <3>2. Heights[prog][pc'] \in Nat
      BY <1>2, <1>3, AtLine
    <3> QED
      BY <1>4, <1>15, <3>1, <3>2
  <2>4. \A j \in 1..(Len(Contexts) - 1) : D[j] = Contexts[j]
    BY <1>4, <1>11
  <2>5. \A i \in 1..Contexts[Len(Contexts)].frame.bp : stack'[i] = stack[i]
    BY <1>4, <1>5, <1>15
  <2> QED
    BY <1>11, <2>1, <2>2, <2>3, <2>4, <2>5, LeavingStands
<1>17. AtHeight'
  <2>1. callDepth' + 1 = n - 1 /\ n - 1 \in 1..(n - 1)
    BY <1>2, <1>4
  <2>2. Base(D, n - 1) = Base(Contexts, n - 1)
    BY <1>11, <2>1 DEF Base
  <2>3. prog' = prog
    BY <1>2
  <2>4. Len(stack') = Base(D, callDepth' + 1) + Heights[prog][pc']
    BY <1>15, <2>1, <2>2
  <2> QED
    BY <1>2, <1>9, <2>3, <2>4 DEF AtHeight
<1>18. EndsInBalance'
  BY <1>2, <1>3 DEF EndsInBalance, BalancedInvariant
<1>19. FramesStand(Library[prog], Heights[prog], Contexts, stack)'
  BY <1>2, <1>9, <1>16
<1>20. (suspended \in Seq(Context) /\ Len(suspended) = callDepth)'
  <2>1. callDepth - 1 = n - 2
    BY <1>4
  <2> QED
    BY <1>2, <1>8, <2>1
<1>21. (stopped => Heights[prog][pc] = 0 /\ result # "false")'
  BY <1>2, <1>3
<1>22. suspended[Len(suspended)] = caller
  BY <1>5, <1>6
<1> QED
  BY <1>2, <1>7, <1>17, <1>18, <1>19, <1>20, <1>21, <1>22 DEF BalancedInvariant

-----------------------------------------------------------------------------
(* Every step. *)

\* A return puts back what its call found.
RestoresCaller ==
    LET caller == suspended[Len(suspended)]
    IN  frame' = caller.frame /\ display' = caller.display /\ pc' = caller.resume

SoundStep ==
    /\ BalancedInvariant'
    /\ callDepth' >= callDepth => HiddenStays
    /\ callDepth' < callDepth => RestoresCaller

LEMMA StayingIsSound ==
    ASSUME BalancedInvariant, MachineInvariant', StaysBalanced
    PROVE  SoundStep
<1>1. callDepth' = callDepth /\ callDepth \in Nat /\ HiddenStays
  BY ContextsAreTyped DEF StaysBalanced
<1>2. ~(callDepth' < callDepth)
  BY <1>1
<1> QED
  BY <1>1, <1>2, StayingKeeps DEF SoundStep

\* A step that changes nothing.
LEMMA StandingStays ==
    ASSUME BalancedInvariant, MachineInvariant', UNCHANGED <<vars, suspended>>
    PROVE  StaysBalanced
<1>1. /\ UNCHANGED <<prog, frame, display, callDepth, suspended, stack, pc>>
      /\ UNCHANGED <<error, result, stopped>>
  BY DEF vars
<1>2. Floor <= Len(stack)
  BY ContextsAreTyped DEF BalancedInvariant, FramesStand, Floor
<1>3. HiddenStays
  <2>1. Len(stack) \in Nat
    BY LenProperties DEF BalancedInvariant, MachineInvariant, TypeOK
  <2>2. \A i \in 1..Len(stack) : i <= Len(stack)
    BY <2>1
  <2> QED
    BY <1>1, <2>2 DEF HiddenStays
<1>4. result # "false" =>
        pc \in DOMAIN Heights[prog] /\ Len(stack) = Floor + Heights[prog][pc]
  BY AtLine
<1>5. /\ error \notin BalanceErrors
      /\ result = "true" => stack = <<>> /\ callDepth = 0
      /\ stopped => Heights[prog][pc] = 0 /\ result # "false"
  BY DEF BalancedInvariant, EndsInBalance
<1> QED
  BY <1>1, <1>2, <1>3, <1>4, <1>5 DEF StaysBalanced

LEMMA CallIsSound ==
    ASSUME BalancedInvariant, MachineInvariant', Call, Track
    PROVE  SoundStep
<1>1. CASE result' = "false"
  BY <1>1, CallRefusedStays, StayingIsSound
<1>2. CASE result' # "false"
  <2>1. BalancedInvariant' /\ HiddenStays /\ callDepth' = callDepth + 1
    BY <1>2, CallMadeKeeps
  <2>2. ~(callDepth' < callDepth)
    BY <2>1, ContextsAreTyped
  <2> QED
    BY <2>1, <2>2 DEF SoundStep
<1> QED
  BY <1>1, <1>2

LEMMA ReturnIsSound ==
    ASSUME BalancedInvariant, MachineInvariant', Return, Track
    PROVE  SoundStep
<1>1. callDepth \in Nat
  BY ContextsAreTyped
<1>2. CASE callDepth = 0 \/ ReturnError # NoError
  BY <1>2, ReturnRefusedStays, StayingIsSound
<1>3. CASE callDepth > 0 /\ ReturnError = NoError
  <2>1. BalancedInvariant' /\ callDepth' < callDepth /\ RestoresCaller
    BY <1>3, ReturnMadeKeeps DEF RestoresCaller
  <2>2. callDepth' \in Nat
    BY <2>1, StackMachineAssumption DEF BalancedInvariant, MachineInvariant, TypeOK
  <2>3. ~(callDepth' >= callDepth)
    BY <1>1, <2>1, <2>2
  <2> QED
    BY <2>1, <2>3 DEF SoundStep
<1> QED
  BY <1>1, <1>2, <1>3

LEMMA StepIsSound ==
    ASSUME BalancedInvariant, [TrackedNext]_TrackedVars
    PROVE  SoundStep
<1>1. MachineInvariant'
  <2>1. [Next]_vars
    BY DEF TrackedNext, TrackedVars
  <2> QED
    BY <2>1, NextKeeps DEF BalancedInvariant
<1>2. ASSUME Next, Track PROVE SoundStep
  <2>1. CASE Int_ \/ Literal \/ Load \/ Store \/ Jump \/ JumpIfZero
    BY <1>1, <1>2, <2>1, IntStays, LiteralStays, LoadStays, StoreStays, JumpStays,
       JumpIfZeroStays, StayingIsSound
  <2>2. CASE Call \/ Return
    BY <1>1, <1>2, <2>2, CallIsSound, ReturnIsSound
  <2>3. CASE Negate \/ Calculate \/ Compare \/ ConvertToReal \/ ConvertToChar
    <3>1. /\ {OPR_NEG} \in SUBSET ValueCodes
          /\ ArithmeticCodes \in SUBSET ValueCodes
          /\ ComparisonCodes \in SUBSET ValueCodes
          /\ {OPR_TO_REAL} \in SUBSET ValueCodes
          /\ {OPR_TO_CHAR} \in SUBSET ValueCodes
      BY DEF ValueCodes, UnaryCodes
    <3>2. PICK codes \in SUBSET ValueCodes : Operate(codes)
      BY <2>3, <3>1 DEF Negate, Calculate, Compare, ConvertToReal, ConvertToChar
    <3> QED
      BY <1>1, <1>2, <3>2, OperateStays, StayingIsSound
  <2>4. CASE Write \/ ReportRange \/ Discard \/ Leave
    BY <1>1, <1>2, <2>4, WriteStays, ReportRangeStays, DiscardStays, LeaveStays,
       StayingIsSound
  <2>5. ~InvalidOperation
    BY NoInvalidOperation
  <2>6. CASE Finished
    <3>1. UNCHANGED vars
      BY <2>6 DEF Finished
    <3>2. callDepth' = callDepth /\ callDepth \in Nat
      BY <3>1, ContextsAreTyped DEF vars
    <3>3. UNCHANGED <<vars, suspended>>
      BY <1>2, <3>1, <3>2 DEF Track
    <3> QED
      BY <1>1, <3>3, StandingStays, StayingIsSound
  <2> QED
    BY <1>2, <2>1, <2>2, <2>3, <2>4, <2>5, <2>6 DEF Next, Instructions
<1>3. CASE UNCHANGED TrackedVars
  <2>1. UNCHANGED <<vars, suspended>>
    BY <1>3 DEF TrackedVars
  <2> QED
    BY <1>1, <2>1, StandingStays, StayingIsSound
<1> QED
  BY <1>2, <1>3 DEF TrackedNext

LEMMA BalancedAtInit == TrackedInit => BalancedInvariant
<1> SUFFICES ASSUME TrackedInit PROVE BalancedInvariant
  OBVIOUS
<1>1. MachineInvariant
  BY InvariantAtInit DEF TrackedInit
<1>2. /\ prog \in DOMAIN Library /\ pc = 0 /\ stack = <<>> /\ frame = NoFrame
      /\ display = [level \in Levels |-> NoEntry] /\ callDepth = 0
      /\ stopped = FALSE /\ error = NoError /\ result = "running" /\ suspended = <<>>
  BY DEF TrackedInit, Init
<1> DEFINE top == [frame |-> frame, display |-> display, resume |-> pc]
<1>3. top \in Context
  <2>1. frame \in Registers
    BY <1>1, <1>2 DEF MachineInvariant, TypeOK, Registers, NoFrame
  <2>2. display \in [Levels -> DisplayEntry] /\ pc \in Nat
    BY <1>1, <1>2 DEF MachineInvariant, TypeOK
  <2> QED
    BY <2>1, <2>2 DEF Context
<1> HIDE DEF top
<1>4. suspended \in Seq(Context) /\ Len(suspended) = 0
  BY <1>2
<1>5. PICK C : C = Contexts
  OBVIOUS
<1>6. C \in Seq(Context) /\ Len(C) = 1 /\ C[1] = top
  <2>1. C = Append(suspended, top)
    BY <1>5 DEF Contexts, top
  <2>2. C \in Seq(Context) /\ Len(C) = 0 + 1 /\ C[0 + 1] = top
    BY <1>3, <1>4, <2>1, AppendProperties
  <2> QED
    BY <2>2
<1>7. Base(C, 1) = 0
  BY DEF Base
<1>8. FramesStand(Library[prog], Heights[prog], C, stack)
  <2>1. \A j \in 2..Len(C) : FALSE
    BY <1>6
  <2>2. CallsStand(Library[prog], Heights[prog], C) /\ LinkagesStand(C, stack)
    BY <2>1 DEF CallsStand, LinkagesStand
  <2>3. FramesApart(C)
    <3>1. \A j \in 1..Len(C) : j = 1 /\ LinkageWords * (j - 1) <= Base(C, j)
      BY <1>6, <1>7 DEF LinkageWords
    <3> QED
      BY <2>1, <3>1 DEF FramesApart
  <2>4. DisplaysStand(C)
    <3> SUFFICES ASSUME NEW j \in 1..Len(C), NEW level \in Levels
                 PROVE  IsLatest(C, j, level, C[j].display[level])
      BY DEF DisplaysStand
    <3>1. j = 1
      BY <1>6
    <3>2. C[j].display[level] = NoEntry
      BY <1>2, <1>6, <3>1 DEF top
    <3>3. \A i \in 2..j : C[i].frame.level # level
      BY <3>1
    <3> QED
      BY <3>2, <3>3 DEF IsLatest
  <2>5. Base(C, Len(C)) <= Len(stack)
    BY <1>2, <1>6, <1>7
  <2>6. C[1].frame = NoFrame
    BY <1>2, <1>6 DEF top
  <2> QED
    BY <1>6, <2>2, <2>3, <2>4, <2>5, <2>6 DEF FramesStand
<1>9. AtHeight
  <2>1. 0 \in DOMAIN Heights[prog] /\ Heights[prog][0] = 0
    BY <1>2, BalancedAssumption DEF IsBalanced
  <2>2. Base(Contexts, callDepth + 1) = 0
    BY <1>2, <1>5, <1>7
  <2> QED
    BY <1>2, <2>1, <2>2 DEF AtHeight
<1>10. EndsInBalance
  BY <1>2 DEF EndsInBalance, BalanceErrors, NoError
<1> QED
  BY <1>1, <1>2, <1>4, <1>5, <1>8, <1>9, <1>10 DEF BalancedInvariant

-----------------------------------------------------------------------------
(* What the invariant says of the frames alive. *)

LEMMA FramesAlive ==
    ASSUME BalancedInvariant, NEW i \in Alive
    PROVE  /\ i \in Nat /\ i + 1 \in 2..Len(Contexts) /\ i + 1 - 1 = i
           /\ FrameOf(i) = Contexts[i + 1].frame
           /\ suspended[i] = Contexts[i]
<1>1. /\ callDepth \in Nat /\ Len(Contexts) = callDepth + 1
      /\ \A j \in 1..callDepth : Contexts[j] = suspended[j]
      /\ Contexts[callDepth + 1].frame = frame
  BY ContextsAreTyped
<1>2. i \in Nat /\ i \in 1..callDepth /\ i + 1 \in 2..(callDepth + 1) /\ i + 1 - 1 = i
  BY <1>1 DEF Alive
<1>3. FrameOf(i) = Contexts[i + 1].frame
  <2>1. CASE i = callDepth
    BY <1>1, <2>1 DEF FrameOf
  <2>2. CASE i # callDepth
    <3>1. i + 1 \in 1..callDepth
      BY <1>1, <1>2, <2>2
    <3> QED
      BY <1>1, <2>2, <3>1 DEF FrameOf
  <2> QED
    BY <2>1, <2>2
<1> QED
  BY <1>1, <1>2, <1>3

LEMMA LinkagesIntact == BalancedInvariant => LinkageIntact
<1> SUFFICES ASSUME BalancedInvariant, NEW i \in Alive
             PROVE  LET held   == FrameOf(i)
                        caller == suspended[i]
                    IN  /\ caller.frame.bp <= held.bp
                        /\ i > 1 => OperandBase(caller.frame) <= held.bp
                        /\ OperandBase(held) <= OperandEnd(i)
                        /\ \A w \in 1..LinkageWords : Word(held, w).type = "integer"
                        /\ Saved(held, LinkageWords) = Canary
                        /\ CallerOf(held) = caller.frame
                        /\ held.level \in Levels
                        /\ DisplacedBy(held) = caller.display[held.level]
                        /\ Saved(held, 12) = caller.resume
  BY DEF LinkageIntact
<1>1. PICK j \in 2..Len(Contexts) :
         /\ j = i + 1 /\ j - 1 = i /\ FrameOf(i) = Contexts[j].frame
         /\ suspended[i] = Contexts[j - 1]
  <2>1. PICK j \in 2..Len(Contexts) : j = i + 1
    BY FramesAlive
  <2>2. j - 1 = i
    BY <2>1, FramesAlive
  <2> QED
    BY <2>1, <2>2, FramesAlive
<1>2. PICK held : held = FrameOf(i)
  OBVIOUS
<1>3. PICK caller : caller = suspended[i]
  OBVIOUS
<1>4. held.level \in Levels
  <2>1. PICK info : info = Calls[Code[Contexts[j - 1].resume - 1 + 1].operand]
    OBVIOUS
  <2>2. /\ IsLayout(info)
        /\ held = [bp |-> Base(Contexts, j - 1) + Heights[prog][Contexts[j - 1].resume - 1]
                            - info.parameterSlotCount,
                   slots |-> info.frameSlotCount, returnOffset |-> info.returnOffset,
                   returnSlots |-> info.returnSlotCount,
                   structured |-> info.structuredReturn, level |-> info.lexicalLevel]
    BY <1>1, <1>2, <2>1, CallSiteIsSound
  <2>3. held.level = info.lexicalLevel
    BY <2>2
  <2> QED
    BY <2>2, <2>3 DEF IsLayout
<1>5. /\ \A w \in 1..LinkageWords : Word(held, w).type = "integer"
      /\ Saved(held, LinkageWords) = Canary
      /\ CallerOf(held) = caller.frame
      /\ DisplacedBy(held) = caller.display[held.level]
      /\ Saved(held, 12) = caller.resume
  BY <1>1, <1>2, <1>3, <1>4, LinkageReads
<1>6. /\ Contexts \in Seq(Context) /\ FramesApart(Contexts) /\ Contexts[1].frame = NoFrame
      /\ Base(Contexts, Len(Contexts)) <= Len(stack)
  BY DEF BalancedInvariant, FramesStand
<1>7. /\ Len(Contexts) \in Nat /\ Len(Contexts) = callDepth + 1 /\ callDepth \in Nat
      /\ j \in 1..Len(Contexts) /\ j - 1 \in 1..Len(Contexts) /\ j # 1
  BY ContextsAreTyped
<1>8. PICK bp \in Nat, slots \in Nat :
         /\ bp = held.bp /\ slots = held.slots /\ Base(Contexts, j) = bp + slots + 13
         /\ OperandBase(held) = bp + slots + 13
  <2>1. OperandBase(held) = held.bp + held.slots + 13
    BY DEF OperandBase, LinkageWords
  <2>2. held = Contexts[j].frame
    BY <1>1, <1>2
  <2>3. /\ held.bp \in Nat /\ held.slots \in Nat
        /\ Base(Contexts, j) = held.bp + held.slots + 13
    BY <1>6, <1>7, <2>2, ContextIsTyped
  <2> QED
    BY <2>1, <2>3
<1>9. PICK at \in Nat, size \in Nat :
         /\ at = caller.frame.bp /\ size = caller.frame.slots
         /\ OperandBase(caller.frame) = at + size + 13
         /\ j - 1 # 1 => Base(Contexts, j - 1) = at + size + 13
  <2>1. OperandBase(caller.frame) = caller.frame.bp + caller.frame.slots + 13
    BY DEF OperandBase, LinkageWords
  <2>2. PICK below \in 1..Len(Contexts) : below = j - 1 /\ caller = Contexts[below]
    BY <1>1, <1>3, <1>7
  <2>3. /\ caller.frame.bp \in Nat /\ caller.frame.slots \in Nat
        /\ below # 1 => Base(Contexts, below) = caller.frame.bp + caller.frame.slots + 13
    BY <1>6, <2>2, ContextIsTyped
  <2> QED
    BY <2>1, <2>2, <2>3
<1>10. i > 1 => at + size + 13 <= bp
  <2> SUFFICES ASSUME i > 1 PROVE at + size + 13 <= bp
    OBVIOUS
  <2>1. j - 1 \in 2..Len(Contexts) /\ j - 1 < j /\ j - 1 # 1
    BY <1>1, <1>7
  <2>2. Base(Contexts, j - 1) <= Contexts[j].frame.bp
    BY <1>6, <2>1 DEF FramesApart
  <2> QED
    BY <1>1, <1>2, <1>8, <1>9, <2>1, <2>2
<1>11. at <= bp
  <2>1. CASE i > 1
    BY <1>10, <2>1
  <2>2. CASE ~(i > 1)
    <3>1. i = 1
      BY <1>1, <1>7, <2>2
    <3>2. at = 0
      BY <1>1, <1>3, <1>6, <1>9, <3>1 DEF NoFrame
    <3> QED
      BY <3>2
  <2> QED
    BY <2>1, <2>2
<1>12. bp + slots + 13 <= OperandEnd(i)
  <2>1. CASE i = callDepth
    <3>1. j = Len(Contexts)
      BY <1>1, <1>7, <2>1
    <3> QED
      BY <1>6, <1>8, <2>1, <3>1 DEF OperandEnd
  <2>2. CASE i # callDepth
    <3>1. i + 1 \in Alive /\ j + 1 \in 2..Len(Contexts) /\ j < j + 1 /\ j + 1 = i + 1 + 1
      BY <1>1, <1>7, <2>2 DEF Alive
    <3>2. FrameOf(i + 1) = Contexts[j + 1].frame
      BY <3>1, FramesAlive
    <3>3. Base(Contexts, j) <= Contexts[j + 1].frame.bp
      BY <1>6, <3>1 DEF FramesApart
    <3> QED
      BY <1>8, <2>2, <3>2, <3>3 DEF OperandEnd
  <2> QED
    BY <2>1, <2>2
<1> QED
  BY <1>2, <1>3, <1>4, <1>5, <1>8, <1>9, <1>10, <1>11, <1>12

LEMMA DisplayIsLatest == BalancedInvariant => DisplayHoldsLatest
<1> SUFFICES ASSUME BalancedInvariant, NEW level \in Levels
             PROVE  LET at == {i \in Alive : FrameOf(i).level = level}
                    IN  IF at = {}
                        THEN ~display[level].active
                        ELSE \E i \in at :
                                /\ \A j \in at : j <= i
                                /\ display[level] = [active |-> TRUE, bp |-> FrameOf(i).bp,
                                                     slots |-> FrameOf(i).slots]
  BY DEF DisplayHoldsLatest
<1> DEFINE at == {i \in Alive : FrameOf(i).level = level}
<1>1. PICK n \in Nat : n = callDepth + 1 /\ n = Len(Contexts) /\ n >= 1
  BY ContextsAreTyped
<1>2. IsLatest(Contexts, n, level, display[level])
  <2>1. n \in 1..Len(Contexts) /\ Contexts[n].display = display
    BY <1>1, ContextsAreTyped
  <2>2. DisplaysStand(Contexts)
    BY DEF BalancedInvariant, FramesStand
  <2> QED
    BY <2>1, <2>2 DEF DisplaysStand
<1>3. \A i \in Alive : i + 1 \in 2..n /\ FrameOf(i) = Contexts[i + 1].frame
  BY <1>1, FramesAlive
<1>4. \A k \in 2..n : k - 1 \in Alive /\ k - 1 + 1 = k
  BY <1>1, ContextsAreTyped DEF Alive
<1>5. ASSUME NEW k \in 2..n, Contexts[k].frame.level = level,
             \A m \in 2..n : Contexts[m].frame.level = level => m <= k,
             display[level] = [active |-> TRUE, bp |-> Contexts[k].frame.bp,
                               slots |-> Contexts[k].frame.slots]
      PROVE  \E i \in at :
                /\ \A j \in at : j <= i
                /\ display[level] = [active |-> TRUE, bp |-> FrameOf(i).bp,
                                     slots |-> FrameOf(i).slots]
  <2>1. PICK i \in Alive : i + 1 = k /\ FrameOf(i) = Contexts[k].frame
    BY <1>3, <1>4
  <2>2. i \in at
    BY <1>5, <2>1
  <2>3. ASSUME NEW j \in at PROVE j <= i
    <3>1. j \in Alive /\ j + 1 \in 2..n /\ Contexts[j + 1].frame.level = level
      BY <1>3
    <3>2. j + 1 <= i + 1 /\ j \in Nat /\ i \in Nat
      BY <1>5, <2>1, <3>1, FramesAlive
    <3> QED
      BY <3>2
  <2> QED
    BY <1>5, <2>1, <2>2, <2>3
<1>6. (\E i \in at : /\ \A j \in at : j <= i
                     /\ display[level] = [active |-> TRUE, bp |-> FrameOf(i).bp,
                                          slots |-> FrameOf(i).slots]) => at # {}
  OBVIOUS
<1> HIDE DEF at
<1>7. IF at = {}
      THEN ~display[level].active
      ELSE \E i \in at :
              /\ \A j \in at : j <= i
              /\ display[level] = [active |-> TRUE, bp |-> FrameOf(i).bp,
                                   slots |-> FrameOf(i).slots]
  <2>1. CASE /\ \A k \in 2..n : Contexts[k].frame.level # level
             /\ display[level] = NoEntry
    <3>1. at = {}
      BY <1>3, <2>1 DEF at
    <3>2. ~display[level].active
      BY <2>1 DEF NoEntry
    <3> QED
      BY <3>1, <3>2
  <2>2. CASE \E k \in 2..n :
                /\ Contexts[k].frame.level = level
                /\ \A m \in 2..n : Contexts[m].frame.level = level => m <= k
                /\ display[level] = [active |-> TRUE, bp |-> Contexts[k].frame.bp,
                                     slots |-> Contexts[k].frame.slots]
    BY <1>5, <1>6, <2>2
  <2> QED
    BY <1>2, <2>1, <2>2 DEF IsLatest
<1> QED
  BY <1>7 DEF at

LEMMA DepthIsIdle == BalancedInvariant => DepthLimitIdle
<1> SUFFICES ASSUME BalancedInvariant PROVE LinkageWords * callDepth <= Len(stack)
  BY DEF DepthLimitIdle
<1>1. PICK n \in Nat, base \in Nat :
         n = callDepth /\ base = Base(Contexts, n + 1) /\ Len(Contexts) = n + 1
  BY ContextsAreTyped DEF Floor
<1>2. base <= Len(stack)
  BY <1>1 DEF BalancedInvariant, FramesStand
<1>3. LinkageWords * (n + 1 - 1) <= base
  <2>1. n + 1 \in 1..Len(Contexts)
    BY <1>1
  <2> QED
    BY <1>1, <2>1 DEF BalancedInvariant, FramesStand, FramesApart
<1>4. Len(stack) \in Nat
  BY LenProperties DEF BalancedInvariant, MachineInvariant, TypeOK
<1> QED
  BY <1>1, <1>2, <1>3, <1>4 DEF LinkageWords

LEMMA InvariantIsInductive ==
    /\ TrackedInit => BalancedInvariant
    /\ BalancedInvariant /\ [TrackedNext]_TrackedVars => BalancedInvariant'
BY BalancedAtInit, StepIsSound DEF SoundStep

-----------------------------------------------------------------------------
\* Whatever balanced code is run, and wherever an error stops it, every frame
\* alive holds under an intact canary what its call found: RET would find its way
\* back through all of them.
THEOREM LinkageStaysIntact == TrackedSpec => []LinkageIntact
<1>1. BalancedInvariant => LinkageIntact
  BY LinkagesIntact
<1> QED
  BY <1>1, InvariantIsInductive, PTL DEF TrackedSpec

\* After any nesting of calls and returns, the display holds the latest frame
\* alive of each level, and nothing for a level that has none.
THEOREM DisplayIsRight == TrackedSpec => []DisplayHoldsLatest
<1>1. BalancedInvariant => DisplayHoldsLatest
  BY DisplayIsLatest
<1> QED
  BY <1>1, InvariantIsInductive, PTL DEF TrackedSpec

\* Every frame alive takes its thirteen words of the stack, whatever the limits:
\* a depth limit above a thirteenth of the stack's decides nothing.
THEOREM DepthFollowsStack == TrackedSpec => []DepthLimitIdle
<1>1. BalancedInvariant => DepthLimitIdle
  BY DepthIsIdle
<1> QED
  BY <1>1, InvariantIsInductive, PTL DEF TrackedSpec

\* Balanced code never underflows or corrupts its stack, never leaves itself by a
\* jump, a call or a return, and ends with an empty stack in the main program.
THEOREM BalancedCodeEnds == TrackedSpec => []EndsInBalance
<1>1. BalancedInvariant => EndsInBalance
  BY DEF BalancedInvariant
<1> QED
  BY <1>1, InvariantIsInductive, PTL DEF TrackedSpec

\* A return puts back the registers and the whole display as the call found them,
\* and goes on behind the call.
THEOREM ReturnsRestore == TrackedSpec => ReturnRestoresCaller
<1>1. BalancedInvariant /\ [TrackedNext]_TrackedVars =>
        [callDepth' < callDepth =>
           LET caller == suspended[Len(suspended)]
           IN  /\ frame' = caller.frame
               /\ display' = caller.display
               /\ pc' = caller.resume]_TrackedVars
  BY StepIsSound DEF SoundStep, RestoresCaller
<1> QED
  BY <1>1, InvariantIsInductive, PTL DEF TrackedSpec, ReturnRestoresCaller

\* Until a frame returns, no step changes a linkage word, a slot of a frame hidden
\* from the running code, or an operand a suspended caller left pending.
THEOREM HiddenWordsStay == TrackedSpec => HiddenWordsStable
<1>1. BalancedInvariant /\ [TrackedNext]_TrackedVars =>
        [callDepth' >= callDepth =>
           \A i \in (1..Len(stack)) \ Writable :
              i <= Len(stack') /\ stack'[i] = stack[i]]_vars
  BY StepIsSound DEF SoundStep, HiddenStays
<1> QED
  BY <1>1, InvariantIsInductive, PTL DEF TrackedSpec, HiddenWordsStable
==============================================================================
