---------------------------- MODULE KernelProofs ----------------------------
(***************************************************************************)
(* What holds of the kernel for every firmware, every set of interrupt     *)
(* lines and exceptions, and any number of them at any time.               *)
(*                                                                         *)
(* Interrupts first.  PicInv says how far the two controllers are for each *)
(* word disablePIC has written, InitInv what init has done before it turns *)
(* interrupts on; together: with interrupts on, both controllers are       *)
(* masked and sit on vectors 0xf8 to 0xff.  NestInv says what each handler *)
(* in progress has on the stack.                                           *)
(***************************************************************************)
EXTENDS Kernel, SequenceTheorems, WellFoundedInduction, TLAPS

\* What has become of a controller that got n of its five words.
After(c, n) ==
    /\ c.icw = CASE n = 1 -> 2 [] n = 2 -> 3 [] n = 3 -> 4 [] OTHER -> 0
    /\ n \in 2 .. 5 => c.base = 248
    /\ n = 5 => c.mask = AllLines

Pics == [base : Nat, mask : SUBSET AllLines, irr : SUBSET AllLines, icw : {0, 2, 3, 4}]

PicInv ==
    /\ outs \in 0 .. 10
    /\ pic \in [Controllers -> Pics]
    /\ After(pic["master"], (outs + 1) \div 2)
    /\ After(pic["slave"], outs \div 2)

InitInv ==
    /\ step \in {"disablePIC", "installAll", "loadIDT", "lidt", "sti", "enabled"}
    /\ step = "disablePIC" <=> outs < 10
    /\ step \notin {"disablePIC", "installAll"} => installed = IDT_SIZE
    /\ idtr <=> step \in {"sti", "enabled"}
    /\ flagIF => step = "enabled"
    /\ flagIF \in BOOLEAN

-----------------------------------------------------------------------------
LEMMA PicStarts == IntInit => PicInv /\ InitInv
  <1> SUFFICES ASSUME IntInit PROVE PicInv /\ InitInv
    OBVIOUS
  <1>1. /\ pic["master"] = [base |-> 8, mask |-> {}, irr |-> {}, icw |-> 0]
        /\ pic["slave"] = [base |-> 112, mask |-> {}, irr |-> {}, icw |-> 0]
    BY DEF IntInit, Controllers
  <1>2. (0 + 1) \div 2 = 0 /\ 0 \div 2 = 0
    OBVIOUS
  <1>3. After(pic["master"], 0) /\ After(pic["slave"], 0)
    BY <1>1 DEF After, AllLines
  <1>4. pic \in [Controllers -> Pics]
    <2>1. \A c \in Controllers :
             [base |-> IF c = "master" THEN 8 ELSE 112, mask |-> {}, irr |-> {}, icw |-> 0]
               \in Pics
      BY DEF Pics
    <2> QED
      BY <2>1, Zenon DEF IntInit
  <1>5. PicInv
    BY <1>2, <1>3, <1>4 DEF IntInit, PicInv
  <1>6. InitInv
    <2>1. step = "disablePIC" /\ outs < 10 /\ outs = 0
      BY DEF IntInit
    <2>2. ~idtr /\ ~flagIF /\ flagIF \in BOOLEAN
      BY Zenon DEF IntInit
    <2> QED
      BY <2>1, <2>2 DEF InitInv
  <1> QED
    BY <1>5, <1>6

\* A mask of 0xff masks all eight lines.
LEMMA MaskIsAll == {l \in AllLines : (255 \div 2^l) % 2 = 1} = AllLines
  <1>2. \A l : l \in AllLines <=> l \in {0, 1, 2, 3, 4, 5, 6, 7}
    BY DEF AllLines
  <1>3. \A l \in {0, 1, 2, 3, 4, 5, 6, 7} : (255 \div 2^l) % 2 = 1
    <2> SUFFICES ASSUME NEW l \in {0, 1, 2, 3, 4, 5, 6, 7} PROVE (255 \div 2^l) % 2 = 1
      OBVIOUS
    <2>0. CASE l = 0
      BY <2>0
    <2>1. CASE l = 1
      BY <2>1
    <2>2. CASE l = 2
      BY <2>2
    <2>3. CASE l = 3
      BY <2>3
    <2>4. CASE l = 4
      BY <2>4
    <2>5. CASE l = 5
      BY <2>5
    <2>6. CASE l = 6
      BY <2>6
    <2>7. CASE l = 7
      BY <2>7
    <2> QED
      BY <2>0, <2>1, <2>2, <2>3, <2>4, <2>5, <2>6, <2>7
  <1>4. \A l \in AllLines : (255 \div 2^l) % 2 = 1
    BY <1>2, <1>3, ZenonT(30)
  <1> HIDE DEF AllLines
  <1> QED
    BY <1>4, ZenonT(30)

\* The word a controller gets after n others.
IsWord(o, n) ==
    /\ o.port = IF n = 0 THEN "command" ELSE "data"
    /\ n = 1 => o.word = 254
    /\ n = 4 => o.word = 255

\* disablePIC sends the two controllers their words in turn.
LEMMA WordsInTurn ==
    ASSUME NEW k \in 0 .. 9
    PROVE  /\ PicWords[k + 1].to = IF k % 2 = 0 THEN "master" ELSE "slave"
           /\ IsWord(PicWords[k + 1], k \div 2)
  <1> USE DEF PicWords, Out, IsWord, ICW1, MASTER_PIC_VECTOR_OFFSET, SLAVE_PIC_VECTOR_OFFSET,
              ICW4_8086, PIC_MASK_INTERRUPTS
  <1>0. CASE k = 0
    BY <1>0
  <1>1. CASE k = 1
    BY <1>1
  <1>2. CASE k = 2
    BY <1>2
  <1>3. CASE k = 3
    BY <1>3
  <1>4. CASE k = 4
    BY <1>4
  <1>5. CASE k = 5
    BY <1>5
  <1>6. CASE k = 6
    BY <1>6
  <1>7. CASE k = 7
    BY <1>7
  <1>8. CASE k = 8
    BY <1>8
  <1>9. CASE k = 9
    BY <1>9
  <1> QED
    BY <1>0, <1>1, <1>2, <1>3, <1>4, <1>5, <1>6, <1>7, <1>8, <1>9

\* Writing fields of a controller with values of their sets leaves a controller.
LEMMA BaseOfPic ==
    ASSUME NEW c \in Pics, NEW b \in Nat
    PROVE  [c EXCEPT !.base = b] \in Pics /\ [c EXCEPT !.base = b].base = b
    BY DEF Pics

LEMMA LinesOfPic ==
    ASSUME NEW c \in Pics
    PROVE  [c EXCEPT !.mask = {}] \in Pics /\ [c EXCEPT !.irr = {}] \in Pics
    BY DEF Pics

LEMMA IcwOfPic ==
    ASSUME NEW c \in Pics, NEW i \in {0, 2, 3, 4}
    PROVE  /\ [c EXCEPT !.icw = i] \in Pics
           /\ [c EXCEPT !.icw = i].icw = i
           /\ [c EXCEPT !.icw = i].base = c.base
    BY DEF Pics

LEMMA ClearedPic ==
    ASSUME NEW c \in Pics, NEW i \in {0, 2, 3, 4}
    PROVE  /\ [c EXCEPT !.mask = {}, !.irr = {}, !.icw = i] \in Pics
           /\ [c EXCEPT !.mask = {}, !.irr = {}, !.icw = i].icw = i
  <1> DEFINE m == [c EXCEPT !.mask = {}]
             r == [m EXCEPT !.irr = {}]
  <1>1. m \in Pics
    BY LinesOfPic
  <1> HIDE DEF m
  <1>2. r \in Pics
    BY <1>1, LinesOfPic
  <1> HIDE DEF r
  <1>3. [r EXCEPT !.icw = i] \in Pics /\ [r EXCEPT !.icw = i].icw = i
    BY <1>2, IcwOfPic
  <1> QED
    BY <1>3, Zenon DEF m, r

\* A controller that got n words of its five takes the next one as such.
LEMMA TakesNextWord ==
    ASSUME NEW c \in Pics, NEW n \in 0 .. 4, NEW o, IsWord(o, n), After(c, n)
    PROVE  Accepted(c, o) \in Pics /\ After(Accepted(c, o), n + 1)
  <1> USE DEF Pics, After, IsWord
  <1>0. CASE n = 0
    <2>1. Accepted(c, o) = [c EXCEPT !.mask = {}, !.irr = {}, !.icw = 2]
      BY <1>0 DEF Accepted
    <2>2. Accepted(c, o) \in Pics /\ Accepted(c, o).icw = 2
      <3> HIDE DEF After, IsWord, Pics
      <3>1. 2 \in {0, 2, 3, 4}
        OBVIOUS
      <3> QED
        BY <2>1, <3>1, ClearedPic, Zenon
    <2> QED
      BY <1>0, <2>2
  <1>1. CASE n = 1
    <2>1. Accepted(c, o) = [c EXCEPT !.base = o.word - (o.word % 8), !.icw = 3]
      BY <1>1 DEF Accepted
    <2>2. o.word - (o.word % 8) = 248
      BY <1>1
    <2>a. Accepted(c, o) = [c EXCEPT !.base = 248, !.icw = 3]
      BY <2>1, <2>2
    <2>3. Accepted(c, o) \in Pics /\ Accepted(c, o).icw = 3 /\ Accepted(c, o).base = 248
      <3> HIDE DEF After, IsWord, Pics
      <3> DEFINE v == [c EXCEPT !.base = 248]
                 w == [v EXCEPT !.icw = 3]
      <3>1. 248 \in Nat /\ 3 \in {0, 2, 3, 4}
        OBVIOUS
      <3>2. v \in Pics /\ v.base = 248
        BY <3>1, BaseOfPic
      <3>3. Accepted(c, o) = w
        BY <2>a, Zenon
      <3> HIDE DEF v
      <3>4. w \in Pics /\ w.icw = 3 /\ w.base = v.base
        BY <3>1, <3>2, IcwOfPic
      <3> HIDE DEF w
      <3> QED
        BY <3>2, <3>3, <3>4
    <2> QED
      BY <1>1, <2>3
  <1>2. CASE n = 2
    <2>1. Accepted(c, o) = [c EXCEPT !.icw = 4]
      BY <1>2 DEF Accepted
    <2> QED
      BY <1>2, <2>1
  <1>3. CASE n = 3
    <2>1. Accepted(c, o) = [c EXCEPT !.icw = 0]
      BY <1>3 DEF Accepted
    <2> QED
      BY <1>3, <2>1
  <1>4. CASE n = 4
    <2>1. Accepted(c, o) = [c EXCEPT !.mask = {l \in AllLines : (o.word \div 2^l) % 2 = 1}]
      BY <1>4 DEF Accepted
    <2>2. Accepted(c, o) = [c EXCEPT !.mask = AllLines]
      <3>1. o.word = 255
        BY <1>4
      <3>2. {l \in AllLines : (o.word \div 2^l) % 2 = 1} = AllLines
        BY <3>1, MaskIsAll
      <3> QED
        BY <2>1, <3>2
    <2> QED
      BY <1>4, <2>2
  <1> QED
    BY <1>0, <1>1, <1>2, <1>3, <1>4

-----------------------------------------------------------------------------
(***************************************************************************)
(* The handlers in progress.  Each was entered from the state its record   *)
(* keeps, which is kmain's for the oldest and, for every other, a state of *)
(* the handler before it.                                                  *)
(***************************************************************************)
Places == {"kmain", "stub", "interruptHandler", "popal"}

StackWords ==
    {"eflags", "cs", "eip", "error", "number", "pushal", "return"}
        \X (BOOLEAN \cup {"kernel"} \cup Places \cup Nat)

Takens ==
    [vector : 0 .. 255, source : {"line", "fault", "int"}, run : Places, flagIF : BOOLEAN,
     stack : Seq(StackWords), number : 0 .. 255]

HasErrorCode(t) == t.source = "fault" /\ t.vector \in ErrorCode

\* The stack when the stub is entered, and when it calls interruptHandler.
Entered(t) ==
    t.stack \o << <<"eflags", t.flagIF>>, <<"cs", "kernel">>, <<"eip", t.run>> >>
            \o (IF HasErrorCode(t) THEN << <<"error", t.vector>> >> ELSE <<>>)

Called(t) ==
    t.stack \o << <<"eflags", t.flagIF>>, <<"cs", "kernel">>, <<"eip", t.run>> >>
            \o << <<"error", IF HasErrorCode(t) THEN t.vector ELSE 0>> >>
            \o << <<"number", t.vector>>, <<"pushal", t.vector>>, <<"return", 0>> >>

\* Place, flag, stack and number are those of the handler of t.
Handling(r, f, s, n, t) ==
    /\ r \in Places \ {"kmain"}
    /\ f = FALSE
    /\ n = t.vector
    /\ r = "stub" => s = Entered(t)
    /\ r \in {"interruptHandler", "popal"} => s = Called(t)

\* The k-th interrupt in progress.
TakenInv(k) ==
    LET t == taken[k] IN
    /\ t.source = "line" => t.vector = Spurious /\ k = 1
    /\ t.source = "int" => t.vector = 52
    /\ t.flagIF => step = "enabled"
    /\ k = 1 => t.run = "kmain" /\ t.stack = <<>>
    /\ k > 1 => Handling(t.run, t.flagIF, t.stack, t.number, taken[k - 1])

NestInv ==
    /\ run \in Places \cup {"panic", "reset"}
    /\ stack \in Seq(StackWords)
    /\ number \in 0 .. 255
    /\ taken \in Seq(Takens)
    /\ run \in Places /\ taken = <<>> => run = "kmain" /\ stack = <<>>
    /\ run \in Places /\ taken # <<>> => Handling(run, flagIF, stack, number, taken[Len(taken)])
    /\ \A k \in 1 .. Len(taken) : TakenInv(k)

IntInv == PicInv /\ InitInv /\ NestInv

\* Words popped one after the other.
LEMMA PoppedWords ==
    ASSUME NEW S, NEW s \in Seq(S), NEW a \in S, NEW b \in S, NEW c \in S, NEW d \in S,
           NEW e \in S, NEW f \in S, NEW g \in S
    PROVE  LET x == s \o <<a, b, c>> \o <<d>> \o <<e, f, g>> IN
           /\ Len(x) - 7 = Len(s)
           /\ x[Len(x) - 2] = e
           /\ x[Len(x) - 4] = c
           /\ x[Len(x) - 6] = a
           /\ SubSeq(x, 1, Len(s)) = s
    OBVIOUS

\* What is pushed are words of the stack.
LEMMA WordsOnStack ==
    ASSUME NEW t \in Takens
    PROVE  /\ <<"eflags", t.flagIF>> \in StackWords /\ <<"cs", "kernel">> \in StackWords
           /\ <<"eip", t.run>> \in StackWords
           /\ <<"error", IF HasErrorCode(t) THEN t.vector ELSE 0>> \in StackWords
           /\ <<"number", t.vector>> \in StackWords /\ <<"pushal", t.vector>> \in StackWords
           /\ <<"return", 0>> \in StackWords /\ t.stack \in Seq(StackWords)
  <1>1. t.flagIF \in BOOLEAN /\ t.run \in Places /\ t.vector \in 0 .. 255
    BY DEF Takens
  <1>2. t.vector \in Nat /\ 0 \in Nat
    BY <1>1
  <1>3. (IF HasErrorCode(t) THEN t.vector ELSE 0) \in Nat
    BY <1>2
  <1>4. t.stack \in Seq(StackWords)
    BY DEF Takens
  <1>5. \A n \in Nat : /\ <<"error", n>> \in StackWords /\ <<"number", n>> \in StackWords
                       /\ <<"pushal", n>> \in StackWords /\ <<"return", n>> \in StackWords
    BY Zenon DEF StackWords
  <1>6. <<"eflags", t.flagIF>> \in StackWords
    BY <1>1, Zenon DEF StackWords
  <1>7. <<"cs", "kernel">> \in StackWords
    BY Zenon DEF StackWords
  <1>8. <<"eip", t.run>> \in StackWords
    BY <1>1, Zenon DEF StackWords
  <1> QED
    BY <1>2, <1>3, <1>4, <1>5, <1>6, <1>7, <1>8, Zenon

\* Processor and stub between them push one error code, whatever the vector.
LEMMA OneErrorCode ==
    ASSUME NEW t \in Takens, t.source = "line" => t.vector = Spurious, t.source = "int" => t.vector = 52
    PROVE  /\ Entered(t) \in Seq(StackWords)
           /\ Called(t) \in Seq(StackWords)
           /\ Entered(t) \o (IF t.vector \in CREATE_HANDLER_ERR THEN <<>> ELSE << <<"error", 0>> >>)
                         \o << <<"number", t.vector>>, <<"pushal", t.vector>>, <<"return", 0>> >>
                = Called(t)
  <1> DEFINE a == <<"eflags", t.flagIF>>
             b == <<"cs", "kernel">>
             c == <<"eip", t.run>>
             d == <<"error", IF HasErrorCode(t) THEN t.vector ELSE 0>>
             e == <<"number", t.vector>>
             f == <<"pushal", t.vector>>
             g == <<"return", 0>>
             s == t.stack
  <1>1. /\ a \in StackWords /\ b \in StackWords /\ c \in StackWords /\ d \in StackWords
        /\ e \in StackWords /\ f \in StackWords /\ g \in StackWords
    BY WordsOnStack
  <1>2. s \in Seq(StackWords)
    BY DEF Takens
  <1> HIDE DEF a, b, c, d, e, f, g, s
  <1>5. /\ s \o <<a, b, c>> \in Seq(StackWords)
        /\ s \o <<a, b, c>> \o <<d>> \in Seq(StackWords)
        /\ s \o <<a, b, c>> \o <<d>> \o <<e, f, g>> \in Seq(StackWords)
    BY <1>1, <1>2
  <1>6. /\ s \o <<a, b, c>> \o <<>> = s \o <<a, b, c>>
        /\ s \o <<a, b, c>> \o <<d>> \o <<>> = s \o <<a, b, c>> \o <<d>>
    BY <1>5
  <1>7. Called(t) = s \o <<a, b, c>> \o <<d>> \o <<e, f, g>>
    BY DEF Called, a, b, c, d, e, f, g, s
  <1>3. CASE HasErrorCode(t)
    <2>1. Entered(t) = s \o <<a, b, c>> \o <<d>>
      BY <1>3 DEF Entered, a, b, c, d, s
    <2>2. t.vector \in CREATE_HANDLER_ERR
      BY <1>3 DEF HasErrorCode, CREATE_HANDLER_ERR, ErrorCode
    <2> QED
      BY <1>5, <1>6, <1>7, <2>1, <2>2, Zenon DEF e, f, g
  <1>4. CASE ~HasErrorCode(t)
    <2>1. Entered(t) = s \o <<a, b, c>> \o <<>> /\ d = <<"error", 0>>
      BY <1>4 DEF Entered, a, b, c, d, s
    <2>2. t.vector \notin CREATE_HANDLER_ERR
      BY <1>4 DEF HasErrorCode, CREATE_HANDLER_ERR, ErrorCode, Spurious, Takens
    <2> QED
      BY <1>5, <1>6, <1>7, <2>1, <2>2, Zenon DEF e, f, g
  <1> QED
    BY <1>3, <1>4

\* What interruptHandler and iret find on the stack.
LEMMA FrameOnStack ==
    ASSUME NEW t \in Takens
    PROVE  LET s == Called(t) IN
           /\ Len(s) - 7 = Len(t.stack)
           /\ s[Len(s) - 2] = <<"number", t.vector>>
           /\ s[Len(s) - 4] = <<"eip", t.run>>
           /\ s[Len(s) - 6] = <<"eflags", t.flagIF>>
           /\ SubSeq(s, 1, Len(t.stack)) = t.stack
  <1>1. /\ <<"eflags", t.flagIF>> \in StackWords /\ <<"cs", "kernel">> \in StackWords
        /\ <<"eip", t.run>> \in StackWords
        /\ <<"error", IF HasErrorCode(t) THEN t.vector ELSE 0>> \in StackWords
        /\ <<"number", t.vector>> \in StackWords /\ <<"pushal", t.vector>> \in StackWords
        /\ <<"return", 0>> \in StackWords /\ t.stack \in Seq(StackWords)
    BY WordsOnStack
  <1> QED
    BY <1>1, PoppedWords DEF Called

\* An interrupt adds a handler, entered from the state it found.
LEMMA TakeNests ==
    ASSUME IntInv, run \in Places, NEW v \in 0 .. 255, NEW source \in {"line", "fault", "int"},
           source = "line" => v = Spurious /\ flagIF, source = "int" => v = 52,
           take(v, source), step' = step
    PROVE  NestInv'
  <1>1. CASE ~(idtr /\ v < installed)
    <2>1. run' = "reset" /\ UNCHANGED <<flagIF, number, stack, taken>>
      BY <1>1 DEF take
    <2> QED
      BY <2>1 DEF IntInv, NestInv, TakenInv, Places
  <1>2. CASE idtr /\ v < installed
    <2> DEFINE t == [vector |-> v, source |-> source, run |-> run,
                     flagIF |-> flagIF, stack |-> stack, number |-> number]
    <2>1. /\ taken' = Append(taken, t) /\ flagIF' = FALSE /\ run' = "stub" /\ number' = v
          /\ stack' = stack \o << <<"eflags", flagIF>>, <<"cs", "kernel">>, <<"eip", run>> >>
                            \o (IF source = "fault" /\ v \in ErrorCode THEN << <<"error", v>> >> ELSE <<>>)
      BY <1>2 DEF take, IFInGate, GateOf
    <2>2. stack \in Seq(StackWords) /\ number \in 0 .. 255 /\ taken \in Seq(Takens) /\ flagIF \in BOOLEAN
      BY DEF IntInv, NestInv, InitInv
    <2>3. t \in Takens
      BY <2>2 DEF Takens
    <2>4. stack' = Entered(t)
      BY <2>1 DEF Entered, HasErrorCode
    <2>5. Entered(t) \in Seq(StackWords)
      BY <2>3, OneErrorCode
    <2>a. t.vector = v /\ t.source = source /\ t.run = run /\ t.flagIF = flagIF
          /\ t.stack = stack /\ t.number = number
      OBVIOUS
    <2> HIDE DEF t
    <2> DEFINE n == Len(taken)
    <2>6. /\ taken' \in Seq(Takens) /\ Len(taken') = n + 1 /\ n \in Nat
          /\ taken'[n + 1] = t /\ \A k \in 1 .. n : taken'[k] = taken[k]
      BY <2>1, <2>2, <2>3
    <2>7. n = 0 <=> taken = <<>>
      BY <2>2
    <2>8. n = 0 => run = "kmain" /\ stack = <<>>
      BY <2>7 DEF IntInv, NestInv
    <2>9. n # 0 => Handling(run, flagIF, stack, number, taken[n])
      BY <2>7 DEF IntInv, NestInv
    <2>10. \A k \in 1 .. n : TakenInv(k)'
      <3> SUFFICES ASSUME NEW k \in 1 .. n PROVE TakenInv(k)'
        OBVIOUS
      <3>1. TakenInv(k)
        BY DEF IntInv, NestInv
      <3>2. taken'[k] = taken[k] /\ (k > 1 => taken'[k - 1] = taken[k - 1])
        BY <2>6
      <3> QED
        BY <3>1, <3>2, Zenon DEF TakenInv
    <2>11. ASSUME NEW k, k = n + 1 PROVE TakenInv(k)'
      <3>1. source = "line" => n = 0
        BY <2>9, Zenon DEF Handling
      <3>2. flagIF => step' = "enabled"
        BY DEF IntInv, InitInv
      <3>3. /\ n # 0 => taken'[k - 1] = taken[n]
            /\ k = 1 <=> n = 0
            /\ k > 1 <=> n # 0
            /\ taken'[k] = t
        BY <2>6, <2>11
      <3> HIDE DEF n
      <3>6. t.source = "line" => t.vector = Spurious /\ k = 1
        BY <2>a, <3>1, <3>3
      <3>7. k > 1 => Handling(t.run, t.flagIF, t.stack, t.number, taken'[k - 1])
        BY <2>a, <2>9, <3>3, Zenon
      <3>8. (t.source = "int" => t.vector = 52) /\ (t.flagIF => step' = "enabled")
        BY <2>a, <3>2, Zenon
      <3>9. k = 1 => t.run = "kmain" /\ t.stack = <<>>
        BY <2>a, <2>8, <3>3, Zenon
      <3> QED
        BY <3>3, <3>6, <3>7, <3>8, <3>9, Zenon DEF TakenInv, Spurious
    <2>12. \A k \in 1 .. Len(taken') : TakenInv(k)'
      <3>1. \A k \in 1 .. Len(taken') : k \in 1 .. n \/ k = n + 1
        BY <2>6
      <3> QED
        BY <3>1, <2>10, <2>11, Zenon
    <2>13. Handling(run', flagIF', stack', number', taken'[Len(taken')])
      <3>1. taken'[Len(taken')] = t
        BY <2>6, Zenon
      <3> QED
        BY <2>1, <2>4, <2>a, <3>1 DEF Handling, Places
    <2>14. taken' # <<>>
      BY <2>6
    <2>15. run' \in Places /\ stack' \in Seq(StackWords) /\ number' \in 0 .. 255
      BY <2>1, <2>4, <2>5 DEF Places
    <2> QED
      BY <2>6, <2>12, <2>13, <2>14, <2>15, Zenon DEF NestInv
  <1> QED
    BY <1>1, <1>2

\* A handler that runs is that of the newest interrupt.
LEMMA NewestRuns ==
    ASSUME IntInv, run \in Places \ {"kmain"}
    PROVE  /\ Len(taken) \in Nat \ {0}
           /\ taken \in Seq(Takens)
           /\ taken[Len(taken)] \in Takens
           /\ TakenInv(Len(taken))
           /\ Handling(run, flagIF, stack, number, taken[Len(taken)])
  <1>1. taken \in Seq(Takens) /\ taken # <<>>
    BY DEF IntInv, NestInv
  <1>2. Len(taken) \in Nat \ {0} /\ Len(taken) \in 1 .. Len(taken)
    BY <1>1
  <1>3. TakenInv(Len(taken))
    BY <1>2, Zenon DEF IntInv, NestInv
  <1>4. Handling(run, flagIF, stack, number, taken[Len(taken)])
    BY <1>1 DEF IntInv, NestInv
  <1> QED
    BY <1>1, <1>2, <1>3, <1>4

\* The stub completes the frame.
LEMMA StubNests ==
    ASSUME IntInv, stub
    PROVE  NestInv'
  <1> DEFINE t == taken[Len(taken)]
  <1>1. run = "stub" /\ run' = "interruptHandler" /\ UNCHANGED <<flagIF, number, taken, step>>
        /\ stack' = stack \o (IF number \in CREATE_HANDLER_ERR THEN <<>> ELSE << <<"error", 0>> >>)
                          \o << <<"number", number>>, <<"pushal", number>>, <<"return", 0>> >>
    BY DEF stub
  <1>2. taken \in Seq(Takens) /\ t \in Takens /\ TakenInv(Len(taken))
        /\ Handling(run, flagIF, stack, number, t)
    BY <1>1, NewestRuns DEF Places
  <1>3. number = t.vector /\ stack = Entered(t) /\ flagIF = FALSE
    BY <1>1, <1>2, Zenon DEF Handling
  <1>4. (t.source = "line" => t.vector = Spurious) /\ (t.source = "int" => t.vector = 52)
    BY <1>2 DEF TakenInv
  <1> HIDE DEF t
  <1>5. stack' = Called(t) /\ stack' \in Seq(StackWords)
    <2>1. Entered(t) \o (IF t.vector \in CREATE_HANDLER_ERR THEN <<>> ELSE << <<"error", 0>> >>)
                     \o << <<"number", t.vector>>, <<"pushal", t.vector>>, <<"return", 0>> >>
            = Called(t)
          /\ Called(t) \in Seq(StackWords)
      BY <1>2, <1>4, OneErrorCode
    <2> QED
      BY <1>1, <1>3, <2>1, Zenon
  <1>6. Handling(run', flagIF', stack', number', t)
    <2>1. number' = t.vector /\ flagIF' = FALSE
      BY <1>1, <1>3, Zenon
    <2> QED
      BY <1>1, <1>5, <2>1 DEF Handling, Places
  <1>7. \A k \in 1 .. Len(taken') : TakenInv(k)'
    BY <1>1, Zenon DEF IntInv, NestInv, TakenInv
  <1>8. taken' = taken /\ taken' # <<>> /\ taken'[Len(taken')] = t
    BY <1>1, NewestRuns DEF t, Places
  <1>9. run' \in Places /\ number' \in 0 .. 255
    BY <1>1 DEF Places, IntInv, NestInv
  <1> QED
    BY <1>2, <1>5, <1>6, <1>7, <1>8, <1>9, Zenon DEF NestInv

\* interruptHandler finds the frame of the newest interrupt.
LEMMA FrameFound ==
    ASSUME IntInv, run \in {"interruptHandler", "popal"}
    PROVE  LET t == taken[Len(taken)] IN
           /\ intNumber = t.vector
           /\ stack[Len(stack) - 4] = <<"eip", t.run>>
           /\ stack[Len(stack) - 6] = <<"eflags", t.flagIF>>
           /\ SubSeq(stack, 1, Len(stack) - 7) = t.stack
  <1> DEFINE t == taken[Len(taken)]
  <1>1. t \in Takens /\ Handling(run, flagIF, stack, number, t)
    BY NewestRuns DEF Places
  <1>2. stack = Called(t)
    BY <1>1, Zenon DEF Handling
  <1> HIDE DEF t
  <1>3. /\ stack[Len(stack) - 2] = <<"number", t.vector>>
        /\ stack[Len(stack) - 4] = <<"eip", t.run>>
        /\ stack[Len(stack) - 6] = <<"eflags", t.flagIF>>
        /\ SubSeq(stack, 1, Len(t.stack)) = t.stack
        /\ Len(stack) - 7 = Len(t.stack)
    BY <1>1, <1>2, FrameOnStack
  <1>4. intNumber = t.vector
    BY <1>3 DEF intNumber, isr_frame
  <1> QED
    BY <1>3, <1>4 DEF t

\* A sequence without its last element.
LEMMA ButLast ==
    ASSUME NEW S, NEW q \in Seq(S), q # <<>>
    PROVE  /\ SubSeq(q, 1, Len(q) - 1) \in Seq(S)
           /\ Len(SubSeq(q, 1, Len(q) - 1)) = Len(q) - 1
           /\ \A i \in 1 .. Len(q) - 1 : SubSeq(q, 1, Len(q) - 1)[i] = q[i]
  <1> DEFINE k == Len(q) - 1
  <1>1. k \in Nat /\ k \in Int /\ 1 \in Int /\ \A i \in 1 .. k : q[i] \in S
    OBVIOUS
  <1> HIDE DEF k
  <1>2. /\ SubSeq(q, 1, k) \in Seq(S)
        /\ Len(SubSeq(q, 1, k)) = IF 1 <= k THEN k - 1 + 1 ELSE 0
        /\ \A i \in 1 .. k - 1 + 1 : SubSeq(q, 1, k)[i] = q[1 + i - 1]
    BY <1>1, SubSeqProperties
  <1> DEFINE r == SubSeq(q, 1, k)
  <1> HIDE DEF r
  <1>3. r \in Seq(S) /\ Len(r) = (IF 1 <= k THEN k - 1 + 1 ELSE 0)
        /\ \A i \in 1 .. k - 1 + 1 : r[i] = q[1 + i - 1]
    BY <1>2, Zenon DEF r
  <1>4. Len(r) = k /\ \A i \in 1 .. k : r[i] = q[i]
    BY <1>1, <1>3
  <1> QED
    BY <1>3, <1>4 DEF r, k

\* iret leaves the newest handler for the state it was entered from.
LEMMA ReturnNests ==
    ASSUME IntInv, iret
    PROVE  /\ NestInv'
           /\ LET t == taken[Len(taken)] IN
              run' = t.run /\ flagIF' = t.flagIF /\ stack' = t.stack /\ number' = t.number
  <1> DEFINE t == taken[Len(taken)]
             n == Len(taken)
  <1>1. run = "popal"
    BY DEF iret
  <1>2. n \in Nat \ {0} /\ taken \in Seq(Takens) /\ t \in Takens /\ TakenInv(n)
    BY <1>1, NewestRuns DEF Places
  <1>3. Len(stack) \in Nat
    BY DEF IntInv, NestInv
  <1>4. /\ stack[Len(stack) - 2 - Discarded] = <<"eip", t.run>>
        /\ stack[Len(stack) - 2 - Discarded - 2] = <<"eflags", t.flagIF>>
        /\ SubSeq(stack, 1, Len(stack) - 2 - Discarded - 3) = t.stack
    <2>1. /\ Len(stack) - 2 - Discarded = Len(stack) - 4
          /\ Len(stack) - 2 - Discarded - 2 = Len(stack) - 6
          /\ Len(stack) - 2 - Discarded - 3 = Len(stack) - 7
      BY <1>3 DEF Discarded
    <2> QED
      BY <1>1, <2>1, FrameFound
  <1>5. run' = t.run /\ flagIF' = t.flagIF /\ stack' = t.stack /\ number' = t.number
    BY <1>4 DEF iret
  <1>6. step' = step /\ taken' = SubSeq(taken, 1, n - 1)
    BY DEF iret
  <1>7. /\ taken' \in Seq(Takens) /\ Len(taken') = n - 1
        /\ \A k \in 1 .. n - 1 : taken'[k] = taken[k]
    BY <1>2, <1>6, ButLast
  <1>8. /\ run' \in Places /\ stack' \in Seq(StackWords) /\ number' \in 0 .. 255
    BY <1>2, <1>5 DEF Takens
  <1>9. \A k \in 1 .. Len(taken') : TakenInv(k)'
    <2> SUFFICES ASSUME NEW k \in 1 .. n - 1 PROVE TakenInv(k)'
      BY <1>7
    <2>1. k \in 1 .. n
      BY <1>2
    <2>2. TakenInv(k)
      BY <2>1 DEF IntInv, NestInv
    <2>3. taken'[k] = taken[k] /\ (k > 1 => taken'[k - 1] = taken[k - 1])
      BY <1>2, <1>7
    <2> QED
      BY <1>6, <2>2, <2>3, Zenon DEF TakenInv
  <1>10. CASE n = 1
    <2>1. taken' = <<>>
      BY <1>7, <1>10
    <2>2. t.run = "kmain" /\ t.stack = <<>>
      BY <1>2, <1>10, Zenon DEF TakenInv
    <2>3. NestInv'
      BY <1>5, <1>7, <1>8, <1>9, <2>1, <2>2, Zenon DEF NestInv
    <2> QED
      BY <1>5, <2>3
  <1>11. CASE n > 1
    <2>1. Handling(t.run, t.flagIF, t.stack, t.number, taken[n - 1])
      BY <1>2, <1>11, Zenon DEF TakenInv
    <2>2. taken'[Len(taken')] = taken[n - 1] /\ taken' # <<>>
      BY <1>2, <1>7, <1>11
    <2>3. Handling(run', flagIF', stack', number', taken'[Len(taken')])
      BY <1>5, <2>1, <2>2, Zenon
    <2>4. NestInv'
      BY <1>7, <1>8, <1>9, <2>2, <2>3, Zenon DEF NestInv
    <2> QED
      BY <1>5, <2>4
  <1>12. n = 1 \/ n > 1
    <2>1. n \in Nat \ {0}
      BY <1>2
    <2> HIDE DEF n
    <2> QED
      BY <2>1
  <1> QED
    BY <1>10, <1>11, <1>12, Zenon

-----------------------------------------------------------------------------
\* With interrupts on, both controllers are masked and answer from 0xf8 up.
LEMMA MaskedWhenOn ==
    ASSUME PicInv, InitInv, flagIF
    PROVE  /\ \A c \in Controllers : Pending(c) = {}
           /\ pic["master"].base + 7 = Spurious
  <1>1. outs = 10
    BY DEF PicInv, InitInv
  <1>2. (10 + 1) \div 2 = 5 /\ 10 \div 2 = 5
    OBVIOUS
  <1>3. After(pic["master"], 5) /\ After(pic["slave"], 5)
    BY <1>1, <1>2 DEF PicInv
  <1>4. \A c \in Controllers : pic[c].mask = AllLines /\ pic[c].irr \subseteq AllLines
    BY <1>3 DEF After, PicInv, Pics, Controllers
  <1> QED
    BY <1>3, <1>4 DEF Pending, After, Spurious

LEMMA PicSteps == PicInv /\ InitInv /\ [KernelNext]_kernelVars => PicInv'
  <1> SUFFICES ASSUME PicInv, InitInv, [KernelNext]_kernelVars PROVE PicInv'
    OBVIOUS
  <1>1. CASE UNCHANGED <<pic, outs>>
    BY <1>1 DEF PicInv
  <1>2. CASE disablePIC
    <2> DEFINE o == PicWords[outs + 1]
    <2>1. outs \in 0 .. 9 /\ outs' = outs + 1 /\ pic' = [pic EXCEPT ![o.to] = Accepted(@, o)]
      BY <1>2 DEF disablePIC, PicInv, InitInv
    <2>2. o.to = (IF outs % 2 = 0 THEN "master" ELSE "slave") /\ IsWord(o, outs \div 2)
      BY <2>1, WordsInTurn
    <2>3. pic["master"] \in Pics /\ pic["slave"] \in Pics /\ pic \in [Controllers -> Pics]
      BY DEF PicInv, Controllers
    <2> HIDE DEF o
    <2>4. CASE outs % 2 = 0
      <3>1. /\ outs \div 2 = (outs + 1) \div 2 /\ outs' \div 2 = outs \div 2
            /\ (outs' + 1) \div 2 = outs \div 2 + 1 /\ outs \div 2 \in 0 .. 4
        BY <2>1, <2>4
      <3>2. After(pic["master"], outs \div 2) /\ After(pic["slave"], outs \div 2)
        BY <3>1 DEF PicInv
      <3> DEFINE d == Accepted(pic["master"], o)
      <3>3. d \in Pics /\ After(d, outs \div 2 + 1)
        BY <2>2, <2>3, <3>1, <3>2, TakesNextWord
      <3> HIDE DEF d
      <3>4. pic' = [pic EXCEPT !["master"] = d]
        BY <2>1, <2>2, <2>4 DEF d
      <3>5. pic' \in [Controllers -> Pics] /\ pic'["master"] = d /\ pic'["slave"] = pic["slave"]
        BY <2>3, <3>3, <3>4 DEF Controllers
      <3> QED
        BY <2>1, <3>1, <3>2, <3>3, <3>5 DEF PicInv
    <2>5. CASE outs % 2 # 0
      <3>1. /\ (outs' + 1) \div 2 = (outs + 1) \div 2
            /\ outs' \div 2 = outs \div 2 + 1 /\ outs \div 2 \in 0 .. 4
        BY <2>1, <2>5
      <3>2. After(pic["master"], (outs + 1) \div 2) /\ After(pic["slave"], outs \div 2)
        BY DEF PicInv
      <3> DEFINE d == Accepted(pic["slave"], o)
      <3>3. d \in Pics /\ After(d, outs \div 2 + 1)
        BY <2>2, <2>3, <3>1, <3>2, TakesNextWord
      <3> HIDE DEF d
      <3>4. pic' = [pic EXCEPT !["slave"] = d]
        BY <2>1, <2>2, <2>5 DEF d
      <3>5. pic' \in [Controllers -> Pics] /\ pic'["slave"] = d /\ pic'["master"] = pic["master"]
        BY <2>3, <3>3, <3>4 DEF Controllers
      <3> QED
        BY <2>1, <3>1, <3>2, <3>3, <3>5 DEF PicInv
    <2> QED
      BY <2>4, <2>5
  <1>3. ASSUME NEW c \in Controllers, NEW lines \in SUBSET AllLines,
               pic' = [pic EXCEPT ![c].irr = lines], outs' = outs
        PROVE  PicInv'
    <2>1. pic' \in [Controllers -> Pics]
      BY <1>3 DEF PicInv, Pics
    <2>2. \A d \in Controllers : pic'[d].base = pic[d].base /\ pic'[d].mask = pic[d].mask
                                 /\ pic'[d].icw = pic[d].icw
      BY <1>3 DEF PicInv, Pics
    <2> QED
      BY <1>3, <2>1, <2>2 DEF PicInv, After, Controllers
  <1>4. ASSUME NEW c \in Controllers, NEW l \in Lines, request(c, l) PROVE PicInv'
    <2>1. pic' = [pic EXCEPT ![c].irr = pic[c].irr \cup {l}] /\ outs' = outs
      BY <1>4 DEF request
    <2>2. pic[c].irr \cup {l} \in SUBSET AllLines
      BY InterruptsAssumption DEF PicInv, Pics
    <2> QED
      BY <2>1, <2>2, <1>3
  <1>5. ASSUME NEW c \in Controllers, irq(c) PROVE PicInv'
    BY <1>5, MaskedWhenOn DEF irq
  <1> QED
    BY <1>1, <1>2, <1>4, <1>5
    DEF KernelNext, Program, Event, check_CPUID_available, earlyPanic, findIoApic, foundIoApic, l_apic,
        enable, initIdt, init, installAll, loadIDT, int34, handler, stub, interruptHandler, iret,
        spuriousIrq, fault, kernelVars, intVars

\* Everything but the handlers: kmain runs with no interrupt in progress.
LEMMA KmainRuns ==
    ASSUME IntInv, run = "kmain"
    PROVE  taken = <<>> /\ stack = <<>> /\ number \in 0 .. 255
  <1>1. run \in Places
    BY DEF Places
  <1>2. taken = <<>>
    BY <1>1 DEF IntInv, NestInv, Handling
  <1> QED
    BY <1>1, <1>2 DEF IntInv, NestInv

LEMMA NoneNests ==
    ASSUME run' \in {"kmain", "panic", "reset"}, taken' = <<>>, stack' = <<>>, number' \in 0 .. 255
    PROVE  NestInv'
  <1>1. /\ <<>> \in Seq(Takens) /\ <<>> \in Seq(StackWords)
        /\ \A k \in 1 .. Len(<<>>) : TakenInv(k)'
    OBVIOUS
  <1> QED
    BY <1>1 DEF NestInv, Places

\* A program that is not in init or in a handler, and the end of one that is.
LEMMA OthersNest ==
    ASSUME IntInv, UNCHANGED <<step, number, stack, taken>>,
           UNCHANGED <<run, flagIF>> \/ run' = "panic" \/ run' = "reset"
           \/ (run = "interruptHandler" /\ run' = "popal" /\ UNCHANGED flagIF)
    PROVE  NestInv'
  <1>1. \A k \in 1 .. Len(taken') : TakenInv(k)'
    BY Zenon DEF IntInv, NestInv, TakenInv
  <1>2. CASE UNCHANGED <<run, flagIF>>
    BY <1>1, <1>2, Zenon DEF IntInv, NestInv
  <1>3. CASE run' = "panic" \/ run' = "reset"
    BY <1>1, <1>3 DEF IntInv, NestInv, Places
  <1>4. CASE run = "interruptHandler" /\ run' = "popal" /\ UNCHANGED flagIF
    <2>1. Handling(run, flagIF, stack, number, taken[Len(taken)]) /\ taken # <<>>
      BY <1>4, NewestRuns DEF Places
    <2>2. Handling(run', flagIF', stack', number', taken'[Len(taken')])
      BY <1>4, <2>1 DEF Handling, Places
    <2>3. run' \in Places /\ run' # "kmain"
      BY <1>4 DEF Places
    <2> QED
      BY <1>1, <2>1, <2>2, <2>3, Zenon DEF IntInv, NestInv
  <1> QED
    BY <1>2, <1>3, <1>4

LEMMA IntStarts == KernelInit => IntInv
  <1> SUFFICES ASSUME KernelInit PROVE IntInv
    OBVIOUS
  <1>1. run = "kmain" /\ taken = <<>> /\ stack = <<>> /\ number = 0
    BY DEF KernelInit, IntInit
  <1>2. /\ <<>> \in Seq(Takens) /\ <<>> \in Seq(StackWords)
        /\ \A k \in 1 .. Len(<<>>) : TakenInv(k)
    OBVIOUS
  <1>3. NestInv
    BY <1>1, <1>2 DEF NestInv, Places
  <1> QED
    BY <1>3, PicStarts DEF KernelInit, IntInv

\* What init does before it turns interrupts on; the handlers leave that alone.
LEMMA InitSteps == IntInv /\ [KernelNext]_kernelVars => InitInv'
  <1> SUFFICES ASSUME IntInv, [KernelNext]_kernelVars PROVE InitInv'
    OBVIOUS
  <1>1. ASSUME UNCHANGED <<step, outs, installed, idtr>>,
               flagIF' \in BOOLEAN, flagIF' => step = "enabled"
        PROVE  InitInv'
    BY <1>1 DEF IntInv, InitInv
  <1>2. CASE UNCHANGED <<step, outs, installed, idtr, flagIF>>
    BY <1>2 DEF IntInv, InitInv
  <1>3. CASE disablePIC
    <2>1. outs \in 0 .. 10 /\ outs < 10
      BY <1>3 DEF disablePIC, IntInv, PicInv, InitInv
    <2>2. Len(PicWords) = 10
      BY DEF PicWords
    <2> QED
      BY <1>3, <2>1, <2>2 DEF disablePIC, IntInv, InitInv
  <1>4. CASE installAll
    BY <1>4 DEF installAll, Gates, IntInv, InitInv
  <1>5. CASE loadIDT
    <2>1. PICK k \in 1 .. 3 :
             /\ step = LoadSteps[k].step /\ flagIF' = LoadSteps[k].flagIF
             /\ idtr' = LoadSteps[k].idtr
             /\ step' = IF k = 3 THEN "enabled" ELSE LoadSteps[k + 1].step
      BY <1>5 DEF loadIDT, LoadSteps
    <2>2. UNCHANGED <<outs, installed>>
      BY <1>5 DEF loadIDT
    <2>3. /\ LoadSteps[1] = [step |-> "loadIDT", flagIF |-> FALSE, idtr |-> FALSE]
          /\ LoadSteps[2] = [step |-> "lidt", flagIF |-> FALSE, idtr |-> TRUE]
          /\ LoadSteps[3] = [step |-> "sti", flagIF |-> TRUE, idtr |-> TRUE]
      BY DEF LoadSteps
    <2>4. CASE k = 1
      <3>1. step = "loadIDT" /\ step' = "lidt"
        BY <2>1, <2>3, <2>4
      <3>2. flagIF' = FALSE /\ idtr' = FALSE
        BY <2>1, <2>3, <2>4
      <3> QED
        BY <2>2, <3>1, <3>2 DEF IntInv, InitInv
    <2>5. CASE k = 2
      <3>1. step = "lidt" /\ step' = "sti"
        BY <2>1, <2>3, <2>5
      <3>2. flagIF' = FALSE /\ idtr' = TRUE
        BY <2>1, <2>3, <2>5
      <3> QED
        BY <2>2, <3>1, <3>2 DEF IntInv, InitInv
    <2>6. CASE k = 3
      <3>1. step = "sti" /\ step' = "enabled"
        BY <2>1, <2>3, <2>6
      <3>2. flagIF' = TRUE /\ idtr' = TRUE
        BY <2>1, <2>3, <2>6
      <3> QED
        BY <2>2, <3>1, <3>2 DEF IntInv, InitInv
    <2> QED
      BY <2>4, <2>5, <2>6
  <1>6. ASSUME NEW v, NEW source, take(v, source), UNCHANGED <<step, outs, installed, idtr>>
        PROVE  InitInv'
    <2>1. flagIF' = FALSE \/ flagIF' = flagIF
      BY <1>6 DEF take, IFInGate
    <2> QED
      BY <1>1, <1>6, <2>1 DEF IntInv, InitInv
  <1>7. CASE iret
    <2> DEFINE t == taken[Len(taken)]
    <2>1. flagIF' = t.flagIF
      BY <1>7, ReturnNests
    <2>2. TakenInv(Len(taken)) /\ t \in Takens
      BY <1>7, NewestRuns DEF iret, Places
    <2>3. t.flagIF \in BOOLEAN /\ (t.flagIF => step = "enabled")
      BY <2>2 DEF TakenInv, Takens
    <2>4. UNCHANGED <<step, outs, installed, idtr>>
      BY <1>7 DEF iret
    <2> HIDE DEF t
    <2> QED
      BY <1>1, <2>1, <2>3, <2>4
  <1> QED
    BY <1>2, <1>3, <1>4, <1>5, <1>6, <1>7
    DEF KernelNext, Program, Event, check_CPUID_available, earlyPanic, findIoApic, foundIoApic, l_apic,
        enable, initIdt, init, int34, handler, stub, interruptHandler, request, irq, spuriousIrq, fault,
        kernelVars, intVars

LEMMA NestSteps == IntInv /\ [KernelNext]_kernelVars => NestInv'
  <1> SUFFICES ASSUME IntInv, [KernelNext]_kernelVars PROVE NestInv'
    OBVIOUS
  <1>1. CASE UNCHANGED <<step, number, stack, taken, run, flagIF>>
    BY <1>1, OthersNest
  <1>2. CASE \E from \in {"cpuid", "acpi", "lapic"} : earlyPanic(from)
    BY <1>2, OthersNest DEF earlyPanic
  <1>3. CASE init
    <2>1. run = "kmain" /\ UNCHANGED <<run, number, stack, taken>>
      BY <1>3 DEF init, disablePIC, installAll, loadIDT
    <2> QED
      BY <2>1, KmainRuns, NoneNests
  <1>4. CASE int34
    <2>1. run = "kmain" /\ take(52, "int") /\ step' = step
      BY <1>4 DEF int34, kmain
    <2>2. run \in Places /\ 52 \in 0 .. 255
      BY <2>1 DEF Places
    <2> QED
      BY <2>1, <2>2, TakeNests
  <1>5. CASE stub
    BY <1>5, StubNests
  <1>6. CASE interruptHandler
    BY <1>6, OthersNest DEF interruptHandler
  <1>7. CASE iret
    BY <1>7, ReturnNests
  <1>8. ASSUME Running PROVE run \in Places
    BY <1>8 DEF Running, IntInv, NestInv
  <1>9. CASE \E c \in Controllers : irq(c)
    BY <1>9, MaskedWhenOn DEF irq, IntInv
  <1>10. CASE spuriousIrq
    <2>1. Running /\ flagIF /\ take(pic["master"].base + 7, "line") /\ step' = step
      BY <1>10 DEF spuriousIrq, Happens
    <2>2. pic["master"].base + 7 = Spurious /\ Spurious \in 0 .. 255
      BY <2>1, MaskedWhenOn DEF IntInv, Spurious
    <2>3. take(Spurious, "line")
      BY <2>1, <2>2, Zenon
    <2> QED
      BY <2>1, <2>2, <2>3, <1>8, TakeNests
  <1>11. ASSUME NEW v \in Faults, fault(v) PROVE NestInv'
    <2>1. Running /\ take(v, "fault") /\ step' = step
      BY <1>11 DEF fault, Happens
    <2>2. v \in 0 .. 255
      BY InterruptsAssumption
    <2> QED
      BY <2>1, <2>2, <1>8, TakeNests
  <1> QED
    BY <1>1, <1>2, <1>3, <1>4, <1>5, <1>6, <1>7, <1>9, <1>10, <1>11
    DEF KernelNext, Program, Event, check_CPUID_available, findIoApic, foundIoApic, l_apic,
        enable, initIdt, handler, request, kernelVars, intVars

LEMMA IntAlways == KernelSpec => []IntInv
  <1>1. IntInv /\ [KernelNext]_kernelVars => IntInv'
    BY PicSteps, InitSteps, NestSteps DEF IntInv
  <1> QED
    BY IntStarts, <1>1, PTL DEF KernelSpec

\* The only interrupt line the processor ever answers is the spurious one, on
\* vector 0xff (interrupts.cpp:79-118), whatever the devices do while the
\* controllers are remapped and masked.
THEOREM OnlySpuriousEver == KernelSpec => []OnlySpuriousLine
  <1>1. IntInv => OnlySpuriousLine
    BY DEF IntInv, NestInv, TakenInv, OnlySpuriousLine
  <1> QED
    BY IntAlways, <1>1, PTL

\* The handler of a line is never interrupted by another line, nor does it
\* interrupt one (gates of type 0xe, interrupts.cpp:48-60).
THEOREM LinesNeverNest == KernelSpec => []LinesDoNotNest
  <1>1. IntInv => LinesDoNotNest
    <2> SUFFICES ASSUME IntInv, NEW k \in 2 .. Len(taken) PROVE taken[k].source # "line"
      BY DEF LinesDoNotNest
    <2>1. Len(taken) \in Nat
      BY DEF IntInv, NestInv
    <2>2. k \in 1 .. Len(taken) /\ k # 1
      BY <2>1
    <2> QED
      BY <2>2 DEF IntInv, NestInv, TakenInv
  <1> QED
    BY IntAlways, <1>1, PTL

\* interruptHandler's argument is the frame of the interrupt that was taken,
\* for every vector and any depth of nesting (interruptHandler.S:16-36).
THEOREM FrameAlwaysOfInterrupt == KernelSpec => []FrameIsOfInterrupt
  <1>1. IntInv => FrameIsOfInterrupt
    BY FrameFound DEF FrameIsOfInterrupt, isr_frame
  <1> QED
    BY IntAlways, <1>1, PTL

\* A handler that returns leaves place, flag and stack as the interrupt found
\* them, at any depth of nesting (interruptHandler.S:50-54, 69-73).
THEOREM AlwaysReturnsAsInterrupted == KernelSpec => ReturnsAsInterrupted
  <1> DEFINE Restores ==
        Len(taken') < Len(taken) =>
          LET t == taken[Len(taken)] IN
          run' = t.run /\ flagIF' = t.flagIF /\ stack' = t.stack /\ number' = t.number
  <1>1. IntInv /\ [KernelNext]_kernelVars => Restores
    <2> SUFFICES ASSUME IntInv, [KernelNext]_kernelVars PROVE Restores
      OBVIOUS
    <2>0. taken \in Seq(Takens) /\ Len(taken) \in Nat
      BY DEF IntInv, NestInv
    <2>1. CASE iret
      BY <2>1, ReturnNests
    <2>2. CASE UNCHANGED taken
      BY <2>0, <2>2
    <2>3. ASSUME NEW v, NEW source, take(v, source) PROVE Restores
      <3>1. taken' = taken \/ \E t : taken' = Append(taken, t)
        BY <2>3 DEF take
      <3>2. \A t : Len(Append(taken, t)) = Len(taken) + 1
        BY <2>0
      <3> QED
        BY <2>0, <3>1, <3>2
    <2> QED
      BY <2>1, <2>2, <2>3
      DEF KernelNext, Program, Event, check_CPUID_available, earlyPanic, findIoApic, foundIoApic, l_apic,
          enable, initIdt, init, disablePIC, installAll, loadIDT, int34, handler, stub, interruptHandler,
          request, irq, spuriousIrq, fault, kernelVars, intVars
  <1>2. Restores => [Restores]_intVars
    OBVIOUS
  <1> QED
    BY IntAlways, <1>1, <1>2, PTL DEF KernelSpec, ReturnsAsInterrupted

\* The machine resets only by an exception or NMI before lidt, while interrupts
\* are still off (interrupts.cpp:62-77).
THEOREM ResetsAlwaysBeforeIdt == KernelSpec => ResetsOnlyBeforeIdt
  <1> DEFINE Resets == run # "reset" /\ run' = "reset" => ~idtr /\ ~flagIF
  <1>1. IntInv /\ [KernelNext]_kernelVars => Resets
    <2> SUFFICES ASSUME IntInv, [KernelNext]_kernelVars, run # "reset", run' = "reset"
                 PROVE  ~idtr /\ ~flagIF
      OBVIOUS
    <2>1. ASSUME NEW v \in 0 .. 255, NEW source, take(v, source) PROVE ~idtr /\ ~flagIF
      <3>1. ~(idtr /\ v < installed)
        BY <2>1 DEF take
      <3>2. idtr => installed = 256
        BY DEF IntInv, InitInv, IDT_SIZE
      <3>3. ~idtr
        BY <3>1, <3>2
      <3> QED
        BY <3>3 DEF IntInv, InitInv
    <2>2. CASE iret
      <3>1. run' = taken[Len(taken)].run /\ taken[Len(taken)] \in Takens
        BY <2>2, ReturnNests, NewestRuns DEF iret, Places
      <3> QED
        BY <3>1 DEF Takens, Places
    <2>3. CASE \E c \in Controllers : irq(c)
      BY <2>3, MaskedWhenOn DEF irq, IntInv
    <2>4. CASE spuriousIrq
      <3>1. take(pic["master"].base + 7, "line") /\ pic["master"].base + 7 = 255
        BY <2>4, MaskedWhenOn DEF spuriousIrq, IntInv, Spurious
      <3>2. take(255, "line")
        BY <3>1, Zenon
      <3>3. 255 \in 0 .. 255
        OBVIOUS
      <3> QED
        BY <2>1, <3>2, <3>3
    <2>5. CASE \E v \in Faults : fault(v)
      BY <2>1, <2>5, InterruptsAssumption DEF fault
    <2>6. CASE int34
      <3>1. take(52, "int")
        BY <2>6, Zenon DEF int34
      <3>2. 52 \in 0 .. 255
        OBVIOUS
      <3> QED
        BY <2>1, <3>1, <3>2, Zenon
    <2> QED
      BY <2>2, <2>3, <2>4, <2>5, <2>6
      DEF KernelNext, Program, Event, check_CPUID_available, earlyPanic, findIoApic, foundIoApic, l_apic,
          enable, initIdt, init, disablePIC, installAll, loadIDT, handler, stub, interruptHandler,
          request, kernelVars, intVars
  <1>2. Resets => [Resets]_intVars
    OBVIOUS
  <1> QED
    BY IntAlways, <1>1, <1>2, PTL DEF KernelSpec, ResetsOnlyBeforeIdt

-----------------------------------------------------------------------------
(***************************************************************************)
(* The digits of the panic message: a vector has one or two.               *)
(***************************************************************************)
\* LowestFirst is what its definition says.
LEMMA LowestFirstIs ==
    /\ LowestFirst[0] = <<>>
    /\ \A n \in 1 .. 255 : LowestFirst[n] = <<n % 16>> \o LowestFirst[n \div 16]
  <1> DEFINE Digits(f) ==
                 f = [n \in 0 .. 255 |-> IF n = 0 THEN <<>> ELSE <<n % 16>> \o f[n \div 16]]
             one == [n \in 0 .. 255 |-> IF n = 0 THEN <<>> ELSE <<n % 16>> \o <<>>]
             two == [n \in 0 .. 255 |-> IF n = 0 THEN <<>> ELSE <<n % 16>> \o one[n \div 16]]
             more == [n \in 0 .. 255 |-> IF n = 0 THEN <<>> ELSE <<n % 16>> \o two[n \div 16]]
  <1>1. \A n \in 0 .. 255 : n \div 16 \in 0 .. 15
    OBVIOUS
  <1>2. \A n \in 0 .. 15 : n \div 16 = 0
    OBVIOUS
  <1>3. \A n \in 0 .. 15 : n \in 0 .. 255
    OBVIOUS
  <1>4. one[0] = <<>> /\ two[0] = <<>>
    BY <1>3
  <1>5. \A n \in 0 .. 15 : two[n] = one[n]
    <2>1. ASSUME NEW n \in 0 .. 15, n # 0 PROVE two[n] = one[n]
      <3>1. two[n] = <<n % 16>> \o one[n \div 16] /\ one[n] = <<n % 16>> \o <<>>
        BY <1>3, <2>1
      <3> HIDE DEF one, two
      <3>2. one[n \div 16] = <<>>
        BY <1>2, <1>4
      <3> QED
        BY <3>1, <3>2, Zenon
    <2> HIDE DEF one, two
    <2> QED
      BY <1>4, <2>1, Zenon
  <1> HIDE DEF one
  <1>6. \A n \in 0 .. 255 : two[n] = more[n]
    BY <1>1, <1>5
  <1>7. Digits(two)
    BY <1>6
  <1> HIDE DEF two
  <1>8. IDT_SIZE - 1 = 255
    BY DEF IDT_SIZE
  <1>9. LowestFirst = CHOOSE f : Digits(f)
    BY <1>8, Zenon DEF LowestFirst
  <1>10. Digits(LowestFirst)
    <2> HIDE DEF Digits
    <2> QED
      BY <1>7, <1>9, Zenon
  <1>11. \A n \in 0 .. 255 :
            LowestFirst[n] = IF n = 0 THEN <<>> ELSE <<n % 16>> \o LowestFirst[n \div 16]
    BY <1>10, Zenon
  <1>12. 0 \in 0 .. 255 /\ \A n \in 1 .. 255 : n \in 0 .. 255 /\ n # 0
    OBVIOUS
  <1> QED
    BY <1>11, <1>12, Zenon

LEMMA ShortSequences ==
    ASSUME NEW a \in Nat, NEW b \in Nat
    PROVE  /\ <<a>> \o (<<b>> \o <<>>) = <<a, b>>
           /\ SubSeq(<<a>>, 1, 1) = <<a>>
           /\ SubSeq(<<a, b>>, 1, 2) = <<a, b>>
  <1>1. /\ <<a>> \in Seq(Nat) /\ <<b>> \in Seq(Nat) /\ <<a, b>> \in Seq(Nat)
        /\ Len(<<a>>) = 1 /\ Len(<<b>>) = 1 /\ Len(<<a, b>>) = 2
    OBVIOUS
  <1>2. <<b>> \o <<>> = <<b>>
    BY <1>1, ConcatEmptySeq
  <1>3. <<a>> \o <<b>> = <<a, b>>
    <2> DEFINE c == <<a>> \o <<b>>
    <2>1. c \in Seq(Nat) /\ Len(c) = 2
      BY <1>1, ConcatProperties
    <2>2. c[1] = a /\ c[2] = b
      BY <1>1
    <2> HIDE DEF c
    <2>3. \A i \in 1 .. Len(c) : c[i] = <<a, b>>[i]
      BY <2>1, <2>2
    <2> QED
      BY <1>1, <2>1, <2>3, SeqEqual DEF c
  <1>4. SubSeq(<<a>>, 1, Len(<<a>>)) = <<a>> /\ SubSeq(<<a, b>>, 1, Len(<<a, b>>)) = <<a, b>>
    BY <1>1, SubSeqFull, Zenon
  <1> QED
    BY <1>1, <1>2, <1>3, <1>4, Zenon

\* The digits of a vector in the order they are read.
LEMMA XtoaIs ==
    ASSUME NEW v \in 0 .. 255
    PROVE  /\ v < 16 => xtoa(v) = <<v>>
           /\ v >= 16 => xtoa(v) = <<v \div 16, v % 16>>
  <1> DEFINE digits == LowestFirst[v]
             last == Len(digits) - 1
  <1>0. LowestFirst[0] = <<>>
    BY LowestFirstIs, Zenon
  <1>1. CASE v = 0
    BY <1>1 DEF xtoa
  <1>2. CASE v \in 1 .. 15
    <2>1. v % 16 = v /\ v \div 16 = 0 /\ v \in 1 .. 255
      BY <1>2
    <2>2. digits = <<v>> \o <<>>
      BY <1>0, <2>1, LowestFirstIs, Zenon
    <2>3. digits = <<v>>
      BY <2>2
    <2>4. xtoa(v) = [k \in 1 .. 1 |->
                        IF Swapped(k - 1, 0) \/ Swapped(0 - (k - 1), 0)
                        THEN <<v>>[1 - k + 1] ELSE <<v>>[k]]
      BY <1>2, <2>3 DEF xtoa
    <2> QED
      BY <1>2, <2>4
  <1>3. CASE v >= 16
    <2>1. v \div 16 \in 1 .. 15 /\ v \div 16 \in 1 .. 255 /\ v \in 1 .. 255 /\ v % 16 \in Nat
      BY <1>3
    <2>2. (v \div 16) % 16 = v \div 16 /\ (v \div 16) \div 16 = 0
      BY <2>1
    <2>3. LowestFirst[v \div 16] = <<v \div 16>> \o <<>>
      BY <1>0, <2>1, <2>2, LowestFirstIs, Zenon
    <2>4. digits = <<v % 16>> \o LowestFirst[v \div 16]
      BY <2>1, LowestFirstIs, Zenon
    <2>5. digits = <<v % 16, v \div 16>>
      <3> DEFINE lo == v % 16
                 hi == v \div 16
      <3>1. lo \in Nat /\ hi \in Nat
        BY <2>1
      <3>2. digits = <<lo>> \o (<<hi>> \o <<>>)
        BY <2>3, <2>4, Zenon
      <3> HIDE DEF lo, hi, digits
      <3>3. digits = <<lo, hi>>
        BY <3>1, <3>2, ShortSequences, Zenon
      <3> QED
        BY <3>3 DEF lo, hi
    <2>6. xtoa(v) = [k \in 1 .. 2 |->
                        IF Swapped(k - 1, 1) \/ Swapped(1 - (k - 1), 1)
                        THEN <<v % 16, v \div 16>>[2 - k + 1] ELSE <<v % 16, v \div 16>>[k]]
      BY <1>3, <2>5 DEF xtoa
    <2>7. Swapped(0, 1)
      BY DEF Swapped
    <2>8. xtoa(v) = [k \in 1 .. 2 |-> <<v % 16, v \div 16>>[2 - k + 1]]
      <3>1. \A k \in 1 .. 2 : k - 1 = 0 \/ 1 - (k - 1) = 0
        OBVIOUS
      <3>2. \A k \in 1 .. 2 : Swapped(k - 1, 1) \/ Swapped(1 - (k - 1), 1)
        BY <2>7, <3>1
      <3> QED
        BY <2>6, <3>2
    <2> QED
      BY <1>3, <2>8
  <1> QED
    BY <1>1, <1>2, <1>3

\* One digit, and two, stand for what one expects.
LEMMA NumberIs ==
    ASSUME NEW a \in Nat, NEW b \in Nat
    PROVE  NumberOf(<<a>>) = a /\ NumberOf(<<a, b>>) = 16 * a + b
  <1>1. NumberOf(<<a>>) = a
    <2> DEFINE UpTo(f) == f = [n \in 0 .. 1 |-> IF n = 0 THEN 0 ELSE 16 * f[n - 1] + <<a>>[n]]
               g == [n \in 0 .. 1 |-> IF n = 0 THEN 0 ELSE a]
               f == CHOOSE f : UpTo(f)
    <2>1. UpTo(g)
      OBVIOUS
    <2>2. UpTo(f)
      <3> HIDE DEF UpTo, g
      <3> QED
        BY <2>1
    <2> HIDE DEF f
    <2>3. f[0] = 0 /\ f[1] = 16 * f[0] + a
      BY <2>2
    <2>4. NumberOf(<<a>>) = f[1]
      BY DEF NumberOf, f
    <2> QED
      BY <2>3, <2>4
  <1>2. NumberOf(<<a, b>>) = 16 * a + b
    <2> DEFINE UpTo(f) ==
                   f = [n \in 0 .. 2 |-> IF n = 0 THEN 0 ELSE 16 * f[n - 1] + <<a, b>>[n]]
               g == [n \in 0 .. 2 |-> IF n = 0 THEN 0 ELSE IF n = 1 THEN a ELSE 16 * a + b]
               f == CHOOSE f : UpTo(f)
    <2>1. UpTo(g)
      OBVIOUS
    <2>2. UpTo(f)
      <3> HIDE DEF UpTo, g
      <3> QED
        BY <2>1
    <2> HIDE DEF f
    <2>3. f[0] = 0 /\ f[1] = 16 * f[0] + a /\ f[2] = 16 * f[1] + b
      BY <2>2
    <2>4. NumberOf(<<a, b>>) = f[2]
      BY DEF NumberOf, f
    <2> QED
      BY <2>3, <2>4
  <1> QED
    BY <1>1, <1>2

DigitsInv == run # "panic" => shown = <<>>

LEMMA DigitsStart == KernelInit => DigitsInv /\ PanicNamesVector
  BY DEF KernelInit, IntInit, DigitsInv, PanicNamesVector

LEMMA DigitsSteps ==
    IntInv /\ DigitsInv /\ PanicNamesVector /\ [KernelNext]_kernelVars
        => DigitsInv' /\ PanicNamesVector'
  <1> SUFFICES ASSUME IntInv, DigitsInv, PanicNamesVector, [KernelNext]_kernelVars
               PROVE  DigitsInv' /\ PanicNamesVector'
    OBVIOUS
  <1>1. CASE interruptHandler
    <2> DEFINE v == taken[Len(taken)].vector
    <2>1. run = "interruptHandler" /\ taken' = taken /\ shown = <<>>
      BY <1>1 DEF interruptHandler, DigitsInv
    <2>2. intNumber = v /\ v \in 0 .. 255
      <3>1. taken[Len(taken)] \in Takens
        BY <2>1, NewestRuns DEF Places
      <3> QED
        BY <2>1, <3>1, FrameFound DEF Takens
    <2>3. CASE run' = "popal" /\ shown' = shown
      BY <2>1, <2>3 DEF DigitsInv, PanicNamesVector
    <2>4. CASE shown' = SubSeq(xtoa(intNumber), 1, Min({3, Len(xtoa(intNumber))}))
               /\ run' = "panic"
      <3> HIDE DEF v
      <3>1. shown' = SubSeq(xtoa(v), 1, Min({3, Len(xtoa(v))}))
        BY <2>2, <2>4, Zenon
      <3>2. NumberOf(shown') = v
        <4>1. CASE v < 16
          <5>1. xtoa(v) = <<v>> /\ v \in Nat
            BY <2>2, <4>1, XtoaIs
          <5>2. Len(<<v>>) = 1 /\ Min({3, 1}) = 1
            BY DEF Min
          <5>3. shown' = SubSeq(<<v>>, 1, 1)
            BY <3>1, <5>1, <5>2, Zenon
          <5>4. shown' = <<v>>
            BY <5>1, <5>3, ShortSequences, Zenon
          <5>5. NumberOf(<<v>>) = v
            BY <5>1, NumberIs
          <5> QED
            BY <5>4, <5>5, Zenon
        <4>2. CASE v >= 16
          <5> DEFINE hi == v \div 16
                     lo == v % 16
          <5>1. xtoa(v) = <<hi, lo>>
            BY <2>2, <4>2, XtoaIs
          <5>2. hi \in Nat /\ lo \in Nat /\ 16 * hi + lo = v
            BY <2>2
          <5> HIDE DEF hi, lo
          <5>3. Len(<<hi, lo>>) = 2 /\ Min({3, 2}) = 2
            BY DEF Min
          <5>4. shown' = SubSeq(<<hi, lo>>, 1, 2)
            BY <3>1, <5>1, <5>3, Zenon
          <5>5. shown' = <<hi, lo>>
            BY <5>2, <5>4, ShortSequences, Zenon
          <5>6. NumberOf(<<hi, lo>>) = 16 * hi + lo
            BY <5>2, NumberIs
          <5> QED
            BY <5>2, <5>5, <5>6, Zenon
        <4> QED
          BY <2>2, <4>1, <4>2
      <3>3. NumberOf(shown)' = NumberOf(shown')
        BY DEF NumberOf
      <3> QED
        BY <2>1, <2>4, <3>2, <3>3 DEF DigitsInv, PanicNamesVector, v
    <2> QED
      BY <1>1, <2>3, <2>4 DEF interruptHandler
  <1>2. CASE shown' = shown /\ run # "panic"
    BY <1>2 DEF DigitsInv, PanicNamesVector
  <1>3. CASE UNCHANGED <<run, shown, taken>>
    <2>1. NumberOf(shown)' = NumberOf(shown)
      BY <1>3 DEF NumberOf
    <2> QED
      BY <1>3, <2>1 DEF DigitsInv, PanicNamesVector
  <1> QED
    BY <1>1, <1>2, <1>3
    DEF KernelNext, Program, Event, check_CPUID_available, earlyPanic, findIoApic, foundIoApic, l_apic,
        enable, initIdt, init, disablePIC, installAll, loadIDT, int34, kmain, handler, stub, iret,
        request, irq, spuriousIrq, fault, Happens, Running, kernelVars, intVars

\* The panic message names the interrupt that was taken last, whichever of the
\* 256 vectors it is (interrupts.cpp:123-132).
THEOREM PanicAlwaysNamesVector == KernelSpec => []PanicNamesVector
  <1>1. KernelInit => DigitsInv /\ PanicNamesVector
    BY DigitsStart
  <1> QED
    BY IntAlways, <1>1, DigitsSteps, PTL DEF KernelSpec

-----------------------------------------------------------------------------
(***************************************************************************)
(* The search for the root descriptor.                                     *)
(***************************************************************************)
DescInv ==
    /\ fw \in Firmware
    /\ search = "descriptor" => desc = nullptr
    /\ search \in {"tables", "walk", "done"} => desc # nullptr
    /\ desc # nullptr => desc = findRSDPDesc
    /\ search = "panic" /\ desc = nullptr => findRSDPDesc = nullptr

\* A set of addresses has a lowest one.
LEMMA LowestAddress ==
    ASSUME NEW S, S \subseteq Nat, S # {}
    PROVE  Min(S) \in S /\ \A p \in S : Min(S) <= p
  <1>1. PICK m \in S : \A p \in S : ~(<<p, m>> \in OpToRel(<, Nat))
    BY NatLessThanWellFounded, WFMin, Zenon
  <1>2. \A p \in S : ~(p < m)
    BY <1>1 DEF OpToRel
  <1>3. \A p \in S : m <= p
    BY <1>2
  <1> QED
    BY <1>3 DEF Min

\* The scan finds the first signature on a 16-byte boundary, or one before it;
\* the seven bytes it leaves out at the end of an area hold no boundary.
LEMMA ScanFindsFirst ==
    ASSUME fw \in Firmware
    PROVE  LET first == searchRSDPDesc
               Aligned == {p \in DOMAIN fw.rsdp :
                              /\ p % 16 = 0
                              /\ \/ EBDA_START <= p /\ p <= EBDA_END
                                 \/ BIOS_START <= p /\ p <= BIOS_END}
           IN  /\ first = nullptr => Aligned = {}
               /\ first # nullptr => first \in DOMAIN fw.rsdp /\ first \in Nat
                                     /\ \A p \in Aligned : p \in Nat /\ p >= first
  <1> DEFINE ebda == Scanned(EBDA_START, EBDA_END)
             bios == Scanned(BIOS_START, BIOS_END)
             first == searchRSDPDesc
             Aligned == {p \in DOMAIN fw.rsdp :
                              /\ p % 16 = 0
                              /\ \/ EBDA_START <= p /\ p <= EBDA_END
                                 \/ BIOS_START <= p /\ p <= BIOS_END}
  <1> USE DEF EBDA_START, EBDA_END, BIOS_START, BIOS_END, RSDP_SEARCH_STR_LEN, nullptr
  <1>1. DOMAIN fw.rsdp \subseteq Nat \ {0}
    BY AcpiAssumption
  <1>2. /\ \A p : p \in ebda <=> p \in DOMAIN fw.rsdp /\ 524288 <= p /\ p < 655352
        /\ \A p : p \in bios <=> p \in DOMAIN fw.rsdp /\ 917504 <= p /\ p < 1048568
    BY DEF Scanned
  <1>3. \A p \in Aligned : p \in Nat /\ (p \in ebda \/ p \in bios)
    BY <1>1, <1>2
  <1>4. first = IF ebda # {} THEN Min(ebda) ELSE IF bios # {} THEN Min(bios) ELSE 0
    BY DEF searchRSDPDesc
  <1> HIDE DEF ebda, bios, first, Aligned
  <1>5. ebda \subseteq Nat \ {0} /\ bios \subseteq Nat \ {0} /\ ebda \subseteq DOMAIN fw.rsdp
        /\ bios \subseteq DOMAIN fw.rsdp
    BY <1>1, <1>2
  <1>6. CASE ebda # {}
    <2>1. first \in ebda /\ \A p \in ebda : first <= p
      BY <1>4, <1>5, <1>6, LowestAddress
    <2>2. \A p \in bios : first <= p
      BY <1>2, <1>5, <2>1
    <2>3. \A p \in Aligned : p \in Nat /\ p >= first
      BY <1>3, <1>5, <2>1, <2>2
    <2> QED
      BY <1>5, <2>1, <2>3 DEF first, Aligned
  <1>7. CASE ebda = {} /\ bios # {}
    <2>1. first \in bios /\ \A p \in bios : first <= p
      BY <1>4, <1>5, <1>7, LowestAddress
    <2>2. \A p \in Aligned : p \in Nat /\ p >= first
      BY <1>3, <1>5, <1>7, <2>1
    <2> QED
      BY <1>5, <2>1, <2>2 DEF first, Aligned
  <1>8. CASE ebda = {} /\ bios = {}
    <2>1. first = 0 /\ Aligned = {}
      BY <1>3, <1>4, <1>8
    <2> QED
      BY <2>1 DEF first, Aligned
  <1> QED
    BY <1>6, <1>7, <1>8

LEMMA DescSteps == DescInv /\ [KernelNext]_kernelVars => DescInv'
  <1> SUFFICES ASSUME DescInv, [KernelNext]_kernelVars PROVE DescInv'
    OBVIOUS
  <1>0. fw' = fw /\ findRSDPDesc' = findRSDPDesc
    <2>1. fw' = fw
      BY DEF KernelNext, Program, Event, check_CPUID_available, earlyPanic, findIoApic, foundIoApic,
             l_apic, enable, initIdt, int34, acpiVars, kernelVars, AcpiNext, acpi_header, findEntry,
             noMadt, getEntry
    <2> QED
      BY <2>1 DEF findRSDPDesc, searchRSDPDesc, Scanned, checkRSDPDesc
  <1>1. CASE acpi_header
    BY <1>0, <1>1 DEF acpi_header, DescInv, nullptr
  <1>2. CASE findEntry
    BY <1>0, <1>2 DEF findEntry, DescInv
  <1>3. CASE noMadt
    BY <1>0, <1>3 DEF noMadt, DescInv
  <1>4. CASE getEntry
    BY <1>0, <1>4 DEF getEntry, Answer, DescInv
  <1>5. CASE UNCHANGED acpiVars
    BY <1>0, <1>5 DEF acpiVars, DescInv
  <1> QED
    BY <1>1, <1>2, <1>3, <1>4, <1>5
    DEF KernelNext, Program, Event, check_CPUID_available, earlyPanic, findIoApic, foundIoApic,
        l_apic, enable, initIdt, int34, kernelVars, AcpiNext

\* The kernel goes on with the first signature there is; it gives up without one
\* only if there is none, or the first does not pass the check, so that no valid
\* descriptor in its place comes first (acpiKernel.cpp:33-96), wherever
\* firmware puts its descriptors.
THEOREM FirstDescriptorAlwaysDecides == KernelSpec => []FirstDescriptorDecides
  <1>1. KernelInit => DescInv
    BY DEF KernelInit, AcpiInit, DescInv, nullptr
  <1>2. DescInv => FirstDescriptorDecides
    <2> SUFFICES ASSUME DescInv PROVE FirstDescriptorDecides
      OBVIOUS
    <2> DEFINE Aligned == {p \in DOMAIN fw.rsdp :
                       /\ p % 16 = 0
                       /\ \/ EBDA_START <= p /\ p <= EBDA_END
                          \/ BIOS_START <= p /\ p <= BIOS_END}
               Passes(p) == \/ fw.rsdp[p].revision = 0 /\ fw.rsdp[p].sum20 % 256 = 0
                            \/ fw.rsdp[p].revision = 2
                               /\ (fw.rsdp[p].sum20 + fw.rsdp[p].sum16) % 256 = 0
               first == searchRSDPDesc
    <2>1. /\ first = nullptr => Aligned = {}
          /\ first # nullptr => first \in DOMAIN fw.rsdp /\ first \in Nat
                                /\ \A p \in Aligned : p \in Nat /\ p >= first
      BY ScanFindsFirst DEF DescInv
    <2>2. \A p : checkRSDPDesc(fw.rsdp[p]) <=> Passes(p)
      BY DEF checkRSDPDesc, checkSum
    <2>3. findRSDPDesc = IF first # nullptr /\ Passes(first) THEN first ELSE nullptr
      BY <2>2, Zenon DEF findRSDPDesc
    <2>v. \A p : Valid(fw.rsdp[p]) => Passes(p)
      BY DEF Valid
    <2> HIDE DEF Aligned, Passes, first
    <2>4. desc # nullptr => \A p \in Aligned : p >= desc
      BY <2>1, <2>3 DEF DescInv
    <2>5. ASSUME search = "panic", desc = nullptr, NEW p \in Aligned, Valid(fw.rsdp[p])
          PROVE  \E q \in DOMAIN fw.rsdp : q < p
      <3>1. first # nullptr
        BY <2>1, <2>5
      <3>2. ~Passes(first)
        BY <2>3, <2>5, <3>1 DEF DescInv
      <3>3. first # p
        BY <2>v, <2>5, <3>2
      <3> QED
        BY <2>1, <3>1, <3>3
    <2> QED
      BY <2>4, <2>5 DEF FirstDescriptorDecides, Aligned
  <1> QED
    BY <1>1, <1>2, DescSteps, PTL DEF KernelSpec

-----------------------------------------------------------------------------
(***************************************************************************)
(* The way from the descriptor to the I/O APIC.  TableInv says which       *)
(* entries of the root table have been passed over, WalkInv which records  *)
(* of the MADT.                                                            *)
(***************************************************************************)
Addresses == root.addresses

TableInv ==
    /\ DescInv
    /\ desc # nullptr => (type2 <=> fw.rsdp[desc].revision = 2)
    /\ index \in Nat
    /\ search = "descriptor" => index = 0
    /\ search \in {"descriptor", "tables", "walk", "done", "panic"}
    /\ search \in {"descriptor", "tables"} => madt = nullptr
    /\ search \in {"walk", "done"} => madt # nullptr
    /\ search = "tables" => \A k \in 1 .. Len(Addresses) : k <= index => ~IsMadt(Addresses[k])
    /\ search = "panic" /\ desc # nullptr /\ madt = nullptr =>
          \A k \in 1 .. Len(Addresses) : ~IsMadt(Addresses[k])
    /\ madt # nullptr =>
          \E k \in 1 .. Len(Addresses) : IsMadt(Addresses[k]) /\ madt = Pointer(Addresses[k])

\* The walker is at the end of the n-th record, the first that ends there, and
\* no record up to it is an I/O APIC's.
Passed(n) ==
    /\ walker = Offset[n]
    /\ \A m \in 0 .. n - 1 : Offset[m] < walker
    /\ \A m \in 1 .. n : records[m].type # 1

FirstIoApic(n) == records[n].type = 1 /\ \A m \in 1 .. n - 1 : records[m].type # 1

WalkInv ==
    /\ search \in {"descriptor", "tables"} => walker = madtHeader
    /\ search = "walk" => \E n \in 0 .. Len(records) : Passed(n)
    /\ search = "panic" /\ madt # nullptr => \A n \in 1 .. Len(records) : records[n].type # 1
    /\ search = "done" =>
          \E n \in 1 .. Len(records) : FirstIoApic(n) /\ entry = Offset[n - 1]

Records == [type : Nat, length : Nat]

\* The function Offsets defines is what its definition says.
LEMMA OffsetsAre ==
    ASSUME NEW rs \in Seq(Records)
    PROVE  \A n \in 0 .. Len(rs) :
              Offsets(rs)[n] = IF n = 0 THEN madtHeader ELSE Offsets(rs)[n - 1] + rs[n].length
  <1> DEFINE N == Len(rs)
             Ends(g, n) ==
                 g = [m \in 0 .. n |-> IF m = 0 THEN madtHeader ELSE g[m - 1] + rs[m].length]
             Bad == {n \in 0 .. N : ~\E g : Ends(g, n)}
  <1>0. N \in Nat
    OBVIOUS
  <1> HIDE DEF N
  <1>1. Bad = {}
    <2> SUFFICES ASSUME Bad # {} PROVE FALSE
      OBVIOUS
    <2>1. Bad \subseteq Nat
      BY <1>0
    <2>2. PICK n \in Bad : \A x \in Bad : n <= x
      <3> HIDE DEF Bad
      <3> QED
        BY <2>1, LowestAddress
    <2>3. n \in 0 .. N /\ ~\E g : Ends(g, n)
      OBVIOUS
    <2>4. CASE n = 0
      <3> DEFINE g == [m \in 0 .. 0 |-> madtHeader]
      <3>1. Ends(g, 0)
        OBVIOUS
      <3> QED
        BY <2>3, <2>4, <3>1
    <2>5. CASE n # 0
      <3>1. n - 1 \in 0 .. N /\ n - 1 \notin Bad /\ n \in Nat
        BY <1>0, <2>2, <2>3, <2>5
      <3>2. PICK g : Ends(g, n - 1)
        BY <3>1
      <3> DEFINE h == [m \in 0 .. n |-> IF m < n THEN g[m] ELSE g[n - 1] + rs[n].length]
                 k == [m \in 0 .. n |-> IF m = 0 THEN madtHeader ELSE h[m - 1] + rs[m].length]
      <3>3. \A m \in 0 .. n - 1 : g[m] = IF m = 0 THEN madtHeader ELSE g[m - 1] + rs[m].length
        BY <3>2
      <3>4. ASSUME NEW m \in 0 .. n PROVE h[m] = k[m]
        <4>1. CASE m = 0
          <5>1. h[m] = g[m]
            BY <2>5, <3>1, <4>1
          <5> QED
            BY <2>5, <3>1, <3>3, <4>1, <5>1
        <4>2. CASE m # 0 /\ m < n
          <5>1. h[m] = g[m] /\ h[m - 1] = g[m - 1]
            BY <3>1, <4>2
          <5>2. g[m] = g[m - 1] + rs[m].length
            BY <3>1, <3>3, <4>2
          <5> QED
            BY <4>2, <5>1, <5>2
        <4>3. CASE m = n
          <5>1. h[m] = g[n - 1] + rs[n].length /\ h[n - 1] = g[n - 1]
            BY <2>5, <3>1, <4>3
          <5>2. k[m] = h[m - 1] + rs[m].length
            BY <2>5, <4>3
          <5> QED
            BY <4>3, <5>1, <5>2
        <4> QED
          BY <3>1, <4>1, <4>2, <4>3
      <3>5. h = k
        BY <3>4
      <3> QED
        BY <2>3, <3>5
    <2> QED
      BY <2>4, <2>5
  <1>2. \E g : Ends(g, N)
    <2>1. N \in 0 .. N
      BY <1>0
    <2> QED
      BY <1>1, <2>1, Zenon
  <1>3. Ends(Offsets(rs), N)
    BY <1>2 DEF Offsets, N
  <1> QED
    BY <1>3 DEF N

\* Records follow one another: no end is before an earlier one.
LEMMA OffsetsGrow ==
    ASSUME NEW rs \in Seq(Records)
    PROVE  \A n \in 0 .. Len(rs) :
              /\ Offsets(rs)[n] \in Nat
              /\ Offsets(rs)[n] >= madtHeader
              /\ \A m \in 0 .. n : Offsets(rs)[m] <= Offsets(rs)[n]
  <1> DEFINE N == Len(rs)
             end == Offsets(rs)
             Grows(n) == /\ end[n] \in Nat
                         /\ end[n] >= 44
                         /\ \A m \in 0 .. n : end[m] \in Nat /\ end[m] <= end[n]
             Bad == {n \in 0 .. N : ~Grows(n)}
  <1>0. N \in Nat /\ madtHeader = 44
    BY DEF madtHeader
  <1>1. /\ \A n \in 0 .. N : end[n] = IF n = 0 THEN 44 ELSE end[n - 1] + rs[n].length
        /\ \A n \in 1 .. N : rs[n].length \in Nat
    <2>1. \A n \in 0 .. N : end[n] = IF n = 0 THEN madtHeader ELSE end[n - 1] + rs[n].length
      BY OffsetsAre, Zenon
    <2>2. \A n \in 1 .. N : rs[n] \in Records
      OBVIOUS
    <2> HIDE DEF end
    <2> QED
      BY <1>0, <2>1, <2>2 DEF Records
  <1> HIDE DEF N, end
  <1>2. Bad = {}
    <2> SUFFICES ASSUME Bad # {} PROVE FALSE
      OBVIOUS
    <2>1. Bad \subseteq Nat
      BY <1>0
    <2>2. PICK n \in Bad : \A x \in Bad : n <= x
      <3> HIDE DEF Bad
      <3> QED
        BY <2>1, LowestAddress
    <2>3. n \in 0 .. N /\ ~Grows(n)
      OBVIOUS
    <2>4. CASE n = 0
      BY <1>0, <1>1, <2>3, <2>4
    <2>5. CASE n # 0
      <3>1. n - 1 \in 0 .. N /\ n - 1 \notin Bad /\ n \in 1 .. N
        BY <1>0, <2>2, <2>3, <2>5
      <3>2. Grows(n - 1)
        BY <3>1
      <3>3. end[n] = end[n - 1] + rs[n].length /\ rs[n].length \in Nat
        BY <1>1, <2>3, <2>5, <3>1
      <3>4. \A m \in 0 .. n : m \in 0 .. n - 1 \/ m = n
        BY <3>1
      <3> QED
        BY <2>3, <3>2, <3>3, <3>4
    <2> QED
      BY <2>4, <2>5
  <1> QED
    BY <1>0, <1>2 DEF N, end

\* findEntry's count is the number of entries of the root table.
LEMMA RootIs ==
    ASSUME TableInv, desc # nullptr
    PROVE  Addresses \in Seq(Nat) /\ numEntries = Len(Addresses)
  <1> DEFINE d == fw.rsdp[desc]
             p == Pointer(IF usesXsdt THEN d.xsdt ELSE d.rsdt)
             w == IF usesXsdt THEN 8 ELSE 4
  <1>1. desc = searchRSDPDesc /\ checkRSDPDesc(d) /\ fw \in Firmware
    BY DEF TableInv, DescInv, findRSDPDesc
  <1>2. desc \in DOMAIN fw.rsdp
    BY <1>1, ScanFindsFirst
  <1>3. IF namesXsdt(d) THEN IsRoot(fw, d.xsdt, 8) ELSE IsRoot(fw, d.rsdt, 4)
    BY <1>1, <1>2, AcpiAssumption
  <1>4. usesXsdt <=> namesXsdt(d)
    BY DEF usesXsdt, namesXsdt, TableInv
  <1>5. /\ p \in DOMAIN fw.tables
        /\ fw.tables[p].addresses \in Seq(Nat)
        /\ fw.tables[p].length = sdtHeader + w * Len(fw.tables[p].addresses)
    BY <1>3, <1>4 DEF IsRoot
  <1>6. fw.tables[p].length \in sdtHeader .. Word - 1 /\ Word \in Nat
    BY <1>1, <1>5, AcpiAssumption
  <1>7. root = fw.tables[p] /\ numEntries = ((fw.tables[p].length - sdtHeader) % Word) \div w
    BY DEF root, numEntries
  <1> DEFINE L == Len(fw.tables[p].addresses)
             n == fw.tables[p].length
  <1>8. L \in Nat /\ (w = 4 \/ w = 8) /\ sdtHeader = 36
    BY <1>5 DEF sdtHeader
  <1>9. n = 36 + w * L /\ n \in 36 .. Word - 1
    BY <1>5, <1>6, <1>8
  <1> HIDE DEF L, w, n, p
  <1>10. n - 36 = w * L /\ w * L \in 0 .. Word - 1
    BY <1>6, <1>8, <1>9
  <1>11. (w * L) % Word = w * L
    BY <1>6, <1>10
  <1>12. (w * L) \div w = L
    BY <1>8
  <1>13. numEntries = L
    BY <1>7, <1>8, <1>10, <1>11, <1>12 DEF n
  <1> QED
    BY <1>5, <1>7, <1>13 DEF L, Addresses

\* The table the kernel takes for the MADT is one.
LEMMA MadtIs ==
    ASSUME TableInv, madt # nullptr
    PROVE  /\ records \in Seq(Records)
           /\ fw.tables[madt].length = Offset[Len(records)]
           /\ \A n \in 1 .. Len(records) : records[n].type = 1 => records[n].length > 0
  <1>1. PICK k \in 1 .. Len(Addresses) : IsMadt(Addresses[k]) /\ madt = Pointer(Addresses[k])
    BY DEF TableInv
  <1>2. madt \in DOMAIN fw.tables /\ fw.tables[madt].signature = "APIC"
    BY <1>1 DEF IsMadt
  <1>3. fw \in Firmware
    BY DEF TableInv, DescInv
  <1> DEFINE t == fw.tables[madt]
  <1>4. /\ t.records \in Seq([type : Nat, length : Nat])
        /\ t.length = Offsets(t.records)[Len(t.records)]
        /\ \A n \in 1 .. Len(t.records) : t.records[n].type = 1 => t.records[n].length > 0
    BY <1>2, <1>3, AcpiAssumption, Zenon
  <1> QED
    BY <1>4, Zenon DEF records, Records, Offset

LEMMA TableSteps == TableInv /\ [KernelNext]_kernelVars => TableInv'
  <1> SUFFICES ASSUME TableInv, [KernelNext]_kernelVars PROVE TableInv'
    OBVIOUS
  <1>0. DescInv'
    BY DescSteps DEF TableInv
  <1>1. CASE acpi_header
    <2>1. fw' = fw /\ madt' = nullptr /\ index' = 0 /\ desc = nullptr
      BY <1>1 DEF acpi_header, TableInv, DescInv
    <2>2. \/ search' = "panic" /\ desc' = nullptr
          \/ search' = "tables" /\ (type2' <=> fw.rsdp[desc'].revision = 2)
      BY <1>1, <2>1 DEF acpi_header
    <2> QED
      BY <1>0, <2>1, <2>2 DEF TableInv
  <1>2. ASSUME UNCHANGED <<fw, desc, type2>>
        PROVE  Addresses' = Addresses /\ \A a : IsMadt(a)' <=> IsMadt(a)
    BY <1>2 DEF Addresses, root, usesXsdt, IsMadt
  <1>3. CASE findEntry
    <2>1. UNCHANGED <<fw, desc, type2>> /\ search = "tables" /\ index < numEntries
      BY <1>3 DEF findEntry
    <2>2. desc # nullptr /\ madt = nullptr
      BY <2>1 DEF TableInv, DescInv
    <2>3. Addresses \in Seq(Nat) /\ numEntries = Len(Addresses) /\ index \in Nat
      BY <2>2, RootIs DEF TableInv
    <2>4. index + 1 \in 1 .. Len(Addresses)
      BY <2>1, <2>3
    <2>5. CASE IsMadt(Addresses[index + 1])
      <3>1. madt' = Pointer(Addresses[index + 1]) /\ search' = "walk" /\ index' = index
        BY <1>3, <2>5 DEF findEntry, Addresses
      <3>2. madt' # nullptr
        <4>1. madt' \in DOMAIN fw.tables /\ fw \in Firmware
          BY <2>5, <3>1 DEF IsMadt, TableInv, DescInv
        <4>2. madt' \in 1 .. Word - 1
          BY <4>1, AcpiAssumption
        <4> QED
          BY <4>2, AcpiAssumption DEF nullptr
      <3>3. \E k \in 1 .. Len(Addresses) : IsMadt(Addresses[k]) /\ madt' = Pointer(Addresses[k])
        BY <2>4, <2>5, <3>1
      <3>4. (\E k \in 1 .. Len(Addresses) :
                IsMadt(Addresses[k]) /\ madt = Pointer(Addresses[k]))'
        BY <1>2, <2>1, <3>3 DEF IsMadt, Pointer
      <3> QED
        BY <1>0, <2>1, <2>2, <2>3, <3>1, <3>2, <3>4 DEF TableInv
    <2>6. CASE ~IsMadt(Addresses[index + 1])
      <3>1. index' = index + 1 /\ madt' = madt /\ search' = search
        BY <1>3, <2>6 DEF findEntry, Addresses
      <3>2. \A k \in 1 .. Len(Addresses) : k <= index + 1 => k <= index \/ k = index + 1
        BY <2>3
      <3>3. \A k \in 1 .. Len(Addresses) : k <= index' => ~IsMadt(Addresses[k])
        BY <2>1, <2>6, <3>1, <3>2 DEF TableInv
      <3> QED
        BY <1>0, <1>2, <2>1, <2>2, <2>3, <3>1, <3>3 DEF TableInv
    <2> QED
      BY <2>5, <2>6
  <1>4. CASE noMadt
    <2>1. UNCHANGED <<fw, desc, type2, index, madt>> /\ search = "tables" /\ index >= numEntries
          /\ search' = "panic"
      BY <1>4 DEF noMadt
    <2>2. desc # nullptr /\ madt = nullptr
      BY <2>1 DEF TableInv, DescInv
    <2>3. Addresses \in Seq(Nat) /\ numEntries = Len(Addresses) /\ index \in Nat
      BY <2>2, RootIs DEF TableInv
    <2>4. \A k \in 1 .. Len(Addresses) : ~IsMadt(Addresses[k])
      <3>1. \A k \in 1 .. Len(Addresses) : k <= index
        BY <2>1, <2>3
      <3> QED
        BY <2>1, <3>1 DEF TableInv
    <2> QED
      BY <1>0, <1>2, <2>1, <2>2, <2>3, <2>4 DEF TableInv
  <1>5. CASE getEntry
    <2>1. /\ UNCHANGED <<fw, desc, type2, index, madt>> /\ search = "walk"
          /\ search' \in {"walk", "done", "panic"}
      BY <1>5 DEF getEntry, Answer
    <2>2. madt # nullptr /\ desc # nullptr
      BY <2>1 DEF TableInv, DescInv
    <2> QED
      BY <1>0, <1>2, <2>1, <2>2 DEF TableInv
  <1>6. CASE UNCHANGED acpiVars
    BY <1>0, <1>2, <1>6 DEF acpiVars, TableInv
  <1> QED
    BY <1>1, <1>3, <1>4, <1>5, <1>6
    DEF KernelNext, Program, Event, check_CPUID_available, earlyPanic, findIoApic, foundIoApic,
        l_apic, enable, initIdt, int34, kernelVars, AcpiNext

\* getEntry's next record is the one after those it has passed.
LEMMA CurrIs ==
    ASSUME TableInv, madt # nullptr, InTable, NEW n \in 0 .. Len(records), Passed(n)
    PROVE  n + 1 \in 1 .. Len(records) /\ curr = records[n + 1]
  <1> DEFINE rs == records
             N == Len(records)
             end == Offset
  <1>b. rs \in Seq(Records) /\ fw.tables[madt].length = end[N]
    BY MadtIs
  <1>c. N \in Nat
    BY <1>b
  <1>d. \A k \in 0 .. N : end[k] \in Nat
    BY <1>b, OffsetsGrow DEF Offset
  <1>e. /\ walker = end[n]
        /\ \A m \in 0 .. n - 1 : end[m] < walker
    BY DEF Passed
  <1>f. InTable <=> walker < end[N]
    BY <1>b DEF InTable
  <1>1. n # N
    BY <1>d, <1>e, <1>f, <1>c
  <1>2. n + 1 \in 1 .. N /\ n \in Nat
    BY <1>c, <1>1
  <1> DEFINE At(k) == end[k - 1] = walker /\ \A m \in 1 .. k - 1 : end[m - 1] < walker
  <1>3. At(n + 1)
    <2>1. \A m \in 1 .. (n + 1) - 1 : m - 1 \in 0 .. n - 1
      BY <1>2
    <2>2. (n + 1) - 1 = n
      BY <1>2
    <2> QED
      BY <1>e, <2>1, <2>2
  <1>4. ASSUME NEW k \in 1 .. N, At(k) PROVE k = n + 1
    <2>0. k \in Nat /\ walker \in Nat /\ n \in Nat
      BY <1>c, <1>d, <1>e, <1>2
    <2>1. ~(k < n + 1)
      <3> SUFFICES ASSUME k < n + 1 PROVE FALSE
        OBVIOUS
      <3>1. k - 1 \in 0 .. n - 1
        BY <2>0
      <3> QED
        BY <1>e, <1>4, <2>0, <3>1
    <2>2. ~(n + 1 < k)
      <3> SUFFICES ASSUME n + 1 < k PROVE FALSE
        OBVIOUS
      <3>1. n + 1 \in 1 .. k - 1 /\ (n + 1) - 1 = n
        BY <2>0
      <3>2. end[(n + 1) - 1] < walker
        BY <1>4, <3>1
      <3>3. end[(n + 1) - 1] = walker
        BY <1>e, <3>1
      <3> QED
        BY <2>0, <3>2, <3>3
    <2> QED
      BY <2>0, <2>1, <2>2
  <1>5. (CHOOSE k \in 1 .. N : At(k)) = n + 1
    <2> HIDE DEF At
    <2> QED
      BY <1>2, <1>3, <1>4
  <1> QED
    BY <1>2, <1>5 DEF curr

LEMMA WalkSteps == TableInv /\ WalkInv /\ [KernelNext]_kernelVars => WalkInv'
  <1> SUFFICES ASSUME TableInv, WalkInv, [KernelNext]_kernelVars PROVE WalkInv'
    OBVIOUS
  <1>1. CASE acpi_header
    <2>1. walker' = madtHeader /\ search' \in {"panic", "tables"} /\ madt' = nullptr
      BY <1>1 DEF acpi_header, TableInv, WalkInv
    <2> QED
      BY <2>1 DEF WalkInv
  <1>2. CASE findEntry
    <2>1. walker' = madtHeader /\ fw' = fw /\ search = "tables" /\ madt = nullptr
      BY <1>2 DEF findEntry, TableInv, WalkInv
    <2>2. CASE IsMadt(root.addresses[index + 1])
      <3> DEFINE a == Pointer(root.addresses[index + 1])
                 rs == fw.tables[a].records
      <3>1. madt' = a /\ search' = "walk" /\ a \in DOMAIN fw.tables
            /\ fw.tables[a].signature = "APIC" /\ fw \in Firmware
        BY <1>2, <2>2 DEF findEntry, IsMadt, TableInv, DescInv
      <3>2. rs \in Seq(Records)
        BY <3>1, AcpiAssumption, Zenon DEF Records
      <3>3. records' = rs /\ Offset' = Offsets(rs)
        BY <2>1, <3>1 DEF records, Offset, Offsets
      <3> HIDE DEF rs
      <3>4. 0 \in 0 .. Len(rs)
        BY <3>2
      <3>5. Offsets(rs)[0] = madtHeader
        BY <3>2, <3>4, OffsetsAre
      <3>6. Passed(0)'
        BY <2>1, <3>3, <3>5 DEF Passed
      <3> QED
        BY <3>1, <3>3, <3>4, <3>6 DEF WalkInv
    <2>3. CASE ~IsMadt(root.addresses[index + 1])
      <3>1. search' = "tables"
        BY <1>2, <2>1, <2>3 DEF findEntry
      <3> QED
        BY <2>1, <3>1 DEF WalkInv
    <2> QED
      BY <2>2, <2>3
  <1>3. CASE noMadt
    <2>1. search' = "panic" /\ madt' = nullptr
      BY <1>3 DEF noMadt, TableInv
    <2> QED
      BY <2>1 DEF WalkInv
  <1>4. CASE getEntry
    <2> DEFINE rs == records
               N == Len(records)
               end == Offset
    <2>1. search = "walk" /\ fw' = fw /\ madt' = madt /\ madt # nullptr
      BY <1>4 DEF getEntry, TableInv
    <2>2. records' = records /\ Offset' = Offset
      BY <2>1 DEF records, Offset, Offsets
    <2>3. /\ rs \in Seq(Records)
          /\ fw.tables[madt].length = end[N]
          /\ \A n \in 1 .. N : rs[n].type = 1 => rs[n].length > 0
      BY <2>1, MadtIs
    <2>4. N \in Nat /\ \A n \in 1 .. N : rs[n].length \in Nat
      <3>1. \A n \in 1 .. N : rs[n] \in Records
        BY <2>3
      <3> QED
        BY <2>3, <3>1 DEF Records
    <2>5. /\ \A n \in 0 .. N : end[n] = IF n = 0 THEN madtHeader ELSE end[n - 1] + rs[n].length
          /\ \A n \in 0 .. N : /\ end[n] \in Nat
                               /\ end[n] >= 44
                               /\ \A m \in 0 .. n : end[m] <= end[n]
      BY <2>3, OffsetsAre, OffsetsGrow DEF Offset, madtHeader
    <2>6. PICK n \in 0 .. N : Passed(n)
      BY <2>1 DEF WalkInv
    <2>7. /\ walker = end[n]
          /\ \A m \in 0 .. n - 1 : end[m] < walker
          /\ \A m \in 1 .. n : rs[m].type # 1
      BY <2>6 DEF Passed
    <2>8. InTable <=> walker < end[N]
      BY <2>3 DEF InTable
    <2>9. InTable => n + 1 \in 1 .. N /\ curr = rs[n + 1]
      BY <2>1, <2>6, CurrIs
    <2> HIDE DEF rs, N, end
    <2>10. CASE InTable /\ curr.type = 1
      <3>1. n + 1 \in 1 .. N /\ curr = rs[n + 1] /\ n \in Nat /\ (n + 1) - 1 = n
        BY <2>4, <2>9, <2>10
      <3>2. FirstIoApic(n + 1)
        BY <2>7, <2>10, <3>1 DEF FirstIoApic, rs
      <3>3. walker # nullptr /\ walker = end[(n + 1) - 1]
        BY <2>5, <2>7, <3>1 DEF nullptr
      <3>4. Answer(walker)
        BY <1>4, <2>10 DEF getEntry
      <3>5. CASE caller = "kmain"
        <4>1. search' = "walk" /\ walker' = madtHeader
          BY <2>1, <3>4, <3>5 DEF Answer
        <4>2. 0 \in 0 .. N /\ end[0] = madtHeader
          BY <2>4, <2>5
        <4>3. Passed(0)'
          BY <2>2, <4>1, <4>2 DEF Passed, end
        <4> QED
          BY <2>2, <4>1, <4>2, <4>3 DEF WalkInv, N
      <3>6. CASE caller = "io_apic"
        <4>1. search' = "done" /\ entry' = end[(n + 1) - 1]
          BY <3>3, <3>4, <3>6 DEF Answer
        <4>2. FirstIoApic(n + 1)'
          BY <2>2, <3>2 DEF FirstIoApic
        <4> QED
          BY <2>2, <3>1, <4>1, <4>2 DEF WalkInv, N, end
      <3> QED
        BY <3>4, <3>5, <3>6 DEF Answer
    <2>11. CASE InTable /\ curr.type # 1
      <3>1. n + 1 \in 1 .. N /\ curr = rs[n + 1] /\ n \in Nat /\ (n + 1) - 1 = n
        BY <2>4, <2>9, <2>11
      <3>2. walker' = walker + rs[n + 1].length /\ search' = "walk"
        BY <1>4, <2>1, <2>11, <3>1 DEF getEntry, Advanced
      <3>3. walker' = end[n + 1] /\ n + 1 \in 0 .. N
        BY <2>4, <2>5, <2>7, <3>1, <3>2
      <3>4. CASE rs[n + 1].length = 0
        <4>1. walker' = walker
          BY <2>5, <2>7, <3>2, <3>4
        <4>2. Passed(n)'
          BY <2>2, <2>6, <4>1 DEF Passed
        <4> QED
          BY <2>2, <2>6, <3>2, <4>2 DEF WalkInv, N
      <3>5. CASE rs[n + 1].length # 0
        <4>1. walker \in Nat /\ walker' \in Nat /\ walker < walker'
          BY <2>4, <2>5, <2>7, <3>1, <3>2, <3>5
        <4>2. \A m \in 0 .. n : end[m] < walker'
          <5>1. \A m \in 0 .. n : m \in 0 .. N /\ (m \in 0 .. n - 1 \/ m = n)
            BY <2>4, <3>1
          <5>2. \A m \in 0 .. n : end[m] \in Nat /\ end[m] <= walker
            BY <2>5, <2>7, <4>1, <5>1
          <5> QED
            BY <4>1, <5>2
        <4>3. \A m \in 1 .. n + 1 : rs[m].type # 1
          <5>1. \A m \in 1 .. n + 1 : m \in 1 .. n \/ m = n + 1
            BY <3>1
          <5> QED
            BY <2>7, <2>11, <3>1, <5>1
        <4>4. Passed(n + 1)'
          BY <2>2, <3>1, <3>3, <4>2, <4>3 DEF Passed, end, rs
        <4> QED
          BY <2>2, <3>2, <3>3, <4>4 DEF WalkInv, N
      <3> QED
        BY <3>4, <3>5
    <2>12. CASE ~InTable
      <3>1. ASSUME NEW k \in 1 .. N, rs[k].type = 1 PROVE FALSE
        <4>1. k \in Nat /\ n \in Nat /\ k \in 0 .. N /\ k - 1 \in 0 .. N /\ N \in 0 .. N
          BY <2>4
        <4>2. k - 1 >= n
          <5>1. k \notin 1 .. n
            BY <2>7, <3>1
          <5> QED
            BY <4>1, <5>1
        <4>3. end[k] = end[k - 1] + rs[k].length /\ rs[k].length > 0 /\ rs[k].length \in Nat
          BY <2>3, <2>4, <2>5, <3>1, <4>1
        <4>4. end[n] <= end[k - 1] /\ end[k] <= end[N]
          <5>1. n \in 0 .. k - 1 /\ k \in 0 .. N
            BY <4>1, <4>2
          <5> QED
            BY <2>5, <4>1, <5>1
        <4>5. /\ end[n] \in Nat /\ end[k - 1] \in Nat /\ end[k] \in Nat /\ end[N] \in Nat
          BY <2>5, <4>1
        <4>6. ~(end[n] < end[N])
          BY <2>7, <2>8, <2>12
        <4> QED
          BY <4>3, <4>4, <4>5, <4>6
      <3>2. Answer(nullptr)
        BY <1>4, <2>12 DEF getEntry
      <3>3. CASE caller = "kmain"
        <4>1. search' = "walk" /\ walker' = madtHeader
          BY <2>1, <3>2, <3>3 DEF Answer
        <4>2. 0 \in 0 .. N /\ end[0] = madtHeader
          BY <2>4, <2>5
        <4>3. Passed(0)'
          BY <2>2, <4>1, <4>2 DEF Passed, end
        <4> QED
          BY <2>2, <4>1, <4>2, <4>3 DEF WalkInv, N
      <3>4. CASE caller = "io_apic"
        <4>1. search' = "panic"
          BY <3>2, <3>4 DEF Answer
        <4>2. \A k \in 1 .. N : rs[k].type # 1
          BY <3>1
        <4> QED
          BY <2>2, <4>1, <4>2 DEF WalkInv, N, rs
      <3> QED
        BY <3>2, <3>3, <3>4 DEF Answer
    <2> QED
      BY <2>10, <2>11, <2>12
  <1>5. CASE UNCHANGED acpiVars
    <2>1. records' = records /\ Offset' = Offset
      BY <1>5 DEF acpiVars, records, Offset, Offsets
    <2> QED
      BY <1>5, <2>1 DEF acpiVars, WalkInv, Passed, FirstIoApic
  <1> QED
    BY <1>1, <1>2, <1>3, <1>4, <1>5
    DEF KernelNext, Program, Event, check_CPUID_available, earlyPanic, findIoApic, foundIoApic,
        l_apic, enable, initIdt, int34, kernelVars, AcpiNext

\* The I/O APIC the kernel keeps is the first of the MADT that the root table
\* lists, and it gives up only where there is none (acpi.cpp:36-122), for any
\* number of tables and records, empty records among them.
THEOREM IoApicAlwaysFirstListed == KernelSpec => []IoApicIsFirstListed
  <1>1. KernelInit => TableInv /\ WalkInv
    BY DEF KernelInit, AcpiInit, TableInv, DescInv, WalkInv, nullptr
  <1>2. TableInv /\ WalkInv => IoApicIsFirstListed
    <2> SUFFICES ASSUME TableInv, WalkInv, desc # nullptr, \A a \in Listed : a < Word
                 PROVE  IoApicIsFirstListed
      BY DEF IoApicIsFirstListed
    <2> DEFINE madts == {a \in Listed : IsMadt(a)}
               firsts == {n \in 1 .. Len(records) :
                             records[n].type = 1 /\ \A m \in 1 .. n - 1 : records[m].type # 1}
    <2>1. Addresses \in Seq(Nat) /\ Listed = {Addresses[k] : k \in 1 .. Len(Addresses)}
      BY RootIs DEF Listed, Addresses
    <2>2. \A k \in 1 .. Len(Addresses) : Pointer(Addresses[k]) = Addresses[k]
      <3>1. \A k \in 1 .. Len(Addresses) : Addresses[k] \in Nat /\ Addresses[k] < Word
        BY <2>1
      <3>2. Word \in Nat
        BY AcpiAssumption
      <3>3. \A a \in Nat : a < Word => a % Word = a
        BY <3>2
      <3> QED
        BY <3>1, <3>3, Zenon DEF Pointer
    <2>3. madt # nullptr => madt \in madts
      <3> SUFFICES ASSUME madt # nullptr PROVE madt \in madts
        OBVIOUS
      <3>1. PICK k \in 1 .. Len(Addresses) :
               IsMadt(Addresses[k]) /\ madt = Pointer(Addresses[k])
        BY DEF TableInv
      <3> QED
        BY <2>1, <2>2, <3>1
    <2>4. search = "panic" /\ madt = nullptr => madts = {}
      BY <2>1 DEF TableInv
    <2>5. search = "panic" /\ madt # nullptr => firsts = {}
      BY DEF WalkInv
    <2>6. search = "done" => firsts # {} /\ entry = Offset[Min(firsts) - 1]
      <3> SUFFICES ASSUME search = "done"
                   PROVE  firsts # {} /\ entry = Offset[Min(firsts) - 1]
        OBVIOUS
      <3>1. PICK n \in 1 .. Len(records) : FirstIoApic(n) /\ entry = Offset[n - 1]
        BY DEF WalkInv
      <3>2. n \in firsts
        BY <3>1 DEF FirstIoApic
      <3>3. Len(records) \in Nat
        BY MadtIs DEF TableInv
      <3>4. \A k \in firsts : k = n
        BY <3>1, <3>3 DEF FirstIoApic
      <3>5. firsts \subseteq Nat /\ firsts # {}
        BY <3>2, <3>3
      <3> HIDE DEF firsts
      <3>6. Min(firsts) \in firsts
        BY <3>5, LowestAddress
      <3> QED
        BY <3>1, <3>4, <3>5, <3>6
    <2> QED
      BY <2>3, <2>4, <2>5, <2>6 DEF IoApicIsFirstListed
  <1>3. TableInv /\ WalkInv /\ [KernelNext]_kernelVars => (TableInv /\ WalkInv)'
    BY TableSteps, WalkSteps
  <1> QED
    BY <1>1, <1>2, <1>3, PTL DEF KernelSpec

-----------------------------------------------------------------------------
(***************************************************************************)
(* Why the search ends: it goes from stage to stage, and within a stage    *)
(* the entries or bytes ahead get fewer.                                   *)
(***************************************************************************)
Stage ==
    IF search = "descriptor" THEN 4
    ELSE IF search = "tables" THEN 3
    ELSE IF search = "walk" THEN IF caller = "kmain" THEN 2 ELSE 1
    ELSE 0

Ahead ==
    IF search = "tables" THEN numEntries - index
    ELSE IF search = "walk" THEN fw.tables[madt].length - walker ELSE 0

SearchProgress ==
    /\ Stage \in Nat
    /\ Stage' \in Nat
    /\ \/ Stage' < Stage
       \/ Stage' = Stage /\ Ahead \in Nat /\ Ahead' < Ahead

CallerInv ==
    /\ search \in {"descriptor", "tables"} => caller = "kmain"
    /\ caller \in {"kmain", "io_apic"}

LEMMA CallerStep == CallerInv /\ [KernelNext]_kernelVars => CallerInv'
  <1> SUFFICES ASSUME CallerInv, [KernelNext]_kernelVars PROVE CallerInv'
    OBVIOUS
  <1>1. CASE acpi_header
    BY <1>1 DEF acpi_header, CallerInv
  <1>2. CASE findEntry
    BY <1>2 DEF findEntry, CallerInv
  <1>3. CASE noMadt
    BY <1>3 DEF noMadt, CallerInv
  <1>4. CASE getEntry
    BY <1>4 DEF getEntry, Answer, CallerInv
  <1>5. CASE UNCHANGED acpiVars
    BY <1>5 DEF acpiVars, CallerInv
  <1> QED
    BY <1>1, <1>2, <1>3, <1>4, <1>5
    DEF KernelNext, Program, Event, check_CPUID_available, earlyPanic, findIoApic, foundIoApic,
        l_apic, enable, initIdt, int34, kernelVars, AcpiNext

\* A record the walk passes over has a length, on a MADT that can be walked.
LEMMA WalkProgress ==
    ASSUME TableInv, WalkInv, WalkableMadt, search = "walk", InTable, curr.type # 1
    PROVE  curr.length \in Nat \ {0} /\ walker \in Nat /\ fw.tables[madt].length \in Nat
  <1>1. madt # nullptr
    BY DEF TableInv
  <1>2. /\ records \in Seq(Records)
        /\ fw.tables[madt].length = Offset[Len(records)]
    BY <1>1, MadtIs
  <1>3. PICK n \in 0 .. Len(records) : Passed(n)
    BY DEF WalkInv
  <1>4. n + 1 \in 1 .. Len(records) /\ curr = records[n + 1]
    BY <1>1, <1>3, CurrIs
  <1>5. \A k \in 0 .. Len(records) : Offset[k] \in Nat
    BY <1>2, OffsetsGrow DEF Offset
  <1>6. walker \in Nat /\ fw.tables[madt].length \in Nat
    <2>1. Len(records) \in 0 .. Len(records)
      BY <1>2
    <2>2. walker = Offset[n]
      BY <1>3 DEF Passed
    <2> QED
      BY <1>2, <1>3, <1>5, <2>1, <2>2
  <1>7. curr.length \in Nat
    <2>1. records[n + 1] \in Records
      BY <1>2, <1>4
    <2> QED
      BY <1>4, <2>1 DEF Records
  <1>8. curr.length # 0
    <2> SUFFICES ASSUME records[n + 1].length = 0 PROVE FALSE
      BY <1>4
    <2>1. madt \in DOMAIN fw.tables /\ fw.tables[madt].signature = "APIC"
      <3>1. PICK k \in 1 .. Len(Addresses) : IsMadt(Addresses[k]) /\ madt = Pointer(Addresses[k])
        BY <1>1 DEF TableInv
      <3> QED
        BY <3>1 DEF IsMadt
    <2>2. \E m \in 1 .. (n + 1) - 1 : records[m].type = 1
      BY <1>4, <2>1 DEF WalkableMadt, records
    <2>3. (n + 1) - 1 = n
      BY <1>3
    <2> QED
      BY <1>3, <2>2, <2>3 DEF Passed
  <1> QED
    BY <1>6, <1>7, <1>8

LEMMA SearchSteps ==
    ASSUME TableInv, WalkInv, CallerInv, WalkableMadt, KernelNext
    PROVE  SearchProgress \/ UNCHANGED acpiVars
  <1>0. Stage \in Nat /\ Stage' \in Nat
    BY DEF Stage
  <1>1. CASE acpi_header
    <2>1. search = "descriptor" /\ search' \in {"panic", "tables"}
      BY <1>1 DEF acpi_header
    <2>2. Stage = 4 /\ (Stage' = 0 \/ Stage' = 3)
      BY <2>1 DEF Stage
    <2> QED
      BY <2>2 DEF SearchProgress
  <1>2. CASE findEntry
    <2>1. search = "tables" /\ caller = "kmain" /\ caller' = "kmain" /\ index < numEntries
      BY <1>2 DEF findEntry, CallerInv
    <2>2. CASE search' = "walk"
      <3>1. Stage = 3 /\ Stage' = 2
        BY <2>1, <2>2 DEF Stage
      <3> QED
        BY <3>1 DEF SearchProgress
    <2>3. CASE search' = "tables" /\ index' = index + 1
      <3>1. Stage = 3 /\ Stage' = 3
        BY <2>1, <2>3 DEF Stage
      <3>2. numEntries \in Nat /\ index \in Nat
        <4>1. desc # nullptr
          BY <2>1 DEF TableInv, DescInv
        <4> QED
          BY <4>1, RootIs DEF TableInv
      <3>3. numEntries' = numEntries
        BY <1>2 DEF findEntry, numEntries, root, usesXsdt
      <3>4. Ahead = numEntries - index /\ Ahead' = numEntries - (index + 1)
        BY <2>1, <2>3, <3>3 DEF Ahead
      <3>5. Ahead \in Nat /\ Ahead' < Ahead
        <4> HIDE DEF Ahead
        <4> QED
          BY <2>1, <3>2, <3>4
      <3> QED
        BY <1>0, <3>1, <3>5 DEF SearchProgress
    <2> QED
      BY <1>2, <2>1, <2>2, <2>3 DEF findEntry
  <1>3. CASE noMadt
    <2>1. search = "tables" /\ search' = "panic"
      BY <1>3 DEF noMadt
    <2>2. Stage = 3 /\ Stage' = 0
      BY <2>1 DEF Stage
    <2> QED
      BY <2>2 DEF SearchProgress
  <1>4. CASE getEntry
    <2>1. search = "walk" /\ fw' = fw /\ madt' = madt
      BY <1>4 DEF getEntry
    <2>2. CASE InTable /\ curr.type # 1 /\ walker' = Advanced /\ UNCHANGED <<search, caller, entry>>
      <3>1. /\ curr.length \in Nat \ {0} /\ walker \in Nat
            /\ fw.tables[madt].length \in Nat /\ walker < fw.tables[madt].length
        BY <2>1, <2>2, WalkProgress DEF InTable
      <3>2. Stage' = Stage
        BY <2>2 DEF Stage
      <3>3. /\ Ahead = fw.tables[madt].length - walker
            /\ Ahead' = fw.tables[madt].length - (walker + curr.length)
        BY <2>1, <2>2 DEF Ahead, Advanced
      <3>4. Ahead \in Nat /\ Ahead' < Ahead
        <4> HIDE DEF Ahead
        <4> QED
          BY <3>1, <3>3
      <3> QED
        BY <1>0, <3>2, <3>4 DEF SearchProgress
    <2>3. ASSUME NEW found, Answer(found) PROVE SearchProgress
      <3>1. CASE caller = "kmain"
        <4>1. search' = "walk" /\ caller' = "io_apic"
          BY <2>1, <2>3, <3>1 DEF Answer
        <4>2. Stage = 2 /\ Stage' = 1
          BY <2>1, <3>1, <4>1 DEF Stage
        <4> QED
          BY <4>2 DEF SearchProgress
      <3>2. CASE caller = "io_apic"
        <4>1. search' \in {"panic", "done"}
          BY <2>3, <3>2 DEF Answer
        <4>2. Stage = 1 /\ Stage' = 0
          BY <2>1, <3>2, <4>1 DEF Stage
        <4> QED
          BY <4>2 DEF SearchProgress
      <3> QED
        BY <3>1, <3>2 DEF CallerInv
    <2> QED
      BY <1>4, <2>2, <2>3 DEF getEntry
  <1> QED
    BY <1>1, <1>2, <1>3, <1>4
    DEF KernelNext, Program, Event, check_CPUID_available, earlyPanic, findIoApic, foundIoApic,
        l_apic, enable, initIdt, int34, AcpiNext

\* The search for the I/O APIC cannot go on for ever on a MADT without an empty
\* record before the I/O APIC's: every turn of findEntry's and getEntry's loops has
\* less ahead of it, and getEntry is called twice (acpi.cpp:36-122, kmain.cpp:72-87).
\* Interrupts in between do not set it back.
THEOREM SearchStepsBounded == KernelSpec => [][WalkableMadt => SearchProgress]_acpiVars
  <1>1. KernelInit => TableInv /\ WalkInv /\ CallerInv
    BY DEF KernelInit, AcpiInit, TableInv, DescInv, WalkInv, CallerInv, nullptr
  <1>2. TableInv /\ WalkInv /\ CallerInv /\ [KernelNext]_kernelVars
          => [WalkableMadt => SearchProgress]_acpiVars
    <2>1. UNCHANGED kernelVars => UNCHANGED acpiVars
      BY DEF kernelVars
    <2> QED
      BY <2>1, SearchSteps
  <1> QED
    BY <1>1, <1>2, TableSteps, WalkSteps, CallerStep, PTL DEF KernelSpec
=============================================================================
