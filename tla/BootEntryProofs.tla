--------------------------- MODULE BootEntryProofs --------------------------
(***************************************************************************)
(* What holds on the way from the boot sector to protected mode, for every *)
(* disk, every machine and any number of keys pressed at any time.         *)
(***************************************************************************)
EXTENDS BootEntry, TLAPS

-----------------------------------------------------------------------------
(***************************************************************************)
(* The boot sector: what has been loaded, by the place in the code.        *)
(***************************************************************************)
Stage0Inv ==
    /\ disk.sectors \in Nat
    /\ packet \in [n : Nat, lba : Nat, upper : Nat]
    /\ s0 # "_start" => low
    /\ s0 \in {"_start", "reset", "first sector"} => DOMAIN loaded = {}
    /\ s0 \in {"signature", "all sectors"} => DOMAIN loaded = {0} /\ loaded[0] = 1
    /\ s0 \in {"all sectors", "jumped"} => disk.magic
    /\ s0 = "jumped" =>
          /\ \A k \in 0 .. disk.sectors - 1 : k \in DOMAIN loaded /\ loaded[k] = 1 + k
          /\ 0 \in DOMAIN loaded /\ loaded[0] = 1

LEMMA Stage0Starts == EntryInit => Stage0Inv
    BY Stage0Assumption DEF EntryInit, Stage0Init, Stage0Inv

LEMMA Stage0Steps == Stage0Inv /\ [EntryNext]_entryVars => Stage0Inv'
  <1> SUFFICES ASSUME Stage0Inv, [EntryNext]_entryVars PROVE Stage0Inv'
    OBVIOUS
  <1>1. CASE start0
    BY <1>1 DEF start0, Stage0Inv
  <1>2. CASE resetDisk
    BY <1>2 DEF resetDisk, error0, Stage0Inv
  <1>3. CASE readFirst
    <2>1. s0 = "first sector" /\ DOMAIN loaded = {} /\ UNCHANGED <<disk, low>>
      BY <1>3 DEF readFirst, lba_read, error0, Stage0Inv
    <2>2. \/ s0' = "halted"
          \/ /\ s0' = "signature"
             /\ loaded' = [k \in DOMAIN loaded \cup (0 .. 1 - 1) |->
                             IF k < 1 THEN packet'.lba + k ELSE loaded[k]]
      BY <1>3 DEF readFirst, lba_read, error0
    <2>3. packet'.lba = 1
      BY <1>3 DEF readFirst, lba_read, Packet, Stage0Inv
    <2>4. packet' \in [n : Nat, lba : Nat, upper : Nat]
      BY <1>3 DEF readFirst, lba_read, Packet, Stage0Inv
    <2>5. CASE s0' = "halted"
      BY <2>1, <2>4, <2>5 DEF Stage0Inv
    <2>6. CASE s0' # "halted"
      <3>1. 0 .. 1 - 1 = {0}
        OBVIOUS
      <3>a. DOMAIN loaded \cup (0 .. 1 - 1) = {0}
        BY <2>1, <3>1, Zenon
      <3>b. loaded' = [k \in {0} |-> IF k < 1 THEN packet'.lba + k ELSE loaded[k]]
        BY <2>2, <2>6, <3>a, Zenon
      <3>c. DOMAIN loaded' = {0} /\ loaded'[0] = 1
        BY <2>3, <3>b
      <3> QED
        BY <2>1, <2>2, <2>4, <2>6, <3>c DEF Stage0Inv
    <2> QED
      BY <2>5, <2>6
  <1>4. CASE checkMagic
    BY <1>4 DEF checkMagic, error0, Stage0Inv
  <1>5. CASE readAll
    <2>1. s0 = "all sectors" /\ UNCHANGED <<disk, low>>
      BY <1>5 DEF readAll, lba_read, error0
    <2>2. \/ s0' = "halted"
          \/ /\ s0' = "jumped"
             /\ loaded' = [k \in DOMAIN loaded \cup (0 .. disk.sectors - 1) |->
                             IF k < disk.sectors THEN packet'.lba + k ELSE loaded[k]]
      BY <1>5 DEF readAll, lba_read, error0
    <2>3. packet'.lba = 1
      BY <1>5 DEF readAll, lba_read, Packet, FirstLBA, Stage0Inv
    <2>4. packet' \in [n : Nat, lba : Nat, upper : Nat]
      BY <1>5 DEF readAll, lba_read, Packet, FirstLBA, Stage0Inv
    <2>5. CASE s0' = "halted"
      BY <2>1, <2>4, <2>5 DEF Stage0Inv
    <2>6. CASE s0' # "halted"
      <3>1. disk.sectors \in Nat /\ DOMAIN loaded = {0} /\ loaded[0] = 1
        BY <2>1 DEF Stage0Inv
      <3>2. \A k \in 0 .. disk.sectors - 1 : k \in DOMAIN loaded' /\ loaded'[k] = 1 + k
        BY <2>2, <2>3, <2>6, <3>1
      <3>3. 0 \in DOMAIN loaded' /\ loaded'[0] = 1
        BY <2>2, <2>3, <2>6, <3>1
      <3> QED
        BY <2>1, <2>2, <2>4, <2>6, <3>2, <3>3 DEF Stage0Inv
    <2> QED
      BY <2>5, <2>6
  <1>6. CASE UNCHANGED s0Vars
    BY <1>6 DEF s0Vars, Stage0Inv
  <1> QED
    BY <1>1, <1>2, <1>3, <1>4, <1>5, <1>6
    DEF EntryNext, InStage0, InStage1, Stage0Next, entryVars

\* Stage 1 gets control only when every sector of it is in memory, in order
\* (stage0.S:51-87), for every disk and whatever memory held.
THEOREM Stage1AlwaysInMemory == EntrySpec => []Stage1InMemory
  <1>1. EntrySpec => []Stage0Inv
    BY Stage0Starts, Stage0Steps, PTL DEF EntrySpec
  <1>2. Stage0Inv => Stage1InMemory
    BY DEF Stage0Inv, Stage1InMemory
  <1> QED
    BY <1>1, <1>2, PTL

-----------------------------------------------------------------------------
(***************************************************************************)
(* The A20 line and the words check_a20 writes.                            *)
(***************************************************************************)
LineInv == pc \in {"a20_done", "protected"} => a20

WordsInv ==
    /\ memory \in [{"low", "high"} -> Nat \X Nat]
    /\ before \in [{"low", "high"} -> Nat \X Nat]
    /\ TestedBytesRestored

A20Inv == LineInv /\ WordsInv

\* The test sees the wrap exactly when the line is disabled.
LEMMA TestIsRight ==
    ASSUME WordsInv
    PROVE  WrapsAround <=> ~a20
  <1>1. CASE a20
    <2>1. High = "high"
      BY <1>1 DEF High
    <2>2. Written["low"] = <<0, 0>>
      BY <2>1 DEF Written, WordsInv
    <2>3. <<0, 0>> # <<255, 0>>
      OBVIOUS
    <2> QED
      BY <1>1, <2>2, <2>3 DEF WrapsAround
  <1>2. CASE ~a20
    <2>1. High = "low"
      BY <1>2 DEF High
    <2>2. Written["low"] = <<255, 0>>
      BY <2>1 DEF Written, WordsInv
    <2> QED
      BY <1>2, <2>2 DEF WrapsAround
  <1> QED
    BY <1>1, <1>2

\* check_a20 leaves the words typed, the first byte of each as it was and the
\* second as it was or 0.
LEMMA RestoreRight ==
    ASSUME WordsInv
    PROVE  /\ Restored \in [{"low", "high"} -> Nat \X Nat]
           /\ \A w \in {"low", "high"} :
                 /\ Restored[w][1] = memory[w][1]
                 /\ Restored[w][2] \in {memory[w][2], 0}
  <1>1. CASE a20
    <2>1. High = "high"
      BY <1>1 DEF High
    <2>2. Written = [w \in {"low", "high"} |-> IF w = "low" THEN <<0, 0>> ELSE <<255, 0>>]
      BY <2>1 DEF Written, WordsInv
    <2>3. Restored = [w \in {"low", "high"} |-> <<memory[w][1], 0>>]
      BY <2>1, <2>2 DEF Restored, WordsInv
    <2> QED
      BY <2>3 DEF WordsInv
  <1>2. CASE ~a20
    <2>1. High = "low"
      BY <1>2 DEF High
    <2>2. Written = [memory EXCEPT !["low"] = <<255, 0>>]
      BY <2>1 DEF Written, WordsInv
    <2> DEFINE r == <<memory["low"][1], 0>>
    <2>a. memory["low"][1] \in Nat /\ 255 \in Nat /\ 0 \in Nat
      BY DEF WordsInv
    <2>b. [Written EXCEPT !["low"][1] = memory["low"][1]] = [Written EXCEPT !["low"] = r]
      <3>1. Written["low"] = <<255, 0>>
        BY <2>2 DEF WordsInv
      <3>2. [<<255, 0>> EXCEPT ![1] = memory["low"][1]] = r
        BY <2>a
      <3>3. [Written["low"] EXCEPT ![1] = memory["low"][1]] = r
        BY <3>1, <3>2, Zenon
      <3> QED
        BY <3>3, Zenon
    <2>3. [Written EXCEPT !["low"] = r] = [memory EXCEPT !["low"] = r]
      BY <2>2 DEF WordsInv
    <2>4. [[memory EXCEPT !["low"] = r] EXCEPT !["low"][1] = memory["low"][1]]
             = [memory EXCEPT !["low"] = r]
      <3> DEFINE m == [memory EXCEPT !["low"] = r]
      <3>1. m["low"] = r
        BY DEF WordsInv
      <3>2. [m EXCEPT !["low"][1] = memory["low"][1]] = [m EXCEPT !["low"] = r]
        <4>1. [r EXCEPT ![1] = memory["low"][1]] = r
          BY <2>a
        <4>2. [m["low"] EXCEPT ![1] = memory["low"][1]] = r
          BY <3>1, <4>1, Zenon
        <4> HIDE DEF m
        <4> QED
          BY <4>2, Zenon
      <3>3. [m EXCEPT !["low"] = r] = m
        BY DEF WordsInv
      <3> QED
        BY <3>2, <3>3
    <2>5. Restored = [memory EXCEPT !["low"] = r]
      BY <2>1, <2>b, <2>3, <2>4, Zenon DEF Restored
    <2> QED
      BY <2>5 DEF WordsInv
  <1> QED
    BY <1>1, <1>2

LEMMA A20Starts == EntryInit => A20Inv
  <1> SUFFICES ASSUME EntryInit PROVE A20Inv
    OBVIOUS
  <1>1. Bytes \subseteq Nat
    BY EnableA20Assumption
  <1>2. memory \in [{"low", "high"} -> Nat \X Nat] /\ before = memory
    BY <1>1 DEF EntryInit, Init, Words
  <1>3. pc = "a20_stuff"
    BY DEF EntryInit, Init
  <1> QED
    BY <1>2, <1>3 DEF A20Inv, LineInv, WordsInv, TestedBytesRestored
LEMMA A20Steps == A20Inv /\ [EntryNext]_entryVars => A20Inv'
  <1> SUFFICES ASSUME A20Inv, [EntryNext]_entryVars PROVE A20Inv'
    OBVIOUS
  <1>1. ASSUME NEW from, NEW disabled, check_a20(from, "a20_done", disabled),
               disabled \notin {"a20_done", "protected"}
        PROVE  A20Inv'
    <2>1. memory' = Restored /\ UNCHANGED <<a20, before>>
          /\ pc' = IF WrapsAround THEN disabled ELSE "a20_done"
      BY <1>1 DEF check_a20, machine
    <2>2. LineInv'
      BY <1>1, <2>1, TestIsRight DEF LineInv, A20Inv
    <2>3. WordsInv'
      BY <2>1, RestoreRight DEF WordsInv, A20Inv, TestedBytesRestored
    <2> QED
      BY <2>2, <2>3 DEF A20Inv
  <1>2. ASSUME UNCHANGED <<memory, before>>, a20 => a20',
               pc' \in {"a20_done", "protected"} => pc \in {"a20_done", "protected"}
        PROVE  A20Inv'
    BY <1>2 DEF A20Inv, LineInv, WordsInv, TestedBytesRestored
  <1>3. CASE int15_test
    BY <1>2, <1>3 DEF int15_test, machine
  <1>4. CASE int15_enable
    BY <1>2, <1>4 DEF int15_enable, machine
  <1>5. CASE keyboard_enable
    BY <1>2, <1>5 DEF keyboard_enable, machine
  <1>6. CASE commands
    BY <1>2, <1>6 DEF commands, out, machine
  <1>7. CASE in
    BY <1>2, <1>7 DEF in, machine
  <1>8. CASE sti
    BY <1>2, <1>8 DEF sti, machine
  <1>9. CASE fast_a20_enable
    BY <1>2, <1>9 DEF fast_a20_enable
  <1>10. CASE error
    BY <1>2, <1>10 DEF error, machine
  <1>11. CASE pmEntry
    BY <1>2, <1>11 DEF pmEntry, machine
  <1>12. CASE command
    BY <1>2, <1>12 DEF command, machine
  <1>13. CASE outputPort
    BY <1>2, <1>13 DEF outputPort, machine
  <1>14. CASE keyPressed
    BY <1>2, <1>14 DEF keyPressed, machine
  <1>15. CASE irq1
    BY <1>2, <1>15 DEF irq1, machine
  <1>16. CASE UNCHANGED vars
    BY <1>2, <1>16 DEF vars
  <1>17. CASE Processor
    <2>1. ASSUME NEW from, NEW disabled \in {"int15_test", "keyboard_enable", "fast_a20_enable", "error"},
                 check_a20(from, "a20_done", disabled)
          PROVE  A20Inv'
      BY <1>1, <2>1
    <2> QED
      BY <1>17, <2>1, <1>3, <1>4, <1>5, <1>6, <1>7, <1>8, <1>9, <1>10, <1>11 DEF Processor
  <1> QED
    BY <1>12, <1>13, <1>14, <1>15, <1>16, <1>17
    DEF EntryNext, InStage0, InStage1, Next, entryVars

\* Protected mode is entered only with address line 20 enabled (stage1.S:33-50),
\* whatever the BIOS, the controller and the keyboard do.
THEOREM ProtectedAlwaysEnabled == EntrySpec => []ProtectedMeansEnabled
  <1>1. EntrySpec => []A20Inv
    BY A20Starts, A20Steps, PTL DEF EntrySpec
  <1>2. A20Inv => ProtectedMeansEnabled
    BY DEF A20Inv, LineInv, ProtectedMeansEnabled
  <1> QED
    BY <1>1, <1>2, PTL

\* The byte at each tested address is what it was, after any number of tests
\* with the line on or off (stage1.S:155-173).
THEOREM TestedBytesAlwaysRestored == EntrySpec => []TestedBytesRestored
  <1>1. EntrySpec => []A20Inv
    BY A20Starts, A20Steps, PTL DEF EntrySpec
  <1>2. A20Inv => TestedBytesRestored
    BY DEF A20Inv, WordsInv
  <1> QED
    BY <1>1, <1>2, PTL

-----------------------------------------------------------------------------
(***************************************************************************)
(* The conversation with the keyboard controller, by the place in the code *)
(* (.keyboard_enable, stage1.S:212-247).  Quiet are the places outside of  *)
(* it.  Up to the answer, and unless a key is in the output buffer with    *)
(* interrupts off, the output buffer is empty or holds the answer.         *)
(***************************************************************************)
Bytes8042 == {None, "0xad", "0xae", "0xd0", "0xd1", "port", "key"}

KbcType ==
    kbc \in [input : Bytes8042, output : {None, "port", "key"},
             enabled : BOOLEAN, due : BOOLEAN, kept : BOOLEAN]

Quiet == {"a20_stuff", "int15_test", "int15_enable", "int15 check", "keyboard_enable",
          "keyboard check", "fast_a20_enable", "fast check", "error", "a20_done",
          "halted", "protected"}

Talking == {"out 0xad", "out 0xd0", "in 0x60", "out 0xd1", "out 0x60", "out 0xae", "sti"}

BeforeTalk == {"a20_stuff", "int15_test", "int15_enable", "int15 check", "keyboard_enable"}

Idle == kbc.input = None /\ ~kbc.due

Conversation ==
    /\ pc \in Quiet => Idle
    /\ pc \in Talking => ~flagIF
    /\ pc = "out 0xad" => Idle /\ kbc.output = None
    /\ pc = "out 0xd0" =>
          /\ kbc.input \in {None, "0xad"} /\ ~kbc.due /\ kbc.output = None
          /\ kbc.input = None => ~kbc.enabled
    /\ pc = "in 0x60" =>
          /\ ~kbc.due /\ ~kbc.enabled
          /\ \/ kbc.input = "0xd0" /\ kbc.output = None
             \/ kbc.input = None /\ kbc.output = "port"
    /\ pc = "out 0xd1" => Idle /\ al = "port"
    /\ pc = "out 0x60" =>
          /\ al = "port"
          /\ \/ kbc.input = "0xd1" /\ ~kbc.due
             \/ kbc.input = None /\ kbc.due
    /\ pc = "out 0xae" =>
          \/ kbc.input = "port" /\ kbc.due
          \/ Idle
    /\ pc = "sti" => kbc.input \in {None, "0xae"} /\ ~kbc.due

KbcInv ==
    /\ KbcType
    /\ al \in {None, "port", "key"}
    /\ pc \in BeforeTalk => ~stale /\ flagIF
    /\ ~stale => pc \in Quiet \cup Talking /\ kbc.kept /\ Conversation

LEMMA KbcStarts == EntryInit => KbcInv
    BY DEF EntryInit, Init, KbcInv, KbcType, Bytes8042, Quiet, Talking, BeforeTalk, Idle, Conversation, None

\* No step of the machine breaks the conversation.
LEMMA KbcSteps == KbcInv /\ [EntryNext]_entryVars => KbcInv'
  <1> SUFFICES ASSUME KbcInv, [EntryNext]_entryVars PROVE KbcInv'
    OBVIOUS
  <1> USE DEF KbcInv, KbcType, Bytes8042, Quiet, Talking, BeforeTalk, Idle, Conversation, None, machine
  <1>1. ASSUME NEW from \in {"a20_stuff", "int15 check", "keyboard check", "fast check"},
               NEW disabled \in {"int15_test", "keyboard_enable", "fast_a20_enable", "error"},
               disabled \in BeforeTalk => from \in BeforeTalk,
               check_a20(from, "a20_done", disabled)
        PROVE  KbcInv'
    <2>1. UNCHANGED <<flagIF, al, kbc, stale>> /\ pc = from /\ pc' \in {disabled, "a20_done"}
      BY <1>1 DEF check_a20
    <2>2. pc \in Quiet /\ pc' \in Quiet /\ pc' \notin Talking
      BY <1>1, <2>1
    <2>3. KbcType' /\ al' \in {None, "port", "key"}
      BY <2>1
    <2>4. pc' \in BeforeTalk => ~stale' /\ flagIF'
      BY <1>1, <2>1
    <2>5. ~stale => kbc.kept /\ Idle
      BY <2>2
    <2>6. ~stale' => kbc'.kept /\ Idle'
      BY <2>1, <2>5
    <2> QED
      BY <2>2, <2>3, <2>4, <2>6
  <1>2. CASE int15_test
    BY <1>2 DEF int15_test
  <1>3. CASE int15_enable
    BY <1>3 DEF int15_enable
  <1>4. CASE keyboard_enable
    BY <1>4 DEF keyboard_enable, AfterCli
  <1>5. CASE commands
    <2>1. CASE out("out 0xad", "0xad", "out 0xd0")
      BY <2>1 DEF out, a20_wait
    <2>2. CASE out("out 0xd0", "0xd0", "in 0x60")
      BY <2>2 DEF out, a20_wait
    <2>3. CASE out("out 0xd1", "0xd1", "out 0x60")
      BY <2>3 DEF out, a20_wait
    <2>4. CASE out("out 0x60", al, "out 0xae")
      BY <2>4 DEF out, a20_wait
    <2>5. CASE out("out 0xae", "0xae", "sti")
      BY <2>5 DEF out, a20_wait
    <2> QED
      BY <1>5, <2>1, <2>2, <2>3, <2>4, <2>5 DEF commands
  <1>6. CASE in
    BY <1>6 DEF in, a20_wait_2
  <1>7. CASE sti
    BY <1>7 DEF sti, a20_wait
  <1>8. CASE fast_a20_enable
    BY <1>8 DEF fast_a20_enable
  <1>9. CASE error
    BY <1>9 DEF error
  <1>10. CASE pmEntry
    BY <1>10 DEF pmEntry
  <1>11. CASE command
    BY <1>11 DEF command, Taken
  <1>12. CASE outputPort
    BY <1>12 DEF outputPort, Taken
  <1>13. CASE keyPressed
    BY <1>13 DEF keyPressed
  <1>14. CASE irq1
    BY <1>14 DEF irq1
  <1>15. CASE UNCHANGED vars
    <2>1. UNCHANGED <<pc, flagIF, al, kbc, stale>>
      BY <1>15 DEF vars
    <2>2. KbcType' /\ al' \in {None, "port", "key"}
      BY <2>1
    <2>3. (pc' \in BeforeTalk => ~stale' /\ flagIF') /\ (~stale' => kbc'.kept)
      BY <2>1
    <2>4. ~stale => pc \in Quiet \cup Talking /\ Conversation
      OBVIOUS
    <2>5. ~stale' => (pc \in Quiet \cup Talking)' /\ Conversation'
      <3> HIDE DEF KbcInv, KbcType
      <3> QED
        BY <2>1, <2>4
    <2> QED
      BY <2>2, <2>3, <2>5
  <1>16. CASE Processor
    BY <1>16, <1>1, <1>2, <1>3, <1>4, <1>5, <1>6, <1>7, <1>8, <1>9, <1>10 DEF Processor
  <1> QED
    BY <1>11, <1>12, <1>13, <1>14, <1>15, <1>16
    DEF EntryNext, InStage0, InStage1, Next, entryVars

\* Unless a key was waiting with interrupts off, the output port gets back the
\* value read from it and the machine is not reset (stage1.S:228-240), for any
\* number of keys and every interleaving with controller and interrupts.
THEOREM OutputPortAlwaysKept == EntrySpec => []OutputPortKept
  <1>1. EntrySpec => []KbcInv
    BY KbcStarts, KbcSteps, PTL DEF EntrySpec
  <1>2. KbcInv => OutputPortKept
    BY DEF KbcInv, Quiet, Talking, OutputPortKept
  <1> QED
    BY <1>1, <1>2, PTL

\* What the controller is at, by the place in the code, even with a key in the
\* output buffer: a command is taken as a command and al as the data byte.
TalkInv ==
    /\ KbcType
    /\ pc = "out 0xad" => kbc.input = None /\ ~kbc.due
    /\ pc = "out 0xd0" => kbc.input \in {None, "0xad"} /\ ~kbc.due
    /\ pc \in {"in 0x60", "out 0xd1"} => kbc.input \in {None, "0xd0"} /\ ~kbc.due
    /\ pc \in {"out 0xd1", "out 0x60"} => al \in {"port", "key"}
    /\ pc = "out 0x60" =>
          \/ kbc.input = "0xd1" /\ ~kbc.due
          \/ kbc.input = None /\ kbc.due
    /\ pc = "out 0xae" => (kbc.input # None <=> kbc.due)
    /\ pc = "sti" =>
          /\ ~kbc.due
          /\ kbc.input \in {None, "0xae"}
          /\ kbc.input = None => kbc.enabled
    /\ KeyboardBack

LEMMA TalkSteps == TalkInv /\ [EntryNext]_entryVars => TalkInv'
  <1> SUFFICES ASSUME TalkInv, [EntryNext]_entryVars PROVE TalkInv'
    OBVIOUS
  <1> USE DEF TalkInv, KbcType, Bytes8042, KeyboardBack, None
  <1>1. ASSUME NEW from \in {"a20_stuff", "int15 check", "keyboard check", "fast check"},
               NEW disabled \in {"int15_test", "keyboard_enable", "fast_a20_enable", "error"},
               check_a20(from, "a20_done", disabled)
        PROVE  TalkInv'
    BY <1>1 DEF check_a20
  <1>2. CASE int15_test \/ int15_enable \/ keyboard_enable
    BY <1>2 DEF int15_test, int15_enable, keyboard_enable
  <1>5. CASE commands
    <2>1. CASE out("out 0xad", "0xad", "out 0xd0")
      BY <2>1 DEF out, a20_wait
    <2>2. CASE out("out 0xd0", "0xd0", "in 0x60")
      BY <2>2 DEF out, a20_wait
    <2>3. CASE out("out 0xd1", "0xd1", "out 0x60")
      BY <2>3 DEF out, a20_wait
    <2>4. CASE out("out 0x60", al, "out 0xae")
      BY <2>4 DEF out, a20_wait
    <2>5. CASE out("out 0xae", "0xae", "sti")
      BY <2>5 DEF out, a20_wait
    <2> QED
      BY <1>5, <2>1, <2>2, <2>3, <2>4, <2>5 DEF commands
  <1>6. CASE in
    BY <1>6 DEF in, a20_wait_2
  <1>7. CASE sti
    BY <1>7 DEF sti, a20_wait
  <1>8. CASE fast_a20_enable \/ error \/ pmEntry
    BY <1>8 DEF fast_a20_enable, error, pmEntry
  <1>11. CASE command
    BY <1>11 DEF command, Taken
  <1>12. CASE outputPort
    BY <1>12 DEF outputPort, Taken
  <1>13. CASE keyPressed
    BY <1>13 DEF keyPressed
  <1>14. CASE irq1
    BY <1>14 DEF irq1
  <1>15. CASE UNCHANGED vars
    BY <1>15 DEF vars
  <1>16. CASE Processor
    BY <1>16, <1>1, <1>2, <1>5, <1>6, <1>7, <1>8 DEF Processor
  <1> QED
    BY <1>11, <1>12, <1>13, <1>14, <1>15, <1>16
    DEF EntryNext, InStage0, InStage1, Next, entryVars

\* Whenever the processor is not talking to the controller, the keyboard is
\* enabled and the controller has taken every byte (stage1.S:212-247), for any
\* number of keys and every interleaving.
THEOREM KeyboardAlwaysBack == EntrySpec => []KeyboardBack
  <1>1. EntryInit => TalkInv
    BY DEF EntryInit, Init, TalkInv, KbcType, Bytes8042, KeyboardBack, None
  <1>2. TalkInv => KeyboardBack
    BY DEF TalkInv
  <1> QED
    BY <1>1, <1>2, TalkSteps, PTL DEF EntrySpec
=============================================================================
