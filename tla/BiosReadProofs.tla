--------------------------- MODULE BiosReadProofs ---------------------------
(***************************************************************************)
(* What holds of a disk read through the BIOS for every request limit,     *)
(* every length and every place of the caller's buffer.                    *)
(*                                                                         *)
(* Two independent inductive invariants: ReadInv says how far diskRead16   *)
(* is and what it has copied out, TripInv where the caller's stack         *)
(* pointers are during a trip to real mode and what the byte at 0xFFFE is. *)
(***************************************************************************)
EXTENDS BiosRead, TLAPS

\* The packet, while a request is on its way.
PacketInv ==
    pc \in {"int13", "failed", "move"} =>
        /\ i <= iterations
        /\ dap = [lba |-> currentLBA, n |-> currentSectors]

\* The bounce buffer, once the BIOS has filled it.
BounceInv == pc = "move" => bounce = [k \in 0 .. dap.n - 1 |-> dap.lba + k]

\* The caller's buffer holds the sectors before currentBuffer, and no more
\* than it asked for.
BufferInv ==
    /\ DOMAIN buffer = {k \in 0 .. sectors - 1 : k < currentBuffer}
    /\ \A k \in DOMAIN buffer : buffer[k] = LBA + k

ReadInv ==
    /\ LBA \in Nat
    /\ sectors \in Nat
    /\ i \in Nat
    /\ currentBuffer = i * MAX_SECTORS
    /\ currentLBA = LBA + i * MAX_SECTORS
    /\ pc = "returned" => i > iterations
    /\ PacketInv
    /\ BounceInv
    /\ BufferInv

-----------------------------------------------------------------------------
\* The requests made before the last one are whole, the last one is shorter.
LEMMA RequestSizes ==
    ASSUME sectors \in Nat
    PROVE  /\ MAX_SECTORS \in Nat \ {0}
           /\ iterations \in Nat
           /\ MAX_SECTORS * iterations <= sectors
           /\ sectors < MAX_SECTORS * iterations + MAX_SECTORS
           /\ MAX_SECTORS * iterations \in Nat
    BY DiskReadAssumption DEF iterations

\* Multiples of the request limit, in order.
LEMMA Multiples ==
    ASSUME NEW a \in Nat, NEW b \in Nat, NEW m \in Nat
    PROVE  /\ a * m \in Nat
           /\ (a + 1) * m = a * m + m
           /\ a < b => a * m + m <= b * m
           /\ a * m = m * a
    OBVIOUS

\* What the request at i asks for is what is left, up to the limit.
LEMMA CurrentRequest ==
    ASSUME ReadInv, i <= iterations
    PROVE  /\ currentSectors \in 0 .. MAX_SECTORS
           /\ currentBuffer \in Nat
           /\ currentBuffer + currentSectors <= sectors
           /\ i = iterations \/ currentSectors = MAX_SECTORS
           /\ i = iterations => currentBuffer + currentSectors = sectors
  <1>1. sectors \in Nat /\ i \in Nat /\ currentBuffer = i * MAX_SECTORS
    BY DEF ReadInv
  <1>2. /\ MAX_SECTORS \in Nat \ {0} /\ iterations \in Nat
        /\ MAX_SECTORS * iterations <= sectors
        /\ sectors < MAX_SECTORS * iterations + MAX_SECTORS
        /\ MAX_SECTORS * iterations \in Nat
    BY <1>1, RequestSizes
  <1>3. /\ i * MAX_SECTORS \in Nat
        /\ i < iterations => i * MAX_SECTORS + MAX_SECTORS <= iterations * MAX_SECTORS
        /\ iterations * MAX_SECTORS = MAX_SECTORS * iterations
    BY <1>1, <1>2, Multiples
  <1>4. CASE i = iterations
    <2>1. currentSectors = sectors - MAX_SECTORS * iterations
      BY <1>4 DEF currentSectors
    <2>2. currentBuffer = MAX_SECTORS * iterations
      BY <1>1, <1>3, <1>4
    <2> QED
      BY <2>1, <2>2, <1>1, <1>2
  <1>5. CASE i # iterations
    <2>1. currentSectors = MAX_SECTORS
      BY <1>5 DEF currentSectors
    <2>2. i < iterations
      BY <1>5, <1>1, <1>2
    <2> HIDE DEF iterations
    <2> QED
      BY <2>1, <2>2, <1>1, <1>2, <1>3
  <1> QED
    BY <1>4, <1>5

LEMMA ReadStarts == BiosInit => ReadInv
    BY DiskReadAssumption
    DEF BiosInit, Init, NoSectors, ReadInv, PacketInv, BounceInv, BufferInv

-----------------------------------------------------------------------------
\* memmove and the step to the next request (diskRead16.cpp:54-63).
LEMMA MoveKeeps ==
    ASSUME ReadInv, moveOut
    PROVE  ReadInv'
  <1>0. pc = "move" /\ i <= iterations /\ dap = [lba |-> currentLBA, n |-> currentSectors]
    BY DEF moveOut, ReadInv, PacketInv
  <1>1. /\ LBA \in Nat /\ sectors \in Nat /\ i \in Nat
        /\ currentBuffer = i * MAX_SECTORS /\ currentLBA = LBA + i * MAX_SECTORS
    BY DEF ReadInv
  <1>2. /\ currentSectors \in 0 .. MAX_SECTORS
        /\ currentBuffer \in Nat
        /\ currentBuffer + currentSectors <= sectors
        /\ i = iterations \/ currentSectors = MAX_SECTORS
        /\ i = iterations => currentBuffer + currentSectors = sectors
    BY <1>0, CurrentRequest
  <1>3. MAX_SECTORS \in Nat /\ (i + 1) * MAX_SECTORS = i * MAX_SECTORS + MAX_SECTORS
    BY <1>1, Multiples, DiskReadAssumption
  <1>4. bounce = [k \in 0 .. currentSectors - 1 |-> currentLBA + k]
    BY <1>0 DEF ReadInv, BounceInv
  <1>5. /\ LBA' = LBA /\ sectors' = sectors /\ i' = i + 1 /\ pc' = "fill"
        /\ currentBuffer' = currentBuffer + MAX_SECTORS
        /\ currentLBA' = currentLBA + MAX_SECTORS
    BY DEF moveOut, Step
  <1>6. DOMAIN buffer = {k \in 0 .. sectors - 1 : k < currentBuffer}
        /\ \A k \in DOMAIN buffer : buffer[k] = LBA + k
    BY DEF ReadInv, BufferInv
  <1> HIDE DEF currentSectors
  <1>7. buffer' = [k \in DOMAIN buffer \cup
                           (currentBuffer .. currentBuffer + currentSectors - 1) |->
                     IF k >= currentBuffer /\ k - currentBuffer \in DOMAIN bounce
                     THEN bounce[k - currentBuffer] ELSE buffer[k]]
    BY DEF moveOut
  <1>8. BufferInv'
    <2>1. DOMAIN buffer' = DOMAIN buffer \cup
                             (currentBuffer .. currentBuffer + currentSectors - 1)
      BY <1>7
    <2>2. \A k \in Int : k \in DOMAIN buffer' <=>
             (0 <= k /\ k < sectors /\ k < currentBuffer + MAX_SECTORS)
      <3>1. sectors <= currentBuffer + MAX_SECTORS
              \/ currentSectors = MAX_SECTORS
        BY <1>2, <1>3, <1>1
      <3>2. currentSectors = MAX_SECTORS \/ currentBuffer + currentSectors = sectors
        BY <1>2
      <3> QED
        BY <2>1, <3>1, <3>2, <1>1, <1>2, <1>3, <1>6
    <2>3. DOMAIN buffer' = {k \in 0 .. sectors - 1 : k < currentBuffer + MAX_SECTORS}
      <3>1. DOMAIN buffer' \subseteq Int
        BY <2>1, <1>1, <1>2, <1>6
      <3> DEFINE D == DOMAIN buffer'
      <3>2. \A k : k \in D <=> k \in {x \in 0 .. sectors - 1 : x < currentBuffer + MAX_SECTORS}
        BY <2>2, <3>1, <1>1
      <3> HIDE DEF D
      <3>3. D = {x \in 0 .. sectors - 1 : x < currentBuffer + MAX_SECTORS}
        BY <3>2
      <3> QED
        BY <3>3 DEF D
    <2>4. ASSUME NEW k \in DOMAIN buffer' PROVE buffer'[k] = LBA + k
      <3>1. CASE k >= currentBuffer
        <4>1. k \in currentBuffer .. currentBuffer + currentSectors - 1
          BY <3>1, <2>1, <1>1, <1>2, <1>6
        <4>2. k - currentBuffer \in 0 .. currentSectors - 1
          BY <4>1, <1>1, <1>2
        <4>3. buffer'[k] = bounce[k - currentBuffer]
          BY <4>1, <4>2, <3>1, <1>4, <1>7
        <4> QED
          BY <4>2, <4>3, <4>1, <1>1, <1>2, <1>4
      <3>2. CASE ~(k >= currentBuffer)
        BY <3>2, <2>1, <1>1, <1>2, <1>6, <1>7
      <3> QED
        BY <3>1, <3>2
    <2> QED
      BY <2>3, <2>4, <1>5 DEF BufferInv
  <1>9. currentBuffer' = i' * MAX_SECTORS /\ currentLBA' = LBA' + i' * MAX_SECTORS
    BY <1>1, <1>3, <1>5
  <1> QED
    BY <1>1, <1>5, <1>8, <1>9 DEF ReadInv, PacketInv, BounceInv

LEMMA ReadSteps == ReadInv /\ [BiosNext]_biosVars => ReadInv'
  <1> SUFFICES ASSUME ReadInv, [BiosNext]_biosVars PROVE ReadInv'
    OBVIOUS
  <1>1. CASE fillDAP
    <2>1. currentSectors' = currentSectors /\ iterations' = iterations
      BY <1>1 DEF fillDAP, currentSectors, iterations
    <2>2. PacketInv'
      BY <1>1, <2>1 DEF fillDAP, More, PacketInv
    <2> QED
      BY <1>1, <2>1, <2>2 DEF fillDAP, ReadInv, BounceInv, BufferInv
  <1>2. CASE int13
    <2>1. currentSectors' = currentSectors /\ iterations' = iterations
      BY <1>2 DEF int13, currentSectors, iterations
    <2> QED
      BY <1>2, <2>1 DEF int13, ReadInv, PacketInv, BounceInv, BufferInv
  <1>3. CASE int13Fails
    <2>1. currentSectors' = currentSectors /\ iterations' = iterations
      BY <1>3 DEF int13Fails, currentSectors, iterations
    <2> QED
      BY <1>3, <2>1 DEF int13Fails, ReadInv, PacketInv, BounceInv, BufferInv
  <1>4. CASE earlyPanic
    BY <1>4 DEF earlyPanic, ReadInv, PacketInv, BounceInv, BufferInv
  <1>5. CASE moveOut
    BY <1>5, MoveKeeps
  <1>6. CASE return
    <2>1. i > iterations
      <3>1. i \in Nat /\ sectors \in Nat
        BY DEF ReadInv
      <3>2. iterations \in Nat
        BY <3>1, RequestSizes
      <3> QED
        BY <1>6, <3>1, <3>2 DEF return, More
    <2>2. iterations' = iterations
      BY <1>6 DEF return, iterations
    <2> QED
      BY <1>6, <2>1, <2>2 DEF return, ReadInv, PacketInv, BounceInv, BufferInv
  <1>7. CASE UNCHANGED vars
    <2>1. currentSectors' = currentSectors /\ iterations' = iterations
      BY <1>7 DEF vars, currentSectors, iterations
    <2> QED
      BY <1>7, <2>1 DEF vars, ReadInv, PacketInv, BounceInv, BufferInv
  <1> QED
    BY <1>1, <1>2, <1>3, <1>4, <1>5, <1>6, <1>7
    DEF BiosNext, InProtectedMode, ToRealMode, asmCall_int13, Call, BackToProtectedMode,
        biosVars

LEMMA ReadInPlace == ReadInv => PrefixInPlace
  <1> SUFFICES ASSUME ReadInv PROVE PrefixInPlace
    OBVIOUS
  <1>1. /\ LBA \in Nat /\ sectors \in Nat /\ i \in Nat
        /\ currentBuffer = i * MAX_SECTORS /\ (pc = "returned" => i > iterations)
        /\ DOMAIN buffer = {k \in 0 .. sectors - 1 : k < currentBuffer}
        /\ \A k \in DOMAIN buffer : buffer[k] = LBA + k
    BY DEF ReadInv, BufferInv
  <1>2. /\ MAX_SECTORS \in Nat \ {0} /\ iterations \in Nat
        /\ sectors < MAX_SECTORS * iterations + MAX_SECTORS
    BY <1>1, RequestSizes
  <1>3. /\ i * MAX_SECTORS \in Nat
        /\ iterations < i => iterations * MAX_SECTORS + MAX_SECTORS <= i * MAX_SECTORS
        /\ iterations * MAX_SECTORS = MAX_SECTORS * iterations
        /\ iterations * MAX_SECTORS \in Nat
    BY <1>1, <1>2, Multiples
  <1> HIDE DEF iterations
  <1>4. pc = "returned" => sectors <= currentBuffer
    BY <1>1, <1>2, <1>3
  <1> QED
    BY <1>1, <1>3, <1>4 DEF PrefixInPlace

\* Every disk read, of any length and with any request limit, puts every sector
\* in its place, never one too many, and returns only when all of them are
\* there (diskRead16.cpp:38-66).
THEOREM SectorsAlwaysInPlace == BiosSpec => []PrefixInPlace
  <1>1. BiosSpec => []ReadInv
    BY ReadStarts, ReadSteps, PTL DEF BiosSpec
  <1> QED
    BY <1>1, ReadInPlace, PTL

-----------------------------------------------------------------------------
(***************************************************************************)
(* The trip to real mode.  The caller's stack pointers and return address  *)
(* are in env outside the trip and in _temp during it; the byte at 0xFFFE  *)
(* is the one the sector lying there has put there.                        *)
(***************************************************************************)
OnTrip == {"pm16Entry", "realEntry", "function", "or $1", "pm32Entry"}

TripInv ==
    /\ rm \in OnTrip \cup {"idle", "fault"}
    /\ rm = "idle" => /\ PE \in cr0
                      /\ segments = "data32"
                      /\ \A r \in Saved : env[r] = Callers[r]
    /\ rm \in OnTrip => \A r \in Saved : temp[r] = Callers[r]
    /\ rm = "pm32Entry" => PE \in cr0
    /\ byteFFFE \in Nat
    /\ rm = "fault" => byteFFFE % 2 = 1
    /\ place \in DOMAIN buffer =>
          byteFFFE = IF buffer[place] \in OddSectors THEN 17 ELSE 16

LEMMA TripStarts == BiosInit => TripInv
    BY RealModeAssumption
    DEF BiosInit, Init, NoSectors, RealModeInit, TripInv, OnTrip

LEMMA TripSteps == TripInv /\ [BiosNext]_biosVars => TripInv'
  <1> SUFFICES ASSUME TripInv, [BiosNext]_biosVars PROVE TripInv'
    OBVIOUS
  <1>1. CASE InProtectedMode /\ UNCHANGED place
    <2>1. rm = "idle" /\ UNCHANGED <<rm, cr0, segments, env, temp, place>>
          /\ byteFFFE' = ByteIn(buffer')
      BY <1>1 DEF InProtectedMode
    <2>2. byteFFFE' \in Nat
      BY <2>1 DEF ByteIn, TripInv
    <2>3. place' \in DOMAIN buffer' =>
             byteFFFE' = IF buffer'[place'] \in OddSectors THEN 17 ELSE 16
      BY <2>1 DEF ByteIn
    <2> QED
      BY <2>1, <2>2, <2>3 DEF TripInv, OnTrip
  <1>2. CASE ToRealMode /\ UNCHANGED place
    <2>1. UNCHANGED <<vars, place, byteFFFE>> /\ pc = "int13"
      BY <1>2 DEF ToRealMode, realModeCall, pm16Entry, realEntry
    <2>2. CASE realModeCall
      BY <2>1, <2>2 DEF realModeCall, TripInv, OnTrip, vars
    <2>3. CASE pm16Entry
      <3>1. PE \in cr0' => byteFFFE % 2 = 1
        <4>1. PE \in cr0' => (byteFFFE \div 2^PE) % 2 = 1
          BY <2>3 DEF pm16Entry, Masked
        <4>2. 2^PE = 1
          BY DEF PE
        <4>3. byteFFFE \in Nat
          BY DEF TripInv
        <4> QED
          BY <4>1, <4>2, <4>3
      <3> QED
        BY <2>1, <2>3, <3>1 DEF pm16Entry, TripInv, OnTrip, vars
    <2>4. CASE realEntry
      BY <2>1, <2>4 DEF realEntry, TripInv, OnTrip, vars
    <2> QED
      BY <1>2, <2>2, <2>3, <2>4 DEF ToRealMode
  <1>3. CASE asmCall_int13 /\ UNCHANGED place
    BY <1>3 DEF asmCall_int13, Call, int13, int13Fails, functionReturns, TripInv, OnTrip
  <1>4. CASE BackToProtectedMode /\ UNCHANGED place
    <2>1. CASE enterProtected
      BY <1>4, <2>1 DEF BackToProtectedMode, enterProtected, TripInv, OnTrip, vars
    <2>2. CASE pm32Entry
      <3>1. \A r \in Saved : Restored[r] = temp[r]
        BY DEF Restored, Environment
      <3> QED
        BY <1>4, <2>2, <3>1 DEF BackToProtectedMode, pm32Entry, TripInv, OnTrip, vars
    <2> QED
      BY <1>4, <2>1, <2>2 DEF BackToProtectedMode
  <1>5. CASE UNCHANGED biosVars
    BY <1>5 DEF biosVars, vars, rmVars, TripInv
  <1> QED
    BY <1>1, <1>2, <1>3, <1>4, <1>5 DEF BiosNext

\* diskRead16 finds its mode, segments, return address and stack pointers (its
\* other registers it does not) as it left them after every request
\* (realModeCall.S:15-86), for every read.
THEOREM AlwaysModeAndStackRestored == BiosSpec => []ModeAndStackRestored
  <1>1. BiosSpec => []TripInv
    BY TripStarts, TripSteps, PTL DEF BiosSpec
  <1>2. TripInv => ModeAndStackRestored
    BY DEF TripInv, ModeAndStackRestored
  <1> QED
    BY <1>1, <1>2, PTL

\* The far jump into real mode faults only over an odd byte at 0xFFFE
\* (realModeCall.S:41), wherever the caller's buffer lies.
THEOREM FaultsNeedOddByte == BiosSpec => []FaultNeedsOddByte
  <1>1. BiosSpec => []TripInv
    BY TripStarts, TripSteps, PTL DEF BiosSpec
  <1>2. TripInv => FaultNeedsOddByte
    BY DEF TripInv, FaultNeedsOddByte
  <1> QED
    BY <1>1, <1>2, PTL

-----------------------------------------------------------------------------
(***************************************************************************)
(* Why a read ends.  A turn of the loop takes eight steps, five of them in *)
(* the trip to real mode; TurnInv says which steps of the trip go with     *)
(* which of diskRead16, and TurnLeft counts those to come in this turn.    *)
(***************************************************************************)
TurnInv ==
    /\ i \in 0 .. iterations + 1
    /\ pc \in {"fill", "int13", "failed", "move", "returned", "panic"}
    /\ pc \in {"int13", "failed", "move"} => i <= iterations
    /\ pc \in {"fill", "returned", "panic"} => rm = "idle"
    /\ pc = "int13" => rm \in {"idle", "pm16Entry", "realEntry", "function", "fault"}
    /\ pc \in {"failed", "move"} => rm \in {"or $1", "pm32Entry", "idle"}

TurnLeft ==
    IF pc = "int13"
    THEN IF rm = "idle" THEN 7 ELSE IF rm = "pm16Entry" THEN 6
         ELSE IF rm = "realEntry" THEN 5 ELSE IF rm = "function" THEN 4 ELSE 0
    ELSE IF rm = "or $1" THEN 3 ELSE IF rm = "pm32Entry" THEN 2 ELSE 1

StepsLeft ==
    IF pc = "fill" THEN 8 * ((iterations + 1) - i) + 1
    ELSE IF pc \in {"returned", "panic"} THEN 0
    ELSE 8 * (iterations - i) + 1 + TurnLeft

Progress == StepsLeft \in Nat /\ StepsLeft' \in 0 .. StepsLeft - 1

LEMMA TurnStarts == BiosInit => TurnInv /\ StepsLeft = 8 * (iterations + 1) + 1
  <1> SUFFICES ASSUME BiosInit PROVE TurnInv /\ StepsLeft = 8 * (iterations + 1) + 1
    OBVIOUS
  <1>1. sectors \in Nat /\ i = 0 /\ pc = "fill" /\ rm = "idle"
    BY DiskReadAssumption DEF BiosInit, Init, RealModeInit
  <1>2. iterations \in Nat
    BY <1>1, RequestSizes
  <1> QED
    BY <1>1, <1>2 DEF TurnInv, StepsLeft

\* A step inside a turn, and the step to the next turn.
LEMMA TurnProgress ==
    ASSUME NEW n \in Nat, NEW c \in 1 .. 8, NEW d \in 0 .. c - 1,
           StepsLeft = 8 * n + 1 + c, StepsLeft' = 8 * n + 1 + d
    PROVE  Progress
  <1>1. 8 * n \in Nat
    OBVIOUS
  <1> DEFINE m == 8 * n
  <1> HIDE DEF m
  <1>2. m \in Nat /\ StepsLeft = m + 1 + c /\ StepsLeft' = m + 1 + d
    BY <1>1 DEF m
  <1> QED
    BY <1>2 DEF Progress

\* A step that ends the read.
LEMMA LastProgress ==
    ASSUME NEW n \in Nat, NEW c \in 0 .. 8, StepsLeft = 8 * n + 1 + c, StepsLeft' = 0
    PROVE  Progress
  <1>1. 8 * n \in Nat
    OBVIOUS
  <1> DEFINE m == 8 * n
  <1> HIDE DEF m
  <1>2. m \in Nat /\ StepsLeft = m + 1 + c
    BY <1>1 DEF m
  <1> QED
    BY <1>2 DEF Progress

\* A step keeps TurnInv and leaves fewer steps to take.
LEMMA TurnSteps ==
    ASSUME ReadInv, TurnInv, BiosNext
    PROVE  TurnInv' /\ Progress
  <1>0. iterations \in Nat /\ i \in 0 .. iterations + 1
    BY RequestSizes DEF ReadInv, TurnInv
  <1>1. iterations' = iterations
    BY DEF BiosNext, InProtectedMode, ToRealMode, asmCall_int13, Call, BackToProtectedMode,
           fillDAP, int13, int13Fails, earlyPanic, moveOut, return, vars, iterations
  <1> HIDE DEF iterations
  <1> DEFINE n == iterations - i
  <1>n. pc \in {"int13", "failed", "move"} => n \in Nat /\ i <= iterations
    <2>1. SUFFICES ASSUME i <= iterations PROVE n \in Nat
      BY DEF TurnInv
    <2> QED
      BY <1>0, <2>1
  <1>2. CASE InProtectedMode
    <2>1. rm = "idle" /\ rm' = "idle"
      BY <1>2 DEF InProtectedMode
    <2>2. CASE fillDAP
      <3>1. pc = "fill" /\ pc' = "int13" /\ i' = i /\ i <= iterations
        BY <2>2 DEF fillDAP, More
      <3>2. n \in Nat
        BY <1>0, <3>1
      <3>3. StepsLeft = 8 * n + 1 + 8
        <4>1. StepsLeft = 8 * ((iterations + 1) - i) + 1
          BY <3>1 DEF StepsLeft
        <4>2. (iterations + 1) - i = n + 1
          BY <1>0
        <4> HIDE DEF n
        <4> QED
          BY <3>2, <4>1, <4>2
      <3>4. StepsLeft' = 8 * n + 1 + 7
        BY <1>1, <2>1, <3>1 DEF StepsLeft, TurnLeft
      <3> HIDE DEF n
      <3>5. Progress
        BY <3>2, <3>3, <3>4, TurnProgress
      <3>6. TurnInv'
        BY <1>0, <1>1, <2>1, <3>1 DEF TurnInv
      <3> QED
        BY <3>5, <3>6
    <2>3. CASE earlyPanic
      <3>1. pc = "failed" /\ pc' = "panic" /\ i' = i
        BY <2>3 DEF earlyPanic
      <3>2. n \in Nat
        BY <1>n, <3>1, Zenon
      <3>3. StepsLeft = 8 * n + 1 + 1 /\ StepsLeft' = 0
        BY <2>1, <3>1 DEF StepsLeft, TurnLeft
      <3> HIDE DEF n
      <3>4. Progress
        BY <3>2, <3>3, LastProgress
      <3>5. TurnInv'
        BY <1>0, <1>1, <2>1, <3>1 DEF TurnInv
      <3> QED
        BY <3>4, <3>5
    <2>4. CASE moveOut
      <3>1. pc = "move" /\ pc' = "fill" /\ i' = i + 1
        BY <2>4 DEF moveOut
      <3>2. n \in Nat /\ i <= iterations
        BY <1>n, <3>1, Zenon
      <3>3. StepsLeft = 8 * n + 1 + 1
        BY <2>1, <3>1 DEF StepsLeft, TurnLeft
      <3>4. StepsLeft' = 8 * n + 1 + 0
        <4>1. StepsLeft' = 8 * ((iterations + 1) - (i + 1)) + 1
          BY <1>1, <3>1 DEF StepsLeft
        <4>2. (iterations + 1) - (i + 1) = n
          BY <1>0
        <4> HIDE DEF n
        <4> QED
          BY <3>2, <4>1, <4>2
      <3> HIDE DEF n
      <3>5. Progress
        BY <3>2, <3>3, <3>4, TurnProgress
      <3>6. TurnInv'
        BY <1>0, <1>1, <2>1, <3>1, <3>2 DEF TurnInv
      <3> QED
        BY <3>5, <3>6
    <2>5. CASE return
      <3>1. pc = "fill" /\ pc' = "returned" /\ i' = i
        BY <2>5 DEF return
      <3> DEFINE k == (iterations + 1) - i
      <3>2. k \in Nat
        BY <1>0
      <3>3. StepsLeft = 8 * k + 1 + 0 /\ StepsLeft' = 0
        BY <3>1, <3>2 DEF StepsLeft
      <3> HIDE DEF k
      <3>4. Progress
        BY <3>2, <3>3, LastProgress
      <3>5. TurnInv'
        BY <1>0, <1>1, <2>1, <3>1 DEF TurnInv
      <3> QED
        BY <3>4, <3>5
    <2> QED
      BY <1>2, <2>2, <2>3, <2>4, <2>5, Zenon DEF InProtectedMode
  <1>3. CASE ToRealMode
    <2>1. /\ pc = "int13" /\ pc' = pc /\ i' = i
          /\ \/ rm = "idle" /\ rm' = "pm16Entry"
             \/ rm = "pm16Entry" /\ rm' \in {"fault", "realEntry"}
             \/ rm = "realEntry" /\ rm' = "function"
      BY <1>3 DEF ToRealMode, vars, realModeCall, pm16Entry, realEntry
    <2>2. n \in Nat
      BY <1>n, <2>1, Zenon
    <2>3. /\ TurnLeft \in 1 .. 8 /\ TurnLeft' \in 0 .. TurnLeft - 1
      BY <2>1 DEF TurnLeft
    <2>4. StepsLeft = 8 * n + 1 + TurnLeft /\ StepsLeft' = 8 * n + 1 + TurnLeft'
      BY <1>1, <2>1 DEF StepsLeft
    <2> HIDE DEF n
    <2>5. Progress
      BY <2>2, <2>3, <2>4, TurnProgress
    <2>6. TurnInv'
      BY <1>0, <1>1, <2>1 DEF TurnInv
    <2> QED
      BY <2>5, <2>6
  <1>4. CASE asmCall_int13
    <2>1. pc = "int13" /\ pc' \in {"failed", "move"} /\ i' = i /\ rm = "function" /\ rm' = "or $1"
      BY <1>4 DEF asmCall_int13, Call, int13, int13Fails, functionReturns
    <2>2. n \in Nat
      BY <1>n, <2>1, Zenon
    <2>3. StepsLeft = 8 * n + 1 + 4 /\ StepsLeft' = 8 * n + 1 + 3
      BY <1>1, <2>1 DEF StepsLeft, TurnLeft
    <2> HIDE DEF n
    <2>4. Progress
      BY <2>2, <2>3, TurnProgress
    <2>5. TurnInv'
      BY <1>0, <1>1, <2>1 DEF TurnInv
    <2> QED
      BY <2>4, <2>5
  <1>5. CASE BackToProtectedMode
    <2>1. /\ pc' = pc /\ i' = i
          /\ \/ rm = "or $1" /\ rm' = "pm32Entry"
             \/ rm = "pm32Entry" /\ rm' = "idle"
      BY <1>5 DEF BackToProtectedMode, enterProtected, pm32Entry, vars
    <2>2. pc \in {"failed", "move"}
      BY <2>1 DEF TurnInv
    <2>3. n \in Nat
      BY <1>n, <2>2, Zenon
    <2>4. /\ TurnLeft \in 1 .. 8 /\ TurnLeft' \in 0 .. TurnLeft - 1
      <3>1. pc # "int13" /\ pc' # "int13"
        BY <2>1, <2>2
      <3>2. CASE rm = "or $1" /\ rm' = "pm32Entry"
        <4>1. TurnLeft = 3 /\ TurnLeft' = 2
          BY <3>1, <3>2 DEF TurnLeft
        <4> QED
          BY <4>1
      <3>3. CASE rm = "pm32Entry" /\ rm' = "idle"
        <4>1. TurnLeft = 2 /\ TurnLeft' = 1
          BY <3>1, <3>3 DEF TurnLeft
        <4> QED
          BY <4>1
      <3> QED
        BY <2>1, <3>2, <3>3, Zenon
    <2>5. StepsLeft = 8 * n + 1 + TurnLeft /\ StepsLeft' = 8 * n + 1 + TurnLeft'
      BY <1>1, <2>1, <2>2 DEF StepsLeft
    <2> HIDE DEF n
    <2>6. Progress
      BY <2>3, <2>4, <2>5, TurnProgress
    <2>7. TurnInv'
      BY <1>0, <1>1, <2>1, <2>2 DEF TurnInv
    <2> QED
      BY <2>6, <2>7
  <1> QED
    BY <1>2, <1>3, <1>4, <1>5 DEF BiosNext

\* A read of any length takes at most eight steps for each request and one more:
\* neither the loop of diskRead16 nor the trips to real mode go on for ever, and
\* a request that failed is not made again (diskRead16.cpp:38-66).
THEOREM ReadStepsBounded ==
    /\ BiosSpec => (StepsLeft = 8 * (iterations + 1) + 1)
    /\ BiosSpec => [][Progress]_biosVars
  <1>1. BiosSpec => []ReadInv
    BY ReadStarts, ReadSteps, PTL DEF BiosSpec
  <1>2. ReadInv /\ TurnInv /\ [BiosNext]_biosVars => TurnInv' /\ [Progress]_biosVars
    <2>1. TurnInv /\ UNCHANGED biosVars => TurnInv'
      BY DEF TurnInv, biosVars, vars, rmVars, iterations
    <2> QED
      BY <2>1, TurnSteps
  <1> QED
    BY <1>1, <1>2, TurnStarts, PTL DEF BiosSpec
=============================================================================
