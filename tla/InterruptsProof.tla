-------------------------- MODULE InterruptsProof --------------------------
(* Theorems about Interrupts, for every frame length, raster, nesting      *)
(* limit, debt cap, program and bound.                                     *)
EXTENDS Interrupts, SequenceTheorems, TLAPS

(* Arithmetic the prover does not find by itself.                          *)
LEMMA ProductNat == ASSUME NEW a \in Nat, NEW b \in Nat PROVE a * b \in Nat
  OBVIOUS

LEMMA PerLineNat == F \div TotalLines \in Nat
  BY RasterAssumption

(* What rearmLine schedules is a cycle of the clock.                       *)
LEMMA RearmLineType ==
  ASSUME NEW origin \in Nat, NEW now \in Nat, NEW enabled \in BOOLEAN,
         NEW line \in Compares, NEW shown \in Displays, NEW was \in Nat
  PROVE  RearmLine(origin, now, enabled, line, shown, was) \in Nat
<1> DEFINE k == line + TotalLines - shown
<1>1. k \in Nat
  BY RasterAssumption
<1>2. k * (F \div TotalLines) \in Nat
  BY <1>1, PerLineNat, ProductNat
<1> QED  BY <1>2 DEF RearmLine

LEMMA FrameDueType == ASSUME TypeOK PROVE FrameDue \in Nat
<1>1. F \in Nat /\ MaxDebt \in Nat
  BY RasterAssumption, LimitAssumption
<1>2. MaxDebt * F \in Nat
  BY <1>1, ProductNat
<1> QED  BY <1>1, <1>2 DEF FrameDue, TypeOK

LEMMA OpsType == "nop" \in AllOps /\ Ops \subseteq AllOps /\ Costs \subseteq Nat
  BY ProgramAssumption DEF AllOps

(* A deliver leaves the call stack a sequence of frames.                   *)
LEMMA DeliverType ==
  ASSUME TypeOK, NEW cont \in {"frame", "irq", "op"},
         NEW o \in AllOps \cup {"wait"}, NEW flag \in BOOLEAN,
         Deliver(cont, o, flag)
  PROVE  /\ stack' \in Seq(Frames) /\ nest' \in Int /\ iff' \in BOOLEAN
         /\ cycLimit' \in Nat /\ f' \in BOOLEAN /\ sp' \in Int
         /\ atSentinel' \in BOOLEAN /\ epilogue' \in BOOLEAN
         /\ idle' \in BOOLEAN /\ halted' \in BOOLEAN
         /\ ctl' \in {"host", "step", "irq", "op", "done", "panic"}
         /\ op' \in AllOps \cup {"wait"}
<1>1. [at |-> cont, op |-> o, limit |-> cycLimit, idle |-> idle,
       pc |-> atSentinel, tail |-> epilogue, left |-> hooks - 1] \in Frames
  BY DEF TypeOK, Frames
<1>2. stack' \in Seq(Frames)
  BY <1>1 DEF Deliver, TypeOK
<1>3. nest' \in Int /\ sp' \in Int /\ cycLimit' \in Nat
  BY DEF Deliver, TypeOK
<1>4. iff' \in BOOLEAN /\ f' \in BOOLEAN /\ atSentinel' \in BOOLEAN
      /\ epilogue' \in BOOLEAN /\ idle' \in BOOLEAN /\ halted' \in BOOLEAN
  BY DEF Deliver, TypeOK
<1>5. ctl' = "step" /\ op' \in AllOps
  BY OpsType DEF Deliver
<1> QED  BY <1>2, <1>3, <1>4, <1>5

-----------------------------------------------------------------------------
(* Every variable of the machine stays in its range, whatever the program. *)
(* One lemma per action; TypeCorrect puts them together.                   *)
USE DEF shape, clock, count, thread, calls

LEMMA FrameSkippedType == TypeOK /\ FrameSkipped => TypeOK'
  BY FrameDueType DEF TypeOK, FrameSkipped

LEMMA FrameStartsType == ASSUME TypeOK, FrameStarts PROVE TypeOK'
<1> DEFINE flag == f \/ BlankOwed
<1>1. F \in Nat /\ flag \in BOOLEAN
  BY RasterAssumption, OpsType DEF TypeOK, BlankOwed
<1>2. fhDue' \in Nat
  BY RearmLineType DEF FrameStarts, TypeOK
<1>3. /\ cyc' \in Nat /\ frames' \in Nat /\ frameOrigin' \in Nat
      /\ frameDue' \in Nat /\ fDue' \in Nat /\ lastIRQ' \in Nat
      /\ irqTaken' \in Nat /\ frameStart' \in Nat /\ vframe' \in Nat
      /\ skipped' \in Nat /\ clocked' \in Seq(Nat)
  BY <1>1, FrameDueType DEF FrameStarts, TypeOK
<1>4. fhHeld' \in BOOLEAN /\ fh' \in BOOLEAN /\ owed' \in BOOLEAN
      /\ ie1' \in BOOLEAN /\ cmp' \in Compares /\ lines' \in Displays
      /\ hooks' \in 0..2 /\ ramMapper' \in BOOLEAN
  BY DEF FrameStarts, TypeOK
<1>5. CASE hooks > 0 /\ CanTake
  <2>1. /\ Deliver("frame", "nop", flag)
        /\ taken' = (IF fHeld THEN 0 ELSE 1) /\ runs' = runs + 1
        /\ late' = (late /\ f') /\ fHeld' = fHeld
    BY <1>5 DEF FrameStarts
  <2>2. taken' \in Nat /\ runs' \in Nat /\ fHeld' \in BOOLEAN
        /\ late' \in BOOLEAN
    BY <2>1 DEF TypeOK
  <2> QED  BY <2>1, <2>2, <1>1, <1>2, <1>3, <1>4, DeliverType, OpsType
           DEF TypeOK
<1>6. CASE ~(hooks > 0 /\ CanTake)
  BY <1>6, <1>1, <1>2, <1>3, <1>4, Zenon DEF TypeOK, FrameStarts
<1> QED  BY <1>5, <1>6

LEMMA TickType ==
  ASSUME TypeOK, NEW n \in Nat, NEW o \in AllOps \cup {"wait"}, Tick(n, o)
  PROVE  TypeOK'
<1> DEFINE now    == cyc + n
           blank  == fDue # 0 /\ now >= fDue
           taking == LineLive(now) /\ CanTake /\ hooks > 0
<1>1. now \in Nat /\ F \in Nat
  BY OpsType, RasterAssumption DEF TypeOK
<1>2. /\ cyc' \in Nat /\ frames' \in Nat /\ frameOrigin' \in Nat
      /\ frameDue' \in Nat /\ fDue' \in Nat /\ lastIRQ' \in Nat
      /\ irqTaken' \in Nat /\ frameStart' \in Nat /\ vframe' \in Nat
      /\ skipped' \in Nat /\ taken' \in Nat /\ runs' \in Nat
      /\ fhDue' \in Nat /\ clocked' \in Seq(Nat)
  BY <1>1 DEF Tick, TypeOK
<1>3. fh' \in BOOLEAN /\ owed' \in BOOLEAN /\ late' \in BOOLEAN
      /\ fHeld' \in BOOLEAN /\ ie1' \in BOOLEAN /\ cmp' \in Compares
      /\ lines' \in Displays /\ hooks' \in 0..2 /\ ramMapper' \in BOOLEAN
  BY DEF Tick, TypeOK
<1>4. CASE taking
  <2>1. Deliver("irq", o, f \/ blank) /\ fhHeld' = FALSE
    BY <1>4 DEF Tick
  <2>2. f \/ blank \in BOOLEAN
    BY DEF TypeOK
  <2> QED  BY <2>1, <2>2, <1>2, <1>3, DeliverType DEF TypeOK
<1>5. CASE ~taking
  <2>1. /\ fhHeld' = LineLive(now) /\ f' = (f \/ blank) /\ ctl' = "irq"
        /\ op' = o /\ UNCHANGED <<thread, calls>>
    BY <1>5 DEF Tick
  <2>2. fhHeld' \in BOOLEAN /\ f' \in BOOLEAN
    BY <2>1 DEF LineLive, TypeOK
  <2>3. /\ stack' \in Seq(Frames) /\ nest' \in Int /\ iff' \in BOOLEAN
        /\ cycLimit' \in Nat /\ sp' \in Int /\ atSentinel' \in BOOLEAN
        /\ epilogue' \in BOOLEAN /\ idle' \in BOOLEAN /\ halted' \in BOOLEAN
        /\ ctl' = "irq" /\ op' \in AllOps \cup {"wait"}
    BY <2>1 DEF TypeOK
  <2> QED  BY <2>2, <2>3, <1>2, <1>3 DEF TypeOK
<1> QED  BY <1>4, <1>5

LEMMA FrameEndsType == TypeOK /\ FrameEnds => TypeOK'
  BY DEF TypeOK, FrameEnds

LEMMA HandlerType == TypeOK /\ (HandlerFrame \/ HandlerEnds) => TypeOK'
<1> SUFFICES ASSUME TypeOK, HandlerFrame \/ HandlerEnds PROVE TypeOK'
  OBVIOUS
<1>1. CASE HandlerFrame
  <2>0. RearmLine(frameOrigin, cyc, ie1, cmp, lines, fhDue) \in Nat
    BY RearmLineType DEF TypeOK
  <2>1. fhDue' \in Nat
    BY <1>1, <2>0 DEF HandlerFrame, TypeOK
  <2>2. irqTaken' \in Nat
    BY <1>1 DEF HandlerFrame, TakenAhead, TypeOK
  <2>3. CASE TakenAhead
    BY <1>1, <2>1, <2>2, <2>3 DEF HandlerFrame, TypeOK
  <2>4. CASE ~TakenAhead
    <3>1. /\ lastIRQ' = cyc /\ frameStart' = cyc /\ sp' = 0
          /\ atSentinel' = FALSE /\ epilogue' = FALSE /\ idle' = FALSE
          /\ halted' = FALSE /\ ctl' = "step" /\ runs' = runs + 1
          /\ taken' = 1 /\ irqTaken' = irqTaken /\ clocked' = clocked
      BY <1>1, <2>4 DEF HandlerFrame
    <3>2. /\ frames' = frames + 1 /\ vframe' = vframe + 1 /\ f' = TRUE
          /\ UNCHANGED <<cyc, frameOrigin, frameDue, skipped, fDue, fHeld,
                         fhHeld, fh, shape, calls, op, owed, late>>
      BY <1>1 DEF HandlerFrame
    <3>3. /\ cyc' \in Nat /\ frames' \in Nat /\ frameOrigin' \in Nat
          /\ frameDue' \in Nat /\ fDue' \in Nat /\ lastIRQ' \in Nat
          /\ irqTaken' \in Nat /\ frameStart' \in Nat /\ cycLimit' \in Nat
          /\ vframe' \in Nat /\ skipped' \in Nat /\ taken' \in Nat
          /\ runs' \in Nat /\ clocked' \in Seq(Nat)
      BY <3>1, <3>2 DEF TypeOK
    <3>4. /\ stack' = stack /\ nest' = nest /\ iff' = iff /\ op' = op
          /\ fHeld' = fHeld /\ fhHeld' = fhHeld /\ fh' = fh
          /\ owed' = owed /\ late' = late
          /\ hooks' = hooks /\ ie1' = ie1 /\ cmp' = cmp /\ lines' = lines
          /\ ramMapper' = ramMapper
      BY <3>2
    <3> HIDE DEF shape, clock, count, thread, calls
    <3>5. /\ fHeld' \in BOOLEAN /\ fhHeld' \in BOOLEAN
          /\ owed' \in BOOLEAN /\ late' \in BOOLEAN
          /\ iff' \in BOOLEAN /\ halted' \in BOOLEAN /\ idle' \in BOOLEAN
          /\ f' \in BOOLEAN /\ fh' \in BOOLEAN /\ ie1' \in BOOLEAN
          /\ atSentinel' \in BOOLEAN /\ epilogue' \in BOOLEAN
          /\ ramMapper' \in BOOLEAN
      BY <3>1, <3>2, <3>4 DEF TypeOK
    <3>6. /\ cmp' \in Compares /\ lines' \in Displays /\ hooks' \in 0..2
          /\ nest' \in Int /\ sp' \in Int /\ stack' \in Seq(Frames)
          /\ ctl' = "step" /\ op' \in AllOps \cup {"wait"}
      BY <3>1, <3>4 DEF TypeOK
    <3> QED  BY <2>1, <3>3, <3>5, <3>6 DEF TypeOK
  <2> QED  BY <2>3, <2>4
<1>2. CASE HandlerEnds
  BY <1>2 DEF HandlerEnds, TypeOK
<1> QED  BY <1>1, <1>2

LEMMA DueIRQType ==
  ASSUME TypeOK, RunsAway \/ NothingDue \/ BIOSTakes PROVE TypeOK'
<1>1. CASE RunsAway
  BY <1>1 DEF RunsAway, TypeOK
<1>2. CASE NothingDue
  <2>0. fHeld' = fHeld \/ fHeld' = FALSE
    BY <1>2, Zenon DEF NothingDue
  <2>1. fHeld' \in BOOLEAN
    BY <2>0 DEF TypeOK
  <2> QED  BY <1>2, <2>1 DEF NothingDue, TypeOK
<1>3. CASE BIOSTakes
  <2>1. lastIRQ' \in Nat
    BY <1>3, RasterAssumption DEF BIOSTakes, TypeOK
  <2>2. f' \in BOOLEAN /\ late' \in BOOLEAN /\ fHeld' \in BOOLEAN
    BY <1>3 DEF BIOSTakes, TypeOK
  <2>3. /\ ctl' = "op"
        /\ UNCHANGED <<cyc, clock, fDue, irqTaken, frameStart, fhDue, fhHeld,
                       fh, shape, thread, calls, op, count, owed>>
    BY <1>3 DEF BIOSTakes
  <2> QED  BY <2>1, <2>2, <2>3 DEF TypeOK
<1> QED  BY <1>1, <1>2, <1>3

LEMMA LateVblankType == ASSUME TypeOK, LateVblank PROVE TypeOK'
<1>1. Deliver("op", op, f)
  BY DEF LateVblank
<1>2. op \in AllOps \cup {"wait"} /\ f \in BOOLEAN
  BY DEF TypeOK
<1>3. taken' \in Nat /\ runs' \in Nat
  BY DEF LateVblank, TypeOK
<1> QED  BY <1>1, <1>2, <1>3, DeliverType DEF LateVblank, TypeOK

LEMMA ClockInterruptType == ASSUME TypeOK, ClockInterrupt PROVE TypeOK'
<1>1. Deliver("op", op, f)
  BY DEF ClockInterrupt
<1>2. op \in AllOps \cup {"wait"} /\ f \in BOOLEAN
  BY DEF TypeOK
<1>3. taken' \in Nat /\ runs' \in Nat /\ irqTaken' \in Nat
  BY DEF ClockInterrupt, TypeOK
<1>4. fhDue' \in Nat
  BY RearmLineType DEF ClockInterrupt, TypeOK
<1>5. lastIRQ' \in Nat
  BY RasterAssumption DEF ClockInterrupt, NextIRQ, TypeOK
<1>6. late' \in BOOLEAN /\ fHeld' \in BOOLEAN
  BY DEF ClockInterrupt, TypeOK
<1>7. clocked' \in Seq(Nat)
  BY DEF ClockInterrupt, TypeOK
<1> QED  BY <1>1, <1>2, <1>3, <1>4, <1>5, <1>6, <1>7, DeliverType
         DEF ClockInterrupt, TypeOK

LEMMA ExecutesType == ASSUME TypeOK, Executes PROVE TypeOK'
<1>1. late' \in BOOLEAN /\ ctl' = "step" /\ op' \in AllOps
  BY OpsType DEF Executes
<1>2. CASE Control /\ UNCHANGED <<f, fh, shape, fhDue, owed>>
  <2>a. iff' \in BOOLEAN
    BY <1>2 DEF Control, TypeOK
  <2>b. halted' \in BOOLEAN /\ idle' \in BOOLEAN
    BY <1>2 DEF Control, TypeOK
  <2>c. atSentinel' \in BOOLEAN
    BY <1>2 DEF Control, InHandler, TypeOK
  <2>d. epilogue' \in BOOLEAN
    BY <1>2 DEF Control, TypeOK
  <2>e. sp' \in Int
    BY <1>2 DEF Control, Floor, TypeOK
  <2>1. iff' \in BOOLEAN /\ halted' \in BOOLEAN /\ idle' \in BOOLEAN
        /\ atSentinel' \in BOOLEAN /\ epilogue' \in BOOLEAN /\ sp' \in Int
    BY <2>a, <2>b, <2>c, <2>d, <2>e
  <2>2. /\ UNCHANGED <<cyc, clock, fDue, lastIRQ, irqTaken, frameStart,
                       fHeld, fhHeld, stack, nest, cycLimit, count>>
        /\ UNCHANGED <<f, fh, shape, fhDue, owed>>
    BY <1>2 DEF Executes
  <2> QED  BY <1>1, <2>1, <2>2 DEF TypeOK
<1>3. CASE Device /\ UNCHANGED <<thread, iff>>
  <2>1. f' \in BOOLEAN /\ fh' \in BOOLEAN /\ owed' \in BOOLEAN
        /\ ie1' \in BOOLEAN /\ cmp' \in Compares /\ lines' \in Displays
        /\ hooks' \in 0..2 /\ ramMapper' \in BOOLEAN
    BY <1>3 DEF Device, TypeOK
  <2>2. fhDue' \in Nat
    <3>1. RearmLine(frameOrigin, cyc, ie1', cmp', lines, fhDue) \in Nat
      BY <2>1, RearmLineType DEF TypeOK
    <3> QED  BY <1>3, <3>1 DEF Device, TypeOK
  <2>3. /\ UNCHANGED <<cyc, clock, fDue, lastIRQ, irqTaken, frameStart,
                       fHeld, fhHeld, stack, nest, cycLimit, count>>
        /\ UNCHANGED <<thread, iff>>
    BY <1>3 DEF Executes
  <2> QED  BY <1>1, <2>1, <2>2, <2>3 DEF TypeOK
<1> QED  BY <1>2, <1>3 DEF Executes

LEMMA TopType == ASSUME TypeOK, stack # << >> PROVE Top \in Frames
  BY DEF TypeOK, Top

LEMMA PopLen ==
  ASSUME TypeOK, stack # << >>
  PROVE  /\ Len(stack) \in Nat \ {0} /\ Len(Pop) = Len(stack) - 1
         /\ \A i \in 1..Len(Pop) : Pop[i] = stack[i]
<1>1. stack \in Seq(Frames)
  BY DEF TypeOK
<1>2. Len(stack) \in Nat \ {0}
  BY <1>1
<1> DEFINE n == Len(stack) - 1
<1>3. n \in Nat /\ \A i \in 1..n : stack[i] \in Frames
  BY <1>1, <1>2
<1>4. /\ Len(SubSeq(stack, 1, n)) = n
      /\ \A i \in 1..n : SubSeq(stack, 1, n)[i] = stack[i]
  <2>1. n - 1 + 1 = n /\ \A i \in 1..n : 1 + i - 1 = i
    BY <1>3
  <2> HIDE DEF n
  <2> QED  BY <1>3, <2>1, SubSeqProperties
<1> QED  BY <1>2, <1>4 DEF Pop

LEMMA ReturnsType == ASSUME TypeOK, NextHook \/ Returns \/ Hijacked PROVE TypeOK'
<1> USE OpsType
<1>1. stack # << >> /\ Top \in Frames
  BY TopType DEF NextHook, Returns, Hijacked, HookStopped
<1>2. LimitAfter \in Nat
  BY <1>1, RasterAssumption DEF LimitAfter, Frames, TypeOK
<1>3. Pop \in Seq(Frames)
  BY <1>1 DEF Pop, TypeOK
<1>4. CASE NextHook
  <2> DEFINE top == [Top EXCEPT !.left = @ - 1]
  <2>1. top \in Frames
    BY <1>1 DEF Frames
  <2>2. stack' \in Seq(Frames)
    <3>1. stack' = [stack EXCEPT ![Len(stack)] = top]
      BY <1>4 DEF NextHook, Top
    <3>2. stack \in Seq(Frames) /\ Len(stack) \in 1..Len(stack)
      BY <1>1 DEF TypeOK
    <3> HIDE DEF top
    <3> QED  BY <2>1, <3>1, <3>2
  <2>3. /\ idle' \in BOOLEAN /\ halted' \in BOOLEAN /\ atSentinel' \in BOOLEAN
        /\ ctl' \in {"host", "step", "irq", "op", "done", "panic"}
    BY <1>4 DEF NextHook
  <2>4. UNCHANGED <<cyc, clock, fDue, lastIRQ, irqTaken, frameStart, fHeld,
                    fhDue, fhHeld, f, fh, shape, sp, epilogue, nest, cycLimit,
                    iff, op, count, owed, late>>
    BY <1>4 DEF NextHook
  <2> HIDE DEF top
  <2> QED  BY <2>2, <2>3, <2>4 DEF TypeOK
<1>5. CASE Returns
  <2>1. /\ idle' \in BOOLEAN /\ atSentinel' \in BOOLEAN
        /\ epilogue' \in BOOLEAN /\ op' \in AllOps \cup {"wait"}
        /\ ctl' \in {"host", "step", "irq", "op", "done", "panic"}
    BY <1>5, <1>1 DEF Returns, Frames, TypeOK
  <2>2. /\ stack' \in Seq(Frames) /\ nest' \in Int /\ iff' = TRUE
        /\ cycLimit' \in Nat /\ halted' = FALSE /\ sp' \in Int
    BY <1>5, <1>2, <1>3 DEF Returns, TypeOK
  <2>3. UNCHANGED <<cyc, clock, fDue, lastIRQ, irqTaken, frameStart, fHeld,
                    fhDue, fhHeld, f, fh, shape, count, owed, late>>
    BY <1>5 DEF Returns
  <2> QED  BY <2>1, <2>2, <2>3 DEF TypeOK
<1>6. CASE Hijacked
  <2>1. /\ idle' \in BOOLEAN /\ halted' \in BOOLEAN /\ op' \in AllOps
        /\ ctl' \in {"host", "step", "irq", "op", "done", "panic"}
    BY <1>6 DEF Hijacked, Unwound, TypeOK
  <2>2. stack' \in Seq(Frames) /\ nest' \in Int /\ cycLimit' \in Nat
    BY <1>6, <1>2, <1>3 DEF Hijacked, TypeOK
  <2>3. UNCHANGED <<cyc, clock, fDue, lastIRQ, irqTaken, frameStart, fHeld,
                    fhDue, fhHeld, f, fh, shape, sp, atSentinel, epilogue,
                    iff, count, owed, late>>
    BY <1>6 DEF Hijacked
  <2> QED  BY <2>1, <2>2, <2>3 DEF TypeOK
<1> QED  BY <1>4, <1>5, <1>6

LEMMA InitType == Init => TypeOK
<1> SUFFICES ASSUME Init PROVE TypeOK
  OBVIOUS
<1>1. /\ stack \in Seq(Frames) /\ clocked \in Seq(Nat)
      /\ nest \in Int /\ sp \in Int
  BY DEF Init
<1>2. cyc \in Nat
  BY RasterAssumption DEF Init
<1>3. idle \in BOOLEAN
  BY ShapeAssumption, Zenon DEF Init
<1>4. iff \in BOOLEAN /\ ie1 \in BOOLEAN /\ hooks \in 0..2
      /\ ramMapper \in BOOLEAN
  <2> USE ShapeAssumption
  <2>1. CASE MainThread
    BY <2>1 DEF Init
  <2>2. CASE ~MainThread
    BY <2>2 DEF Init
  <2> QED  BY <2>1, <2>2
<1> QED  BY <1>1, <1>2, <1>3, <1>4 DEF Init, TypeOK, AllOps

LEMMA TypeStep == TypeOK /\ [Next]_vars => TypeOK'
<1> SUFFICES ASSUME TypeOK, [Next]_vars PROVE TypeOK'
  OBVIOUS
<1>1. CASE FrameSkipped \/ FrameStarts \/ FrameEnds
  BY <1>1, FrameSkippedType, FrameStartsType, FrameEndsType
<1>2. CASE HandlerFrame \/ HandlerEnds
  BY <1>2, HandlerType
<1>3. CASE Fetch
  BY <1>3, TickType, OpsType DEF Fetch
<1>4. CASE HaltTick
  <2>1. Tick(1, "wait")
    BY <1>4 DEF HaltTick
  <2> QED  BY <2>1, TickType
<1>5. CASE RunsAway \/ NothingDue \/ BIOSTakes
  BY <1>5, DueIRQType
<1>6. CASE LateVblank \/ ClockInterrupt
  BY <1>6, LateVblankType, ClockInterruptType
<1>7. CASE Executes
  BY <1>7, ExecutesType
<1>8. CASE NextHook \/ Returns \/ Hijacked
  BY <1>8, ReturnsType
<1>9. CASE Ended \/ UNCHANGED vars
  <2>1. UNCHANGED vars
    BY <1>9 DEF Ended
  <2> QED  BY <2>1 DEF vars, TypeOK
<1> QED  BY <1>1, <1>2, <1>3, <1>4, <1>5, <1>6, <1>7, <1>8, <1>9 DEF Next

(* Type correctness of the machine: for every program, frame length,       *)
(* raster and limit, whatever interrupts nest in whatever way.             *)
THEOREM TypeCorrect == Spec => []TypeOK
  BY InitType, TypeStep, PTL DEF Spec

-----------------------------------------------------------------------------
(* The nesting.  deliver is only called with room for one more, and every  *)
(* way out of it gives the level back.                                     *)
LEMMA DeliverNests ==
  ASSUME TypeOK, NestCounts, CanTake, NEW cont, NEW o, NEW flag,
         Deliver(cont, o, flag)
  PROVE  NestCounts'
  BY LimitAssumption DEF Deliver, NestCounts, CanTake, TypeOK

LEMMA NestStep == TypeOK /\ NestCounts /\ [Next]_vars => NestCounts'
<1> SUFFICES ASSUME TypeOK, NestCounts, [Next]_vars PROVE NestCounts'
  OBVIOUS
<1>1. CASE UNCHANGED <<stack, nest>>
  BY <1>1 DEF NestCounts
<1>2. CASE FrameStarts
  <2>1. CASE hooks > 0 /\ CanTake
    BY <1>2, <2>1, DeliverNests DEF FrameStarts
  <2>2. CASE ~(hooks > 0 /\ CanTake)
    BY <1>1, <1>2, <2>2 DEF FrameStarts
  <2> QED  BY <2>1, <2>2
<1>3. ASSUME NEW n, NEW o, Tick(n, o) PROVE NestCounts'
  <2>1. CASE LineLive(cyc + n) /\ CanTake /\ hooks > 0
    BY <1>3, <2>1, DeliverNests DEF Tick
  <2>2. CASE ~(LineLive(cyc + n) /\ CanTake /\ hooks > 0)
    BY <1>1, <1>3, <2>2 DEF Tick
  <2> QED  BY <2>1, <2>2
<1>4. CASE LateVblank \/ ClockInterrupt
  BY <1>4, DeliverNests DEF LateVblank, ClockInterrupt
<1>5. CASE NextHook
  <2>1. Len(stack') = Len(stack) /\ nest' = nest
    BY <1>5 DEF NextHook, TypeOK
  <2> QED  BY <2>1 DEF NestCounts
<1>6. CASE Returns \/ Hijacked
  <2>1. stack # << >> /\ stack' = Pop /\ nest' = nest - 1
    BY <1>6 DEF Returns, Hijacked, HookStopped
  <2>2. Len(Pop) = Len(stack) - 1
    BY <2>1, PopLen
  <2> QED  BY <2>1, <2>2, LimitAssumption DEF NestCounts, TypeOK
<1>7. CASE FrameSkipped \/ FrameEnds \/ HandlerFrame \/ HandlerEnds \/ RunsAway
           \/ NothingDue \/ BIOSTakes \/ Executes \/ Ended \/ UNCHANGED vars
  BY <1>1, <1>7 DEF FrameSkipped, FrameEnds, HandlerFrame, HandlerEnds,
     RunsAway, NothingDue, BIOSTakes, Executes, Ended, vars
<1> QED  BY <1>2, <1>3, <1>4, <1>5, <1>6, <1>7 DEF Next, Fetch, HaltTick

(* Interrupts never stack deeper than maxNest, and the count the guard     *)
(* reads is the real depth, however the handlers leave.                    *)
THEOREM NestingBounded == Spec => []NestCounts
<1>1. Init => NestCounts
  BY LimitAssumption DEF Init, NestCounts
<1> QED  BY <1>1, TypeCorrect, NestStep, PTL DEF Spec

-----------------------------------------------------------------------------
(* The rate of the vertical blank.  fDue, the next boundary a blank is     *)
(* owed at, is what holds the two places that raise it together: it is     *)
(* never behind the blanks raised nor more than a frame ahead of the clock.*)
VblankInv ==
  MainThread => vframe * F <= fDue /\ fDue <= cyc + F

LEMMA OneMore ==
  ASSUME NEW a \in Nat, NEW b \in Nat PROVE (a + 1) * b = a * b + b
  OBVIOUS

LEMMA VblankStep == TypeOK /\ VblankInv /\ [Next]_vars => VblankInv'
<1> SUFFICES ASSUME TypeOK, VblankInv, [Next]_vars PROVE VblankInv'
  OBVIOUS
<1>0. /\ F \in Nat /\ vframe \in Nat /\ fDue \in Nat /\ cyc \in Nat
      /\ vframe * F \in Nat /\ (vframe + 1) * F = vframe * F + F
  BY RasterAssumption, OneMore, ProductNat DEF TypeOK
<1>1. CASE UNCHANGED <<cyc, fDue, vframe>>
  BY <1>1 DEF VblankInv
<1>2. CASE FrameStarts
  <2>1. cyc' = cyc /\ fDue' = (IF BlankOwed THEN cyc + F ELSE fDue)
        /\ vframe' = (IF BlankOwed THEN vframe + 1 ELSE vframe)
    BY <1>2 DEF FrameStarts
  <2>2. CASE BlankOwed
    BY <1>0, <2>1, <2>2 DEF BlankOwed, VblankInv
  <2>3. CASE ~BlankOwed
    BY <1>0, <2>1, <2>3 DEF VblankInv
  <2> QED  BY <2>2, <2>3
<1>3. ASSUME NEW n \in Nat, NEW o, Tick(n, o) PROVE VblankInv'
  <2> DEFINE blank == fDue # 0 /\ cyc + n >= fDue
  <2>1. cyc' = cyc + n /\ fDue' = (IF blank THEN fDue + F ELSE fDue)
        /\ vframe' = (IF blank THEN vframe + 1 ELSE vframe)
    BY <1>3 DEF Tick
  <2>2. CASE blank
    BY <1>0, <2>1, <2>2 DEF VblankInv
  <2>3. CASE ~blank
    BY <1>0, <2>1, <2>3 DEF VblankInv
  <2> QED  BY <2>2, <2>3
<1>4. CASE HandlerFrame
  BY <1>4 DEF HandlerFrame, VblankInv
<1>5. CASE FrameSkipped \/ FrameEnds \/ HandlerEnds \/ RunsAway \/ NothingDue
           \/ BIOSTakes \/ LateVblank \/ ClockInterrupt \/ Executes
           \/ NextHook \/ Returns \/ Hijacked \/ Ended \/ UNCHANGED vars
  BY <1>1, <1>5 DEF FrameSkipped, FrameEnds, HandlerEnds, RunsAway,
     NothingDue, BIOSTakes, LateVblank, ClockInterrupt, Executes, NextHook,
     Returns, Hijacked, Ended, vars
<1> QED  BY <1>2, <1>3, <1>4, <1>5, OpsType DEF Next, Fetch, HaltTick

(* The vertical-blank flag rises no faster than the clock, although the    *)
(* top of the frame and the tick both raise it.                            *)
THEOREM VblankNoFasterThanTheClock == Spec => []VblankRate
<1>1. Init => VblankInv
  BY RasterAssumption DEF Init, VblankInv
<1>2. TypeOK /\ VblankInv => VblankRate
  BY RasterAssumption, ProductNat DEF TypeOK, VblankInv, VblankRate
<1> QED  BY <1>1, <1>2, TypeCorrect, VblankStep, PTL DEF Spec

-----------------------------------------------------------------------------
(* The debt.  While frames are being skipped the clock stands still, and   *)
(* each skip brings the end of the frame one frame nearer to it.           *)
DebtInv ==
  skipped > 0 =>
    /\ MainThread /\ ctl = "host" /\ frameDue > 0
    /\ frameDue <= cyc
    /\ cyc + skipped * F <= frameDue + (MaxDebt + 1) * F

LEMMA Cancel ==
  ASSUME NEW a \in Nat, NEW b \in Nat, NEW c \in Nat \ {0}, a * c <= b * c
  PROVE  a <= b
<1> SUFFICES ASSUME a > b PROVE FALSE
  OBVIOUS
<1>1. PICK d \in Nat : a = b + 1 + d
  <2>1. a - b - 1 \in Nat /\ a = b + 1 + (a - b - 1)
    OBVIOUS
  <2> QED  BY <2>1
<1>2. a * c = b * c + c + d * c
  BY <1>1
<1>3. d * c \in Nat /\ b * c \in Nat
  BY <1>1, ProductNat
<1> QED  BY <1>2, <1>3

LEMMA DebtStep == TypeOK /\ DebtInv /\ [Next]_vars => DebtInv'
<1> SUFFICES ASSUME TypeOK, DebtInv, [Next]_vars PROVE DebtInv'
  OBVIOUS
<1>0. /\ F \in Nat \ {0} /\ MaxDebt \in Nat /\ cyc \in Nat
      /\ frameDue \in Nat /\ skipped \in Nat
      /\ MaxDebt * F \in Nat /\ skipped * F \in Nat
      /\ (skipped + 1) * F = skipped * F + F
      /\ (MaxDebt + 1) * F = MaxDebt * F + F
  BY RasterAssumption, LimitAssumption, OneMore, ProductNat DEF TypeOK
<1>1. CASE FrameSkipped
  <2> DEFINE due == (IF frameDue = 0 THEN cyc ELSE frameDue) + F
  <2>1. /\ MainThread /\ ctl' = "host" /\ cyc' = cyc
        /\ frameDue' = FrameDue /\ FrameDue <= cyc /\ skipped' = skipped + 1
    BY <1>0, <1>1, FrameDueType DEF FrameSkipped
  <2>2. FrameDue = IF cyc > due + MaxDebt * F THEN cyc - MaxDebt * F ELSE due
    BY DEF FrameDue
  <2>3. FrameDue > 0 /\ cyc <= FrameDue + MaxDebt * F
    BY <1>0, <2>2
  <2>4. cyc + (skipped + 1) * F <= FrameDue + (MaxDebt + 1) * F
    <3>1. CASE skipped = 0
      <4>1. (skipped + 1) * F = F
        BY <1>0, <3>1
      <4> QED  BY <1>0, <2>3, <4>1, FrameDueType
    <3>2. CASE skipped # 0
      <4>1. /\ cyc + skipped * F <= frameDue + (MaxDebt + 1) * F
            /\ frameDue > 0
        BY <1>0, <3>2 DEF DebtInv
      <4>2. due = frameDue + F
        BY <1>0, <4>1
      <4>3. cyc <= due + MaxDebt * F
        BY <1>0, <4>1, <4>2
      <4> QED  BY <1>0, <2>2, <4>1, <4>2, <4>3
    <3> QED  BY <3>1, <3>2
  <2> QED  BY <2>1, <2>3, <2>4 DEF DebtInv
<1>2. CASE FrameStarts
  BY <1>2 DEF FrameStarts, DebtInv
<1>3. CASE HandlerFrame
  BY <1>0, <1>3 DEF HandlerFrame, DebtInv
<1>4. CASE skipped' = skipped /\ ctl # "host"
  BY <1>4 DEF DebtInv
<1>5. ASSUME NEW n, NEW o, ctl # "host", Tick(n, o) PROVE DebtInv'
  BY <1>4, <1>5 DEF Tick
<1>6. CASE FrameEnds \/ HandlerEnds \/ RunsAway \/ NothingDue \/ BIOSTakes
           \/ LateVblank \/ ClockInterrupt \/ Executes
  BY <1>4, <1>6 DEF FrameEnds, HandlerEnds, RunsAway, NothingDue, BIOSTakes,
     LateVblank, ClockInterrupt, Executes
<1>7. CASE NextHook \/ Returns \/ Hijacked
  BY <1>4, <1>7 DEF NextHook, Returns, Hijacked, HookStopped
<1>8. CASE Ended \/ UNCHANGED vars
  <2>1. UNCHANGED vars
    BY <1>8 DEF Ended
  <2> QED  BY <2>1 DEF vars, DebtInv
<1> QED  BY <1>1, <1>2, <1>3, <1>5, <1>6, <1>7, <1>8
         DEF Next, Fetch, HaltTick, Running

(* However long a handler has overrun, no more than MaxDebt + 1 frames in  *)
(* a row are skipped to pay for it: the boundary frame and the cap.        *)
THEOREM SkippedFramesBounded == Spec => []DebtBounded
<1>1. Init => DebtInv
  BY DEF Init, DebtInv
<1>2. TypeOK /\ DebtInv => DebtBounded
  <2> SUFFICES ASSUME TypeOK, DebtInv PROVE DebtBounded
    OBVIOUS
  <2>1. /\ F \in Nat \ {0} /\ MaxDebt + 1 \in Nat /\ skipped \in Nat
        /\ skipped * F \in Nat /\ (MaxDebt + 1) * F \in Nat
        /\ cyc \in Nat /\ frameDue \in Nat
    BY RasterAssumption, LimitAssumption, ProductNat DEF TypeOK
  <2>2. CASE skipped = 0
    BY <2>1, <2>2 DEF DebtBounded
  <2>3. CASE skipped # 0
    <3>1. skipped * F <= (MaxDebt + 1) * F
      BY <2>1, <2>3 DEF DebtInv
    <3> QED  BY <2>1, <3>1, Cancel DEF DebtBounded
  <2> QED  BY <2>2, <2>3
<1> QED  BY <1>1, <1>2, TypeCorrect, DebtStep, PTL DEF Spec
-----------------------------------------------------------------------------
(* Frames keep pace with the clock: whatever handlers overrun, no blank is *)
(* raised twice, and what is owed is paid in a bounded run of frames.      *)
THEOREM PaceKept == Spec => []FramesKeepPace
  BY VblankNoFasterThanTheClock, SkippedFramesBounded, PTL DEF FramesKeepPace

-----------------------------------------------------------------------------
(* The thread an instruction belongs to.  The stack pointer is below the   *)
(* innermost frame only between a hijack and the return of deliver, where  *)
(* nothing is executed; the main thread's own is never below its floor.    *)
ThreadInv == InstructionsHaveAThread /\ (MainThread => sp >= 0)

LEMMA ThreadStep == TypeOK /\ ThreadInv /\ [Next]_vars => ThreadInv'
<1> SUFFICES ASSUME TypeOK, ThreadInv, [Next]_vars PROVE ThreadInv'
  OBVIOUS
<1>0. Len(stack) \in Nat /\ sp \in Int
  BY DEF TypeOK
<1>1. ASSUME NEW cont, NEW o, NEW flag, Deliver(cont, o, flag) PROVE ThreadInv'
  BY <1>0, <1>1 DEF Deliver, ThreadInv, InstructionsHaveAThread
<1>2. CASE FrameStarts
  <2>1. CASE hooks > 0 /\ CanTake
    BY <1>1, <1>2, <2>1 DEF FrameStarts
  <2>2. CASE ~(hooks > 0 /\ CanTake)
    BY <1>2, <2>2 DEF FrameStarts, ThreadInv, InstructionsHaveAThread
  <2> QED  BY <2>1, <2>2
<1>3. ASSUME NEW n, NEW o, Tick(n, o), sp >= Len(stack) PROVE ThreadInv'
  <2>1. CASE LineLive(cyc + n) /\ CanTake /\ hooks > 0
    BY <1>1, <1>3, <2>1 DEF Tick
  <2>2. CASE ~(LineLive(cyc + n) /\ CanTake /\ hooks > 0)
    BY <1>3, <2>2 DEF Tick, ThreadInv, InstructionsHaveAThread
  <2> QED  BY <2>1, <2>2
<1>4. CASE Fetch
  <2>1. sp >= Len(stack)
    BY <1>0, <1>4 DEF Fetch, Running, ThreadInv
  <2> QED  BY <1>3, <1>4, <2>1 DEF Fetch
<1>5. CASE HaltTick
  <2>1. sp >= Len(stack) /\ Tick(1, "wait")
    BY <1>0, <1>5 DEF HaltTick, ThreadInv
  <2> QED  BY <1>3, <2>1
<1>6. CASE LateVblank \/ ClockInterrupt
  BY <1>1, <1>6 DEF LateVblank, ClockInterrupt
<1>7. CASE RunsAway \/ NothingDue \/ BIOSTakes
  BY <1>7 DEF RunsAway, NothingDue, BIOSTakes, ThreadInv,
     InstructionsHaveAThread
<1>8. CASE Executes
  <2>1. MainThread => sp' >= 0
    <3>1. sp' = sp \/ (sp' = sp - 1 /\ sp = Len(stack) /\ stack # << >>)
          \/ sp' = Floor
      BY <1>8, Zenon DEF Executes, Control, InHandler
    <3>2. stack # << >> => Len(stack) >= 1
      BY PopLen
    <3> QED  BY <1>0, <3>1, <3>2 DEF Floor, ThreadInv
  <2>2. ctl' = "step"
    BY <1>8 DEF Executes
  <2> QED  BY <2>1, <2>2 DEF ThreadInv, InstructionsHaveAThread
<1>9. CASE NextHook \/ Hijacked
  <2>1. ctl' \in {"step", "panic"} /\ sp' = sp
    BY <1>9 DEF NextHook, Hijacked, Unwound
  <2> QED  BY <2>1 DEF ThreadInv, InstructionsHaveAThread
<1>10. CASE Returns
  <2>1. stack # << >> /\ stack' = Pop /\ sp' = Len(stack) - 1
    BY <1>10 DEF Returns, HookStopped
  <2>2. Len(stack') = Len(stack) - 1 /\ Len(stack) >= 1
    BY <2>1, PopLen
  <2> QED  BY <1>0, <2>1, <2>2 DEF ThreadInv, InstructionsHaveAThread
<1>11. CASE FrameSkipped \/ FrameEnds \/ HandlerFrame \/ HandlerEnds
  BY <1>11 DEF FrameSkipped, FrameEnds, HandlerFrame, HandlerEnds, ThreadInv,
     InstructionsHaveAThread
<1>12. CASE Ended \/ UNCHANGED vars
  <2>1. UNCHANGED vars
    BY <1>12 DEF Ended
  <2> QED  BY <2>1 DEF vars, ThreadInv, InstructionsHaveAThread
<1> QED  BY <1>2, <1>4, <1>5, <1>6, <1>7, <1>8, <1>9, <1>10, <1>11, <1>12
         DEF Next

(* No opcode of an abandoned thread is finished on the registers of the    *)
(* thread that abandoned it.                                               *)
THEOREM OpcodesBelongToTheirThread == Spec => []InstructionsHaveAThread
<1>1. Init => ThreadInv
  BY DEF Init, ThreadInv, InstructionsHaveAThread
<1>2. ThreadInv => InstructionsHaveAThread
  BY DEF ThreadInv
<1> QED  BY <1>1, <1>2, TypeCorrect, ThreadStep, PTL DEF Spec

-----------------------------------------------------------------------------
(* The budget.  Each level of the stack holds the limit of the level it    *)
(* interrupted: the outermost the main thread's, every other none; and the *)
(* one deliver that runs before the slice starts is the outermost.         *)
MainLimit == IF MainThread THEN frameOrigin + F ELSE 0

SetAside(s, i) ==
  /\ s[i].at = "frame" => i = 1 /\ MainThread
  /\ s[i].at # "frame" => s[i].limit = IF i = 1 THEN MainLimit ELSE 0

BudgetInv ==
  /\ BudgetIsTheMainThreads
  /\ ctl = "host" => stack = << >>
  /\ \A i \in 1..Len(stack) : SetAside(stack, i)

LEMMA DeliverBudget ==
  ASSUME TypeOK, BudgetInv, NEW cont, NEW o, NEW flag,
         Deliver(cont, o, flag),
         \/ cont = "frame" /\ MainThread /\ stack = << >>
         \/ cont # "frame" /\ ctl # "host" /\ frameOrigin' = frameOrigin
  PROVE  BudgetInv'
<1> DEFINE fr == [at |-> cont, op |-> o, limit |-> cycLimit, idle |-> idle,
                  pc |-> atSentinel, tail |-> epilogue, left |-> hooks - 1]
           n  == Len(stack)
<1>1. /\ n \in Nat /\ stack' = Append(stack, fr) /\ Len(stack') = n + 1
      /\ stack'[n + 1] = fr /\ \A i \in 1..n : stack'[i] = stack[i]
  BY DEF Deliver, TypeOK
<1>2. stack' # << >> /\ cycLimit' = 0 /\ ctl' = "step"
  BY <1>1 DEF Deliver
<1>3. BudgetIsTheMainThreads'
  BY <1>2 DEF BudgetIsTheMainThreads
<1>4. ASSUME NEW i \in 1..n PROVE SetAside(stack, i)'
  <2>1. stack # << >> /\ frameOrigin' = frameOrigin
    BY <1>4
  <2> QED  BY <1>1, <1>4, <2>1 DEF BudgetInv, SetAside, MainLimit
<1>5. ASSUME NEW i \in 1..n + 1, i \notin 1..n PROVE SetAside(stack, i)'
  <2>1. i = n + 1 /\ stack'[i].at = cont /\ stack'[i].limit = cycLimit
    BY <1>1, <1>5
  <2>2. CASE cont = "frame"
    <3>1. i = 1 /\ MainThread
      BY <2>1, <2>2
    <3> QED  BY <2>1, <2>2, <3>1 DEF SetAside
  <2>3. CASE cont # "frame"
    <3>1. cycLimit = IF i = 1 THEN MainLimit ELSE 0
      <4>1. stack # << >> <=> i # 1
        BY <1>1, <2>1 DEF TypeOK
      <4> QED  BY <2>3, <4>1 DEF BudgetInv, BudgetIsTheMainThreads, MainLimit
    <3> QED  BY <2>1, <2>3, <3>1 DEF SetAside, MainLimit
  <2> QED  BY <2>2, <2>3
<1> QED  BY <1>1, <1>2, <1>3, <1>4, <1>5 DEF BudgetInv

(* What deliver puts back is the limit of the level it goes back to.       *)
LEMMA LimitBack ==
  ASSUME TypeOK, BudgetInv, stack # << >>, ctl' # "host", stack' = Pop,
         cycLimit' = LimitAfter, frameOrigin' = frameOrigin
  PROVE  BudgetInv'
<1> DEFINE n == Len(stack)
<1>1. /\ n \in Nat \ {0} /\ Len(stack') = n - 1
      /\ \A i \in 1..n - 1 : stack'[i] = stack[i]
  BY PopLen
<1>2. stack' # << >> <=> n # 1
  <2>1. stack' \in Seq(Frames)
    BY DEF Pop, TypeOK
  <2> QED  BY <1>1, <2>1
<1>3. SetAside(stack, n) /\ Top = stack[n]
  BY <1>1 DEF BudgetInv, Top
<1>4. LimitAfter = IF n = 1 THEN MainLimit ELSE 0
  BY <1>3 DEF SetAside, LimitAfter, MainLimit
<1>5. BudgetIsTheMainThreads'
  BY <1>2, <1>4 DEF BudgetIsTheMainThreads, MainLimit
<1>6. ASSUME NEW i \in 1..n - 1 PROVE SetAside(stack, i)'
  BY <1>1, <1>6 DEF BudgetInv, SetAside, MainLimit
<1> QED  BY <1>1, <1>5, <1>6 DEF BudgetInv

LEMMA BudgetStep == TypeOK /\ BudgetInv /\ [Next]_vars => BudgetInv'
<1> SUFFICES ASSUME TypeOK, BudgetInv, [Next]_vars PROVE BudgetInv'
  OBVIOUS
<1>1. ASSUME UNCHANGED <<stack, cycLimit, frameOrigin>>,
             ctl' = "host" <=> ctl = "host"
      PROVE  BudgetInv'
  BY <1>1 DEF BudgetInv, BudgetIsTheMainThreads, SetAside, MainLimit
<1>2. CASE FrameStarts
  <2>1. MainThread /\ ctl = "host" /\ stack = << >> /\ frameOrigin' = cyc
    BY <1>2 DEF FrameStarts, BudgetInv
  <2>2. CASE hooks > 0 /\ CanTake
    <3>1. Deliver("frame", "nop", f \/ BlankOwed)
      BY <1>2, <2>2 DEF FrameStarts
    <3> QED  BY <2>1, <3>1, DeliverBudget
  <2>3. CASE ~(hooks > 0 /\ CanTake)
    <3>1. stack' = << >> /\ cycLimit' = cyc + F /\ ctl' = "step"
      BY <1>2, <2>1, <2>3 DEF FrameStarts
    <3> QED  BY <2>1, <3>1 DEF BudgetInv, BudgetIsTheMainThreads
  <2> QED  BY <2>2, <2>3
<1>3. ASSUME NEW n, NEW o, ctl = "step", Tick(n, o) PROVE BudgetInv'
  <2>0. frameOrigin' = frameOrigin
    BY <1>3 DEF Tick
  <2>1. CASE LineLive(cyc + n) /\ CanTake /\ hooks > 0
    <3>1. Deliver("irq", o, f \/ (fDue # 0 /\ cyc + n >= fDue))
      BY <1>3, <2>1 DEF Tick
    <3> QED  BY <1>3, <2>0, <3>1, DeliverBudget
  <2>2. CASE ~(LineLive(cyc + n) /\ CanTake /\ hooks > 0)
    BY <1>1, <1>3, <2>0, <2>2 DEF Tick
  <2> QED  BY <2>1, <2>2
<1>4. CASE LateVblank \/ ClockInterrupt
  <2>1. ctl = "irq" /\ Deliver("op", op, f) /\ frameOrigin' = frameOrigin
    BY <1>4 DEF LateVblank, ClockInterrupt
  <2> QED  BY <2>1, DeliverBudget
<1>5. CASE RunsAway \/ NothingDue \/ BIOSTakes \/ Executes \/ FrameSkipped
  BY <1>1, <1>5 DEF RunsAway, NothingDue, BIOSTakes, Executes, FrameSkipped
<1>6. CASE FrameEnds
  BY <1>6 DEF FrameEnds, BudgetInv, BudgetIsTheMainThreads
<1>7. CASE HandlerFrame \/ HandlerEnds
  <2>1. ~MainThread /\ UNCHANGED <<stack, cycLimit, frameOrigin>>
        /\ stack = << >> /\ ctl' \in {"host", "step"}
    BY <1>7 DEF HandlerFrame, HandlerEnds, BudgetInv
  <2>2. cycLimit = 0
    BY <2>1 DEF BudgetInv, BudgetIsTheMainThreads
  <2> QED  BY <2>1, <2>2 DEF BudgetInv, BudgetIsTheMainThreads
<1>8. CASE NextHook
  <2>1. /\ stack # << >> /\ ctl' = "step" /\ cycLimit' = cycLimit
        /\ frameOrigin' = frameOrigin /\ ctl # "host"
        /\ stack' = [stack EXCEPT ![Len(stack)].left = @ - 1]
    BY <1>8 DEF NextHook, HookStopped, BudgetInv
  <2>2. Len(stack') = Len(stack) /\ stack' # << >>
    BY <2>1 DEF TypeOK
  <2>3. ASSUME NEW i \in 1..Len(stack)
        PROVE  stack'[i].at = stack[i].at /\ stack'[i].limit = stack[i].limit
    <3>1. stack[i] \in Frames /\ Top \in Frames /\ Top = stack[Len(stack)]
      BY <2>1, <2>3, TopType, SMTT(20) DEF TypeOK, Top
    <3>2. CASE i = Len(stack)
      BY <2>1, <3>1, <3>2 DEF TypeOK, Frames
    <3>3. CASE i # Len(stack)
      BY <2>1, <2>3, <3>3 DEF TypeOK
    <3> QED  BY <3>2, <3>3
  <2>4. ASSUME NEW i \in 1..Len(stack) PROVE SetAside(stack, i)'
    BY <2>1, <2>3, <2>4 DEF BudgetInv, SetAside, MainLimit
  <2>5. BudgetIsTheMainThreads'
    BY <2>1, <2>2 DEF BudgetInv, BudgetIsTheMainThreads
  <2> QED  BY <2>1, <2>2, <2>4, <2>5 DEF BudgetInv
<1>9. CASE Returns \/ Hijacked
  <2>1. /\ stack # << >> /\ stack' = Pop /\ cycLimit' = LimitAfter
        /\ frameOrigin' = frameOrigin
    BY <1>9 DEF Returns, Hijacked, HookStopped
  <2>2. ctl' # "host"
    BY <1>9, <2>1, TopType DEF Returns, Hijacked, Unwound, Frames
  <2> QED  BY <2>1, <2>2, LimitBack
<1>10. CASE Ended \/ UNCHANGED vars
  <2>1. UNCHANGED vars
    BY <1>10 DEF Ended
  <2> QED  BY <1>1, <2>1 DEF vars
<1> QED  BY <1>2, <1>3, <1>4, <1>5, <1>6, <1>7, <1>8, <1>9, <1>10
         DEF Next, Fetch, HaltTick, Running

(* A handler never runs under the main thread's budget, and the main       *)
(* thread never under another than its frame's, however its handlers       *)
(* nested and left.                                                        *)
THEOREM BudgetKept == Spec => []BudgetIsTheMainThreads
<1>1. Init => BudgetInv
  BY DEF Init, BudgetInv, BudgetIsTheMainThreads
<1>2. BudgetInv => BudgetIsTheMainThreads
  BY DEF BudgetInv
<1> QED  BY <1>1, <1>2, TypeCorrect, BudgetStep, PTL DEF Spec

(* Whichever way a handler leaves, the nesting, the budget and the         *)
(* instruction in flight are those of the thread it interrupted.           *)
THEOREM HandlersSettled == Spec => []HandlersSettle
  BY TypeCorrect, NestingBounded, OpcodesBelongToTheirThread, BudgetKept, PTL
     DEF HandlersSettle

-----------------------------------------------------------------------------
(* The runaway guard.  Past it an instruction has had its tick and not yet *)
(* its check, or a line interrupt has been taken in between and no         *)
(* instruction of its handler has been fetched.                            *)
Fresh == stack # << >> /\ ~idle /\ ~halted /\ ~atSentinel /\ sp >= Len(stack)

GuardInv == Overrun => ctl = "irq" \/ (ctl = "step" /\ Fresh)

LEMMA DeliverFresh ==
  ASSUME TypeOK, NEW cont, NEW o, NEW flag, Deliver(cont, o, flag)
  PROVE  ctl' = "step" /\ Fresh'
<1>1. stack \in Seq(Frames)
  BY DEF TypeOK
<1> QED  BY <1>1 DEF Deliver, Fresh

LEMMA GuardStep == TypeOK /\ GuardInv /\ [Next]_vars => GuardInv'
<1> SUFFICES ASSUME TypeOK, GuardInv, [Next]_vars PROVE GuardInv'
  OBVIOUS
<1>0. Runaway * F \in Nat /\ cyc \in Nat /\ frameStart \in Nat
  BY LimitAssumption, RasterAssumption, ProductNat DEF TypeOK
<1>1. CASE ~Overrun /\ cyc' = cyc /\ frameStart' \in {0, cyc, frameStart}
  BY <1>0, <1>1 DEF GuardInv, Overrun
<1>2. CASE FrameSkipped \/ FrameStarts \/ FrameEnds \/ HandlerFrame
           \/ HandlerEnds
  <2>1. cyc' = cyc /\ frameStart' \in {0, cyc, frameStart}
    BY <1>2 DEF FrameSkipped, FrameStarts, FrameEnds, HandlerFrame, HandlerEnds
  <2>2. CASE HandlerEnds
    BY <2>2, <1>0 DEF HandlerEnds, GuardInv, Overrun
  <2>3. CASE ~HandlerEnds
    <3>1. ctl = "host" \/ (ctl = "step" /\ stack = << >>)
      BY <1>2, <2>3 DEF FrameSkipped, FrameStarts, FrameEnds, HandlerFrame
    <3>2. ~Overrun
      BY <3>1 DEF GuardInv, Fresh
    <3> QED  BY <1>1, <2>1, <3>2
  <2> QED  BY <2>2, <2>3
<1>3. ASSUME NEW n \in Nat, NEW o, Tick(n, o) PROVE GuardInv'
  <2>1. CASE LineLive(cyc + n) /\ CanTake /\ hooks > 0
    BY <1>3, <2>1, DeliverFresh DEF Tick, GuardInv
  <2>2. CASE ~(LineLive(cyc + n) /\ CanTake /\ hooks > 0)
    BY <1>3, <2>2 DEF Tick, GuardInv
  <2> QED  BY <2>1, <2>2
<1>4. CASE RunsAway
  BY <1>0, <1>4 DEF RunsAway, GuardInv, Overrun
<1>5. CASE NothingDue \/ BIOSTakes \/ LateVblank \/ ClockInterrupt
  BY <1>1, <1>5 DEF NothingDue, BIOSTakes, LateVblank, ClockInterrupt
<1>6. CASE Executes \/ NextHook \/ Returns \/ Hijacked
  <2>0. Len(stack) \in Nat /\ sp \in Int
    BY DEF TypeOK
  <2>1. ~Overrun
    <3>1. CASE Executes
      BY <3>1 DEF Executes, GuardInv
    <3>2. CASE HookStopped
      BY <2>0, <3>2 DEF HookStopped, GuardInv, Fresh
    <3> QED  BY <1>6, <3>1, <3>2 DEF NextHook, Returns, Hijacked
  <2>2. cyc' = cyc /\ frameStart' = frameStart
    BY <1>6 DEF Executes, NextHook, Returns, Hijacked
  <2> QED  BY <1>1, <2>1, <2>2
<1>7. CASE Ended \/ UNCHANGED vars
  <2>1. UNCHANGED vars
    BY <1>7 DEF Ended
  <2> QED  BY <2>1 DEF vars, GuardInv, Overrun, Fresh
<1> QED  BY <1>2, <1>3, <1>4, <1>5, <1>6, <1>7, OpsType
         DEF Next, Fetch, HaltTick

(* No instruction has its effect past the runaway guard, in whatever level *)
(* of handler it is: dueIRQ looks before every one.                        *)
THEOREM RunawaysStopped == Spec => []RunawayStops
<1>1. Init => GuardInv
  BY DEF Init, GuardInv, Overrun
<1>2. TypeOK /\ GuardInv => RunawayStops
  BY LimitAssumption, RasterAssumption, ProductNat
     DEF TypeOK, GuardInv, Overrun, RunawayStops
<1> QED  BY <1>1, <1>2, TypeCorrect, GuardStep, PTL DEF Spec

-----------------------------------------------------------------------------
(* Interrupts taken ahead.  In the handler shape no blank is ever held --  *)
(* Frame raises it and runs the handler itself -- so that every interrupt  *)
(* taken mid-flight is counted, and none is taken before the first frame.  *)
AheadInv ==
  ~MainThread =>
    /\ ~fHeld /\ InterruptsAreFrames
    /\ ctl # "host" => runs > 0
    /\ runs > 0 => taken > 0

LEMMA AheadStep == TypeOK /\ AheadInv /\ [Next]_vars => AheadInv'
<1> SUFFICES ASSUME TypeOK, AheadInv, ~MainThread, [Next]_vars PROVE AheadInv'
  BY DEF AheadInv
<1>0. /\ runs \in Nat /\ taken \in Nat /\ irqTaken \in Nat /\ frames \in Nat
      /\ ~fHeld /\ runs = frames + irqTaken
      /\ irqTaken <= (IF runs = 0 THEN 0 ELSE taken - 1)
      /\ ctl # "host" => runs > 0
      /\ runs > 0 => taken > 0
  BY DEF AheadInv, InterruptsAreFrames, TypeOK
<1>1. ASSUME UNCHANGED <<irqTaken, frames, runs, taken>>, ~fHeld',
             ctl' # "host" => ctl # "host"
      PROVE  AheadInv'
  BY <1>0, <1>1 DEF AheadInv, InterruptsAreFrames
<1>2. CASE HandlerFrame
  <2>1. CASE TakenAhead
    BY <1>0, <1>2, <2>1
       DEF HandlerFrame, TakenAhead, AheadInv, InterruptsAreFrames
  <2>2. CASE ~TakenAhead
    BY <1>0, <1>2, <2>2
       DEF HandlerFrame, TakenAhead, AheadInv, InterruptsAreFrames
  <2> QED  BY <2>1, <2>2
<1>3. CASE HandlerEnds
  BY <1>0, <1>1, <1>3 DEF HandlerEnds
<1>4. ASSUME NEW n, NEW o, ctl = "step", Tick(n, o) PROVE AheadInv'
  BY <1>0, <1>1, <1>4 DEF Tick
<1>5. CASE RunsAway \/ NothingDue \/ BIOSTakes \/ Executes
  BY <1>0, <1>1, <1>5, Zenon DEF RunsAway, NothingDue, BIOSTakes, Executes
<1>6. CASE LateVblank
  BY <1>0, <1>6 DEF LateVblank, HeldLive
<1>7. CASE ClockInterrupt
  <2>1. /\ irqTaken' = irqTaken + 1 /\ taken' = taken + 1
        /\ runs' = runs + 1 /\ frames' = frames /\ ~fHeld' /\ runs > 0
    BY <1>0, <1>7 DEF ClockInterrupt
  <2> QED  BY <1>0, <2>1 DEF AheadInv, InterruptsAreFrames
<1>8. CASE NextHook \/ Returns \/ Hijacked
  <2>1. ctl # "host"
    BY <1>8 DEF NextHook, Returns, Hijacked, HookStopped
  <2> QED  BY <1>0, <1>1, <1>8, <2>1 DEF NextHook, Returns, Hijacked
<1>9. CASE Ended \/ UNCHANGED vars
  <2>1. UNCHANGED vars
    BY <1>9 DEF Ended
  <2> QED  BY <1>0, <1>1, <2>1 DEF vars
<1>10. ~(FrameSkipped \/ FrameStarts \/ FrameEnds \/ HaltTick)
  BY DEF FrameSkipped, FrameStarts, FrameEnds, HaltTick
<1> QED  BY <1>2, <1>3, <1>4, <1>5, <1>6, <1>7, <1>8, <1>9, <1>10
         DEF Next, Fetch, Running

(* In the handler shape an interrupt taken inside an overrunning handler   *)
(* is never delivered again: interrupts are the frames and those ahead.    *)
THEOREM NoneTakenTwice == Spec => []InterruptsAreFrames
<1>1. Init => AheadInv
  BY DEF Init, AheadInv, InterruptsAreFrames
<1>2. AheadInv => InterruptsAreFrames
  BY DEF AheadInv, InterruptsAreFrames
<1> QED  BY <1>1, <1>2, TypeCorrect, AheadStep, PTL DEF Spec

-----------------------------------------------------------------------------
(* The clock's interrupts on a disk machine.  lastIRQ, the time up to      *)
(* which they are paid for, only grows, and it runs ahead of every one     *)
(* that was taken: the last of them is less than a frame before the end of *)
(* what it paid for, and each of the others one frame more than the next.  *)
PaidUpTo == IF MainThread THEN cyc + F ELSE cyc

PaidFor ==
  \A j \in 1..Len(clocked) :
    clocked[j] + (Len(clocked) - j) * F < lastIRQ + F

BurstInv == lastIRQ <= PaidUpTo /\ (ramMapper => PaidFor /\ NoBurst)

LEMMA FrameNat == F \in Nat /\ F > 0
  BY RasterAssumption

(* What was paid for stays so as the time paid up to grows, and one frame  *)
(* on when it grows by a frame.                                            *)
LEMMA StillPaid ==
  ASSUME NEW since \in Nat, NEW span \in Int, NEW was \in Nat, NEW now \in Nat,
         since + span < was + F
  PROVE  /\ now >= was => since + span < now + F
         /\ now >= was + F => since + (span + F) < now + F
  BY FrameNat

(* A step that takes no interrupt of the clock's keeps what was paid for.  *)
LEMMA PaidStands ==
  ASSUME TypeOK, BurstInv, clocked' = clocked, ramMapper' = ramMapper,
         cyc' \in Nat, cyc' >= cyc, lastIRQ' \in Nat,
         lastIRQ' >= lastIRQ, lastIRQ' <= PaidUpTo'
  PROVE  BurstInv'
<1>1. ramMapper => NoBurst'
  BY DEF BurstInv, NoBurst
<1>2. ASSUME ramMapper PROVE PaidFor'
  <2> SUFFICES ASSUME NEW j \in 1..Len(clocked)
               PROVE  clocked[j] + (Len(clocked) - j) * F < lastIRQ' + F
    BY DEF PaidFor
  <2>1. clocked[j] + (Len(clocked) - j) * F < lastIRQ + F
    BY <1>2 DEF BurstInv, PaidFor
  <2>2. /\ clocked[j] \in Nat /\ Len(clocked) - j \in Nat
        /\ lastIRQ \in Nat
    BY DEF TypeOK
  <2>3. (Len(clocked) - j) * F \in Int
    BY <2>2, FrameNat, ProductNat
  <2> QED  BY <2>1, <2>2, <2>3, StillPaid
<1> QED  BY <1>1, <1>2 DEF BurstInv

(* Multiples of the frame, one apart.                                      *)
LEMMA OneFrameMore ==
  ASSUME NEW a \in Int PROVE (a + 1) * F = a * F + F /\ a * F \in Int
  BY FrameNat

(* The clock's interrupt: what it is owed for is due a frame after all     *)
(* that was paid for, and what is missed meanwhile is not owed.            *)
LEMMA ClockPays ==
  ASSUME TypeOK, BurstInv, ClockInterrupt
  PROVE  BurstInv'
<1> DEFINE n == Len(clocked)
<1>1. /\ cyc \in Nat /\ lastIRQ \in Nat /\ F \in Nat /\ F > 0 /\ n \in Nat
      /\ clocked \in Seq(Nat)
  BY FrameNat DEF TypeOK
<1>2. /\ clocked' = Append(clocked, cyc) /\ cyc' = cyc
      /\ ramMapper' = ramMapper /\ lastIRQ' = NextIRQ /\ cyc >= lastIRQ + F
  BY <1>1 DEF ClockInterrupt, ClockDue
<1>3. lastIRQ' \in Nat /\ lastIRQ' >= lastIRQ + F /\ lastIRQ' <= cyc
  BY <1>1, <1>2 DEF NextIRQ
<1>4. ramMapper => cyc < lastIRQ' + F
  BY <1>1, <1>2 DEF NextIRQ
<1>5. /\ Len(clocked') = n + 1
      /\ \A i \in 1..n : clocked'[i] = clocked[i]
      /\ clocked'[n + 1] = cyc
  BY <1>1, <1>2
<1>6. lastIRQ' <= PaidUpTo'
  BY <1>1, <1>2, <1>3 DEF PaidUpTo
<1>7. ASSUME ramMapper, NEW j \in 1..n
      PROVE  /\ clocked[j] \in Nat /\ (n - j) * F \in Int
             /\ clocked[j] + (n - j) * F < lastIRQ + F
  <2>1. clocked[j] + (n - j) * F < lastIRQ + F
    BY <1>7 DEF BurstInv, PaidFor
  <2>2. clocked[j] \in Nat /\ n - j \in Int
    BY <1>1
  <2> QED  BY <2>1, <2>2, OneFrameMore
<1>8. ASSUME ramMapper PROVE PaidFor'
  <2> SUFFICES ASSUME NEW j \in 1..n + 1
               PROVE  clocked'[j] + (n + 1 - j) * F < lastIRQ' + F
    BY <1>5 DEF PaidFor
  <2>1. CASE j \in 1..n
    <3>1. (n + 1 - j) * F = (n - j) * F + F
      <4>1. n - j \in Int /\ n + 1 - j = (n - j) + 1
        BY <1>1
      <4> QED  BY <4>1, OneFrameMore
    <3>2. /\ clocked[j] \in Nat /\ (n - j) * F \in Int
          /\ clocked[j] + (n - j) * F < lastIRQ + F
      BY <1>7, <1>8, <2>1
    <3>3. clocked[j] + ((n - j) * F + F) < lastIRQ' + F
      BY <3>2, <1>1, <1>3, StillPaid
    <3> QED  BY <3>1, <3>3, <2>1, <1>5
  <2>2. CASE j = n + 1
    <3>1. (n + 1 - j) * F = 0
      BY <2>2, <1>1
    <3> QED  BY <3>1, <2>2, <1>1, <1>4, <1>5, <1>8
  <2> QED  BY <2>1, <2>2, <1>1
<1>9. ASSUME ramMapper PROVE NoBurst'
  <2> SUFFICES ASSUME NEW j \in 1..n + 1, NEW k \in 1..n + 1, j < k
               PROVE  clocked'[k] - clocked'[j] > (k - j - 1) * F
    BY <1>5 DEF NoBurst
  <2>1. CASE k \in 1..n
    <3>1. j \in 1..n
      BY <2>1, <1>1
    <3>2. clocked[k] - clocked[j] > (k - j - 1) * F
      BY <2>1, <3>1, <1>9 DEF BurstInv, NoBurst
    <3> QED  BY <2>1, <3>1, <3>2, <1>5
  <2>2. CASE k = n + 1
    <3>1. j \in 1..n /\ (k - j - 1) * F = (n - j) * F
      BY <2>2, <1>1
    <3> QED  BY <2>2, <3>1, <1>1, <1>2, <1>5, <1>7, <1>9
  <2> QED  BY <2>1, <2>2, <1>1
<1> QED  BY <1>2, <1>6, <1>8, <1>9 DEF BurstInv

LEMMA BurstStep == TypeOK /\ TypeOK' /\ BurstInv /\ [Next]_vars => BurstInv'
<1> SUFFICES ASSUME TypeOK, TypeOK', BurstInv, [Next]_vars PROVE BurstInv'
  OBVIOUS
<1>0. /\ cyc \in Nat /\ cyc' \in Nat /\ lastIRQ \in Nat /\ lastIRQ' \in Nat
      /\ lastIRQ <= PaidUpTo
  BY DEF TypeOK, BurstInv
<1>1. ASSUME UNCHANGED <<cyc, lastIRQ, clocked, ramMapper>>
      PROVE  BurstInv'
  <2>1. lastIRQ' <= PaidUpTo'
    BY <1>0, <1>1 DEF PaidUpTo
  <2> QED  BY <1>0, <1>1, <2>1, PaidStands
<1>2. CASE FrameStarts
  <2>1. /\ MainThread /\ cyc' = cyc /\ lastIRQ' = cyc + F
        /\ clocked' = clocked /\ ramMapper' = ramMapper
    BY <1>2 DEF FrameStarts
  <2> QED  BY <1>0, <2>1, FrameNat, PaidStands DEF PaidUpTo
<1>3. CASE HandlerFrame
  <2>1. /\ ~MainThread /\ cyc' = cyc /\ lastIRQ' \in {lastIRQ, cyc}
        /\ clocked' = clocked /\ ramMapper' = ramMapper
    BY <1>3 DEF HandlerFrame
  <2> QED  BY <1>0, <2>1, PaidStands DEF PaidUpTo
<1>4. ASSUME NEW n \in Nat, NEW o, Tick(n, o) PROVE BurstInv'
  <2>1. /\ cyc' = cyc + n /\ lastIRQ' = lastIRQ
        /\ clocked' = clocked /\ ramMapper' = ramMapper
    BY <1>4 DEF Tick
  <2> QED  BY <1>0, <2>1, FrameNat, PaidStands DEF PaidUpTo
<1>5. CASE BIOSTakes
  <2>1. /\ cyc' = cyc /\ clocked' = clocked /\ ramMapper' = ramMapper
        /\ lastIRQ' = IF ClockDue THEN lastIRQ + F ELSE lastIRQ
    BY <1>5 DEF BIOSTakes
  <2>2. lastIRQ' >= lastIRQ /\ lastIRQ' <= PaidUpTo'
    BY <1>0, <2>1, FrameNat DEF ClockDue, PaidUpTo
  <2> QED  BY <1>0, <2>1, <2>2, PaidStands
<1>6. CASE ClockInterrupt
  BY <1>6, ClockPays
<1>7. CASE FrameSkipped \/ FrameEnds \/ HandlerEnds \/ RunsAway \/ NothingDue
  BY <1>7, <1>1, Zenon DEF FrameSkipped, FrameEnds, HandlerEnds, RunsAway, NothingDue
<1>8. CASE LateVblank \/ Executes
  <2>1. UNCHANGED <<cyc, lastIRQ, clocked>>
    BY <1>8 DEF LateVblank, Executes
  <2>2. ramMapper' = ramMapper
    BY <1>8 DEF LateVblank, Executes, Device
  <2> QED  BY <2>1, <2>2, <1>1
<1>9. CASE NextHook \/ Returns \/ Hijacked
  BY <1>9, <1>1 DEF NextHook, Returns, Hijacked
<1>10. CASE Ended \/ UNCHANGED vars
  <2>1. UNCHANGED vars
    BY <1>10 DEF Ended
  <2> QED  BY <2>1, <1>1 DEF vars
<1>11. CASE Fetch \/ HaltTick
  BY <1>11, <1>4, OpsType DEF Fetch, HaltTick
<1> QED  BY <1>2, <1>3, <1>5, <1>6, <1>7, <1>8, <1>9, <1>10, <1>11 DEF Next

(* A disk machine is never made up to for the blanks it missed: for every  *)
(* program, frame length, nesting limit and guard, any n of the clock's    *)
(* interrupts span more than n - 2 frames.                                 *)
THEOREM MissedAreForgiven == Spec => []NoBurst
<1>1. Init => BurstInv
  BY FrameNat DEF Init, BurstInv, PaidUpTo, PaidFor, NoBurst
<1>2. TypeOK /\ BurstInv => NoBurst
  BY DEF BurstInv, NoBurst
<1> QED  BY <1>1, <1>2, TypeCorrect, BurstStep, PTL DEF Spec

-----------------------------------------------------------------------------
(* The line schedule.  It is made anew wherever the registers that say the *)
(* line are written -- R9, which says how many are displayed, excepted,    *)
(* hence no program with a write of it -- and is behind the clock nowhere. *)
NoWriteR9 ==
  /\ op # "writeR9"
  /\ \A i \in 1..Len(stack) : stack[i].op # "writeR9"

ScheduleInv == LineNotOverdue /\ ScheduleNamesLine /\ NoWriteR9

(* What rearmLine leaves is a schedule for the line asked for.             *)
LEMMA Rearmed ==
  ASSUME TypeOK, LineNotOverdue,
         NEW origin \in Nat, NEW enabled \in BOOLEAN, NEW line \in Compares,
         fhDue' = RearmLine(origin, cyc, enabled, line, lines, fhDue),
         cyc' = cyc
  PROVE  /\ LineNotOverdue'
         /\ enabled /\ fhDue' # 0 =>
              fhDue' = origin + (line + TotalLines - lines) * (F \div TotalLines)
<1> DEFINE due == origin + (line + TotalLines - lines) * (F \div TotalLines)
<1>1. fhDue' = IF ~enabled THEN fhDue ELSE IF due <= cyc THEN 0 ELSE due
  BY DEF RearmLine
<1>2. cyc \in Nat /\ due \in Nat
  <2>1. line + TotalLines - lines \in Nat
    BY RasterAssumption DEF TypeOK
  <2>2. (line + TotalLines - lines) * (F \div TotalLines) \in Nat
    BY <2>1, PerLineNat, ProductNat
  <2> QED  BY <2>2 DEF TypeOK
<1> HIDE DEF due
<1>3. LineNotOverdue'
  BY <1>1, <1>2 DEF LineNotOverdue
<1> QED  BY <1>1, <1>3 DEF due

LEMMA DeliverNoWriteR9 ==
  ASSUME TypeOK, NoWriteR9, NEW cont, NEW o, o # "writeR9", NEW flag,
         Deliver(cont, o, flag)
  PROVE  NoWriteR9'
<1> DEFINE fr == [at |-> cont, op |-> o, limit |-> cycLimit, idle |-> idle,
                  pc |-> atSentinel, tail |-> epilogue, left |-> hooks - 1]
           n  == Len(stack)
<1>1. /\ n \in Nat /\ stack' = Append(stack, fr) /\ Len(stack') = n + 1
      /\ stack'[n + 1] = fr /\ \A i \in 1..n : stack'[i] = stack[i]
      /\ op' = "nop"
  BY DEF Deliver, TypeOK
<1>2. ASSUME NEW i \in 1..n + 1 PROVE stack'[i].op # "writeR9"
  <2>1. CASE i = n + 1
    BY <1>1, <2>1
  <2>2. CASE i # n + 1
    BY <1>1, <2>2 DEF NoWriteR9
  <2> QED  BY <2>1, <2>2
<1> QED  BY <1>1, <1>2 DEF NoWriteR9

LEMMA ScheduleStep ==
  ASSUME "writeR9" \notin Ops
  PROVE  TypeOK /\ ScheduleInv /\ [Next]_vars => ScheduleInv'
<1> SUFFICES ASSUME TypeOK, ScheduleInv, [Next]_vars PROVE ScheduleInv'
  OBVIOUS
<1> USE DEF ScheduleInv
<1>1. ASSUME UNCHANGED <<cyc, fhDue, frameOrigin, ie1, cmp, lines>>
      PROVE  LineNotOverdue' /\ ScheduleNamesLine'
  BY <1>1 DEF LineNotOverdue, ScheduleNamesLine
<1>2. ASSUME UNCHANGED <<stack, op>> PROVE NoWriteR9'
  BY <1>2 DEF NoWriteR9
<1>3. ASSUME fhDue' = RearmLine(frameOrigin', cyc, ie1', cmp', lines, fhDue),
             frameOrigin' \in Nat, ie1' \in BOOLEAN, cmp' \in Compares,
             UNCHANGED <<cyc, lines>>
      PROVE  LineNotOverdue' /\ ScheduleNamesLine'
  BY <1>3, Rearmed DEF ScheduleNamesLine
<1>4. CASE FrameStarts
  <2>1. LineNotOverdue' /\ ScheduleNamesLine'
    <3>1. /\ frameOrigin' = cyc /\ UNCHANGED <<cyc, lines, ie1, cmp>>
          /\ fhDue' = RearmLine(cyc, cyc, ie1, cmp, lines, fhDue)
      BY <1>4 DEF FrameStarts
    <3> QED  BY <1>3, <3>1 DEF TypeOK
  <2>2. CASE hooks > 0 /\ CanTake
    BY <1>4, <2>1, <2>2, DeliverNoWriteR9 DEF FrameStarts
  <2>3. CASE ~(hooks > 0 /\ CanTake)
    BY <1>2, <1>4, <2>1, <2>3 DEF FrameStarts
  <2> QED  BY <2>2, <2>3
<1>5. ASSUME NEW n \in Nat, NEW o \in Ops \cup {"wait"}, Tick(n, o)
      PROVE  ScheduleInv'
  <2>1. LineNotOverdue' /\ ScheduleNamesLine'
    <3>1. /\ cyc' = cyc + n /\ cyc \in Nat
          /\ fhDue' = IF Raised(cyc + n) THEN 0 ELSE fhDue
          /\ UNCHANGED <<frameOrigin, ie1, cmp, lines>>
      BY <1>5 DEF Tick, TypeOK
    <3> QED  BY <3>1 DEF Raised, LineNotOverdue, ScheduleNamesLine, TypeOK
  <2>2. CASE LineLive(cyc + n) /\ CanTake /\ hooks > 0
    BY <1>5, <2>1, <2>2, DeliverNoWriteR9 DEF Tick
  <2>3. CASE ~(LineLive(cyc + n) /\ CanTake /\ hooks > 0)
    <3>1. op' = o /\ stack' = stack
      BY <1>5, <2>3 DEF Tick
    <3> QED  BY <2>1, <3>1 DEF NoWriteR9
  <2> QED  BY <2>2, <2>3
<1>6. CASE HandlerFrame
  <2>1. LineNotOverdue' /\ ScheduleNamesLine'
    <3>1. CASE TakenAhead
      BY <1>1, <1>6, <3>1 DEF HandlerFrame
    <3>2. CASE ~TakenAhead
      BY <1>3, <1>6, <3>2 DEF HandlerFrame, TypeOK
    <3> QED  BY <3>1, <3>2
  <2> QED  BY <1>2, <1>6, <2>1 DEF HandlerFrame
<1>7. CASE LateVblank
  BY <1>1, <1>7, DeliverNoWriteR9 DEF LateVblank, NoWriteR9
<1>8. CASE ClockInterrupt
  <2>1. LineNotOverdue' /\ ScheduleNamesLine'
    BY <1>3, <1>8 DEF ClockInterrupt, TypeOK
  <2> QED  BY <1>8, <2>1, DeliverNoWriteR9 DEF ClockInterrupt, NoWriteR9
<1>9. CASE Executes
  <2>1. NoWriteR9'
    BY <1>9 DEF Executes, NoWriteR9
  <2>2. op # "writeR9" /\ frameOrigin' = frameOrigin /\ cyc' = cyc
    BY <1>9 DEF Executes, NoWriteR9
  <2>3. CASE op \in {"writeR0", "writeR19"}
    <3>1. /\ fhDue' = RearmLine(frameOrigin, cyc, ie1', cmp', lines, fhDue)
          /\ lines' = lines
          /\ ie1' \in (IF op = "writeR0" THEN BOOLEAN ELSE {ie1})
          /\ cmp' \in (IF op = "writeR0" THEN {cmp} ELSE Compares)
      BY <1>9, <2>3 DEF Executes, Device, ControlOps
    <3>2. ie1' \in BOOLEAN /\ cmp' \in Compares
      BY <3>1 DEF TypeOK
    <3> QED  BY <1>3, <2>1, <2>2, <3>1, <3>2 DEF TypeOK
  <2>4. CASE op \notin {"writeR0", "writeR19"}
    <3>1. UNCHANGED <<fhDue, ie1, cmp, lines>>
      BY <1>9, <2>2, <2>4 DEF Executes, Device
    <3> QED  BY <1>1, <2>1, <2>2, <3>1
  <2> QED  BY <2>3, <2>4
<1>10. CASE NextHook
  <2>1. /\ stack # << >> /\ op' = op
        /\ stack' = [stack EXCEPT ![Len(stack)].left = @ - 1]
        /\ UNCHANGED <<cyc, fhDue, frameOrigin, ie1, cmp, lines>>
    BY <1>10 DEF NextHook, HookStopped
  <2>2. Len(stack') = Len(stack)
    BY <2>1 DEF TypeOK
  <2>3. ASSUME NEW i \in 1..Len(stack) PROVE stack'[i].op = stack[i].op
    <3>1. stack[i] \in Frames
      BY <2>3 DEF TypeOK
    <3>2. CASE i = Len(stack)
      BY <2>1, <3>1, <3>2 DEF TypeOK, Frames
    <3>3. CASE i # Len(stack)
      BY <2>1, <2>3, <3>3 DEF TypeOK
    <3> QED  BY <3>2, <3>3
  <2> QED  BY <1>1, <2>1, <2>2, <2>3 DEF NoWriteR9
<1>11. CASE Returns \/ Hijacked
  <2>1. /\ stack # << >> /\ stack' = Pop /\ op' \in {Top.op, "nop"}
        /\ UNCHANGED <<cyc, fhDue, frameOrigin, ie1, cmp, lines>>
    BY <1>11 DEF Returns, Hijacked, HookStopped
  <2>2. /\ Len(stack) \in Nat \ {0} /\ Len(Pop) = Len(stack) - 1
        /\ \A i \in 1..Len(Pop) : Pop[i] = stack[i]
    BY <2>1, PopLen
  <2>3. NoWriteR9'
    BY <2>1, <2>2 DEF NoWriteR9, Top
  <2> QED  BY <1>1, <2>1, <2>3
<1>12. CASE FrameSkipped \/ FrameEnds \/ HandlerEnds \/ RunsAway
            \/ NothingDue \/ BIOSTakes \/ Ended \/ UNCHANGED vars
  BY <1>1, <1>2, <1>12 DEF FrameSkipped, FrameEnds, HandlerEnds, RunsAway,
     NothingDue, BIOSTakes, Ended, vars
<1> QED  BY <1>4, <1>5, <1>6, <1>7, <1>8, <1>9, <1>10, <1>11, <1>12, OpsType
         DEF Next, Fetch, HaltTick

(* A frame that begins makes the schedule: the line is below its first     *)
(* cycle.                                                                  *)
LEMMA FrameArms == ASSUME MainThread, TypeOK, [Next]_vars PROVE FrameArmsLine
<1> SUFFICES ASSUME ctl = "host", ctl' = "step", ie1 PROVE fhDue' # 0
  BY DEF FrameArmsLine
<1>1. FrameStarts
  BY DEF Next, vars, FrameSkipped, FrameEnds, HandlerFrame, HandlerEnds, Fetch,
     Running, HaltTick, RunsAway, NothingDue, BIOSTakes, LateVblank,
     ClockInterrupt, Executes, NextHook, Returns, Hijacked, HookStopped, Ended
<1> DEFINE k == cmp + TotalLines - lines
           d == F \div TotalLines
<1>2. fhDue' = IF cyc + k * d <= cyc THEN 0 ELSE cyc + k * d
  BY <1>1 DEF FrameStarts, RearmLine
<1>3. k \in Nat \ {0}
  BY RasterAssumption DEF TypeOK
<1>4. d \in Nat \ {0}
  BY RasterAssumption
<1>5. k * d \in Nat \ {0}
  <2> HIDE DEF k, d
  <2> QED  BY <1>3, <1>4
<1>6. cyc \in Nat
  BY DEF TypeOK
<1> HIDE DEF k, d
<1> QED  BY <1>2, <1>5, <1>6

(* The schedule is the line's the registers name, before and after every   *)
(* handler and frame, never behind the clock, and each frame makes one:    *)
(* for a main-thread program that does not write R9.  The handler shape's  *)
(* frames are counted from power-on, and make none after the first.        *)
THEOREM LineScheduleKept ==
  ASSUME MainThread, "writeR9" \notin Ops PROVE Spec => LineSchedule
<1>1. Init => ScheduleInv
  BY DEF Init, ScheduleInv, LineNotOverdue, ScheduleNamesLine, NoWriteR9
<1>2. ScheduleInv => LineNotOverdue /\ ScheduleNamesLine
  BY DEF ScheduleInv
<1>3. TypeOK /\ ScheduleInv /\ [Next]_vars => ScheduleInv'
  BY ScheduleStep
<1>4. TypeOK /\ [Next]_vars => FrameArmsLine
  BY FrameArms
<1>5. TypeOK /\ ScheduleInv /\ [Next]_vars
        => [LineNotOverdue' /\ ScheduleNamesLine' /\ FrameArmsLine]_vars
  BY <1>3, <1>4 DEF ScheduleInv
<1> QED  BY <1>1, <1>3, <1>5, TypeCorrect, PTL DEF Spec, LineSchedule

-----------------------------------------------------------------------------
(* Requests.  A line request stands with its enable.  A blank is held over *)
(* from the top of a frame, before the frame has taken any: no deliver     *)
(* that will go back to its instruction unchecked runs while one is late,  *)
(* and the clock, counted from the frame's end, owes none for it.          *)
LineInv == LineRequestStands /\ (owed => ie1)

LateInv ==
  /\ LateBlankStands
  /\ late => \A i \in 1..Len(stack) : stack[i].at # "op"

TakenInv ==
  MainThread =>
    /\ OneInterruptAFrame
    /\ fHeld => taken = 0
    /\ ctl # "host" => /\ lastIRQ >= frameOrigin + F
                       /\ lastIRQ >= frameOrigin + taken * F

RequestInv == LineInv /\ LateInv /\ TakenInv

LEMMA LineStep == TypeOK /\ LineInv /\ [Next]_vars => LineInv'
<1> SUFFICES ASSUME TypeOK, LineInv, [Next]_vars PROVE LineInv'
  OBVIOUS
<1> USE DEF LineInv, LineRequestStands
<1>1. CASE UNCHANGED <<owed, fhHeld, fh, ie1>>
  BY <1>1
<1>2. ASSUME NEW n, NEW o, Tick(n, o) PROVE LineInv'
  <2>1. CASE LineLive(cyc + n) /\ CanTake /\ hooks > 0
    BY <1>2, <2>1 DEF Tick
  <2>2. CASE ~(LineLive(cyc + n) /\ CanTake /\ hooks > 0)
    BY <1>2, <2>2 DEF Tick, LineLive
  <2> QED  BY <2>1, <2>2
<1>3. CASE Executes
  <2>1. fhHeld' = fhHeld
    BY <1>3 DEF Executes
  <2>2. CASE op \in ControlOps
    BY <1>1, <1>3, <2>1, <2>2 DEF Executes
  <2>3. CASE op \notin ControlOps
    <3>1. Device
      BY <1>3, <2>3 DEF Executes
    <3>2. owed' => owed /\ fh' = fh /\ ie1'
      <4>1. CASE op = "readS1"
        BY <3>1, <4>1 DEF Device
      <4>2. CASE op \in {"writeR0", "writeR19"}
        BY <3>1, <4>2 DEF Device
      <4>3. CASE op \in {"readS0", "writeR9", "hook"}
        BY <3>1, <4>3 DEF Device
      <4> QED  BY <3>1, <4>1, <4>2, <4>3 DEF Device
    <3> QED  BY <2>1, <3>2
  <2> QED  BY <2>2, <2>3
<1>4. CASE FrameSkipped \/ FrameStarts \/ FrameEnds \/ HandlerFrame
           \/ HandlerEnds \/ RunsAway \/ NothingDue \/ BIOSTakes \/ LateVblank
           \/ ClockInterrupt \/ NextHook \/ Returns \/ Hijacked \/ Ended
           \/ UNCHANGED vars
  BY <1>1, <1>4 DEF FrameSkipped, FrameStarts, FrameEnds, HandlerFrame,
     HandlerEnds, RunsAway, NothingDue, BIOSTakes, LateVblank, ClockInterrupt,
     NextHook, Returns, Hijacked, Ended, vars
<1> QED  BY <1>2, <1>3, <1>4 DEF Next, Fetch, HaltTick

LEMMA LateStep ==
  TypeOK /\ NestCounts /\ BudgetInv /\ LateInv /\ [Next]_vars => LateInv'
<1> SUFFICES ASSUME TypeOK, NestCounts, BudgetInv, LateInv, [Next]_vars
             PROVE  LateInv'
  OBVIOUS
<1>0. Len(stack) \in Nat
  BY DEF TypeOK
<1>1. ASSUME ~late' PROVE LateInv'
  BY <1>1 DEF LateInv, LateBlankStands
<1>2. ASSUME late' => late /\ f', ctl' # "op", fHeld' = fHeld, stack' = stack
      PROVE  LateInv'
  BY <1>2 DEF LateInv, LateBlankStands
<1>3. ASSUME NEW cont, cont # "op", NEW o, NEW flag, Deliver(cont, o, flag),
             late' => late /\ f', fHeld' = fHeld
      PROVE  LateInv'
  <2> DEFINE fr == [at |-> cont, op |-> o, limit |-> cycLimit, idle |-> idle,
                    pc |-> atSentinel, tail |-> epilogue, left |-> hooks - 1]
             n  == Len(stack)
  <2>1. /\ stack' = Append(stack, fr) /\ Len(stack') = n + 1
        /\ stack'[n + 1] = fr /\ \A i \in 1..n : stack'[i] = stack[i]
        /\ ctl' = "step"
    BY <1>3 DEF Deliver, TypeOK
  <2>2. ASSUME late', NEW i \in 1..n + 1 PROVE stack'[i].at # "op"
    <3>1. CASE i = n + 1
      BY <1>3, <2>1, <3>1
    <3>2. CASE i # n + 1
      BY <1>0, <1>3, <2>1, <2>2, <3>2 DEF LateInv
    <3> QED  BY <3>1, <3>2
  <2> QED  BY <1>3, <2>1, <2>2 DEF LateInv, LateBlankStands
<1>4. CASE FrameStarts
  <2>1. CASE hooks > 0 /\ CanTake
    BY <1>3, <1>4, <2>1 DEF FrameStarts
  <2>2. CASE ~(hooks > 0 /\ CanTake)
    <3>1. stack' = << >>
      BY <1>4, <2>2 DEF FrameStarts, BudgetInv
    <3>2. /\ ctl' = "step" /\ fHeld' = (fHeld \/ hooks > 0)
          /\ late' = ((late \/ hooks > 0) /\ f')
      BY <1>4, <2>2 DEF FrameStarts
    <3>3. \A i \in 1..Len(stack') : stack'[i].at # "op"
      BY <3>1
    <3>4. late' => fHeld' /\ f'
      BY <3>2, Zenon DEF LateInv, LateBlankStands
    <3> QED  BY <3>2, <3>3, <3>4 DEF LateInv, LateBlankStands
  <2> QED  BY <2>1, <2>2
<1>5. ASSUME NEW n, NEW o, Tick(n, o) PROVE LateInv'
  <2>1. CASE LineLive(cyc + n) /\ CanTake /\ hooks > 0
    BY <1>3, <1>5, <2>1 DEF Tick
  <2>2. CASE ~(LineLive(cyc + n) /\ CanTake /\ hooks > 0)
    BY <1>2, <1>5, <2>2 DEF Tick
  <2> QED  BY <2>1, <2>2
<1>6. CASE NothingDue
  <2>1. CASE CanTake
    <3>1. ~HeldLive /\ late' = late
      BY <1>6, <2>1 DEF NothingDue
    <3> QED  BY <1>1, <3>1 DEF HeldLive, LateInv, LateBlankStands
  <2>2. CASE ~CanTake
    <3>1. UNCHANGED <<late, fHeld, f, iff, nest, stack>>
      BY <1>6, <2>2 DEF NothingDue
    <3> QED  BY <2>2, <3>1 DEF CanTake, LateInv, LateBlankStands
  <2> QED  BY <2>1, <2>2
<1>7. CASE BIOSTakes
  <2>1. ~late'
    BY <1>7 DEF BIOSTakes, HeldLive, LateInv, LateBlankStands
  <2> QED  BY <1>1, <2>1
<1>8. CASE LateVblank
  BY <1>1, <1>8 DEF LateVblank
<1>9. CASE ClockInterrupt
  <2>1. ~late'
    BY <1>9 DEF ClockInterrupt, HeldLive, LateInv, LateBlankStands
  <2> QED  BY <1>1, <2>1
<1>10. CASE NextHook
  <2>1. /\ stack # << >> /\ ctl' = "step"
        /\ stack' = [stack EXCEPT ![Len(stack)].left = @ - 1]
        /\ UNCHANGED <<late, fHeld, f>>
    BY <1>10 DEF NextHook, HookStopped
  <2>2. Len(stack') = Len(stack)
    BY <2>1, SMTT(20) DEF TypeOK
  <2>3. ASSUME NEW i \in 1..Len(stack) PROVE stack'[i].at = stack[i].at
    <3>1. stack[i] \in Frames
      BY <2>3 DEF TypeOK
    <3>2. CASE i = Len(stack)
      BY <2>1, <3>1, <3>2 DEF TypeOK, Frames
    <3>3. CASE i # Len(stack)
      BY <2>1, <2>3, <3>3 DEF TypeOK
    <3> QED  BY <3>2, <3>3
  <2> QED  BY <2>1, <2>2, <2>3 DEF LateInv, LateBlankStands
<1>11. CASE Returns \/ Hijacked
  <2>1. /\ stack # << >> /\ stack' = Pop /\ ctl' \in {Top.at, "step", "panic"}
        /\ UNCHANGED <<late, fHeld, f>>
    BY <1>11 DEF Returns, Hijacked, HookStopped, Unwound
  <2>2. /\ Len(stack) \in Nat \ {0} /\ Len(Pop) = Len(stack) - 1
        /\ \A i \in 1..Len(Pop) : Pop[i] = stack[i]
    BY <2>1, PopLen
  <2>3. late => ctl' # "op"
    BY <2>1, <2>2 DEF LateInv, Top
  <2> QED  BY <2>1, <2>2, <2>3 DEF LateInv, LateBlankStands
<1>12. CASE Executes \/ FrameSkipped \/ FrameEnds \/ HandlerFrame
            \/ HandlerEnds \/ RunsAway
  <2>1. late' => late /\ f'
    <3>1. CASE Executes
      BY <3>1 DEF Executes
    <3>2. CASE HandlerFrame
      BY <3>2 DEF HandlerFrame
    <3>3. CASE FrameSkipped \/ FrameEnds \/ HandlerEnds \/ RunsAway
      BY <3>3 DEF FrameSkipped, FrameEnds, HandlerEnds, RunsAway, LateInv,
         LateBlankStands
    <3> QED  BY <1>12, <3>1, <3>2, <3>3
  <2>2. ctl' # "op" /\ fHeld' = fHeld /\ stack' = stack
    BY <1>12 DEF Executes, FrameSkipped, FrameEnds, HandlerFrame, HandlerEnds,
       RunsAway
  <2> QED  BY <1>2, <2>1, <2>2
<1>13. CASE Ended \/ UNCHANGED vars
  <2>1. UNCHANGED vars
    BY <1>13 DEF Ended
  <2> QED  BY <2>1 DEF vars, LateInv, LateBlankStands
<1> QED  BY <1>4, <1>5, <1>6, <1>7, <1>8, <1>9, <1>10, <1>11, <1>12, <1>13
         DEF Next, Fetch, HaltTick

LEMMA NoneOrOne ==
  ASSUME NEW a \in {0, 1}, NEW b \in Nat PROVE a * b \in {0, b}
<1>1. a = 0 \/ a = 1
  OBVIOUS
<1>2. 0 * b = 0 /\ 1 * b = b
  OBVIOUS
<1> QED  BY <1>1, <1>2

LEMMA TakenStep == TypeOK /\ TakenInv /\ [Next]_vars => TakenInv'
<1> SUFFICES ASSUME TypeOK, TakenInv, MainThread, [Next]_vars PROVE TakenInv'
  BY DEF TakenInv
<1>0. /\ F \in Nat \ {0} /\ cyc \in Nat /\ taken \in Nat /\ lastIRQ \in Nat
      /\ frameOrigin \in Nat /\ taken * F \in Nat
      /\ (taken + 1) * F = taken * F + F
      /\ 0 * F = 0 /\ 1 * F = F
  BY RasterAssumption, ProductNat, OneMore DEF TypeOK
<1>1. ASSUME cyc' >= cyc, cyc' \in Nat, ctl' # "host" => ctl # "host",
             UNCHANGED <<taken, frameOrigin>>,
             lastIRQ' >= lastIRQ, lastIRQ' \in Nat, fHeld' => fHeld
      PROVE  TakenInv'
  BY <1>0, <1>1 DEF TakenInv, OneInterruptAFrame
<1>2. CASE FrameStarts
  <2>1. /\ frameOrigin' = cyc /\ cyc' = cyc /\ lastIRQ' = cyc + F
        /\ taken' \in {0, 1} /\ (fHeld' => taken' = 0)
    <3>1. CASE hooks > 0 /\ CanTake
      BY <1>2, <3>1 DEF FrameStarts
    <3>2. CASE ~(hooks > 0 /\ CanTake)
      BY <1>2, <3>2 DEF FrameStarts
    <3> QED  BY <3>1, <3>2
  <2> DEFINE u == taken' * F
  <2>2. u \in {0, F}
    BY <1>0, <2>1, NoneOrOne
  <2> HIDE DEF u
  <2>3. lastIRQ' >= frameOrigin' + F /\ lastIRQ' >= frameOrigin' + u
    BY <1>0, <2>1, <2>2
  <2>4. /\ lastIRQ' >= frameOrigin' + F
        /\ lastIRQ' >= frameOrigin' + taken' * F
    BY <2>3 DEF u
  <2>5. ~(taken' >= 2)
    BY <2>1
  <2> QED  BY <2>1, <2>4, <2>5 DEF TakenInv, OneInterruptAFrame
<1>3. ASSUME NEW n \in Nat, NEW o, ctl = "step", Tick(n, o) PROVE TakenInv'
  <2>1. /\ cyc' = cyc + n /\ UNCHANGED <<taken, frameOrigin, lastIRQ, fHeld>>
    BY <1>3 DEF Tick
  <2> QED  BY <1>0, <1>1, <1>3, <2>1
<1>4. CASE LateVblank
  <2>1. /\ taken = 0 /\ taken' = 1 /\ ~fHeld'
        /\ UNCHANGED <<cyc, frameOrigin, lastIRQ>> /\ ctl = "irq"
    BY <1>0, <1>4 DEF LateVblank, HeldLive, TakenInv
  <2> QED  BY <1>0, <2>1 DEF TakenInv, OneInterruptAFrame
<1>5. CASE ClockInterrupt
  <2>1. /\ taken' = taken + 1 /\ ~fHeld' /\ UNCHANGED <<cyc, frameOrigin>>
        /\ lastIRQ' = NextIRQ /\ cyc - lastIRQ >= F /\ ctl = "irq"
    BY <1>5 DEF ClockInterrupt, ClockDue
  <2>2. lastIRQ' >= lastIRQ + F /\ lastIRQ' \in Nat
    BY <1>0, <2>1 DEF NextIRQ
  <2>3. taken' * F = taken * F + F
    BY <1>0, <2>1
  <2> DEFINE t == taken * F
             u == taken' * F
  <2>4. t \in Nat /\ u = t + F
    BY <1>0, <2>3
  <2>5. lastIRQ >= frameOrigin + F /\ lastIRQ >= frameOrigin + t
    BY <2>1 DEF TakenInv
  <2> HIDE DEF t, u
  <2>6. /\ cyc' >= frameOrigin' + u /\ lastIRQ' >= frameOrigin' + F
        /\ lastIRQ' >= frameOrigin' + u
    BY <1>0, <2>1, <2>2, <2>4, <2>5
  <2> QED  BY <2>1, <2>6 DEF TakenInv, OneInterruptAFrame, u
<1>6. CASE NothingDue \/ RunsAway \/ Executes
  <2>1. ctl # "host" /\ UNCHANGED <<cyc, taken, frameOrigin, lastIRQ>>
    BY <1>6 DEF NothingDue, RunsAway, Executes
  <2>2. fHeld' => fHeld
    BY <1>6, Zenon DEF NothingDue, RunsAway, Executes
  <2> QED  BY <1>0, <1>1, <2>1, <2>2
<1>7. CASE BIOSTakes
  <2>1. /\ ctl # "host" /\ ~fHeld' /\ UNCHANGED <<cyc, taken, frameOrigin>>
        /\ lastIRQ' \in {lastIRQ, lastIRQ + F}
    BY <1>7 DEF BIOSTakes
  <2> QED  BY <1>0, <1>1, <2>1
<1>8. CASE NextHook \/ Returns \/ Hijacked
  <2>1. /\ ctl # "host"
        /\ UNCHANGED <<cyc, taken, frameOrigin, lastIRQ, fHeld>>
    BY <1>8 DEF NextHook, Returns, Hijacked, HookStopped
  <2> QED  BY <1>0, <1>1, <2>1
<1>9. CASE FrameSkipped \/ FrameEnds
  <2>1. /\ ctl' = "host"
        /\ UNCHANGED <<cyc, taken, frameOrigin, lastIRQ, fHeld>>
    BY <1>9 DEF FrameSkipped, FrameEnds
  <2> QED  BY <1>0, <1>1, <2>1
<1>10. CASE Ended \/ UNCHANGED vars
  <2>1. UNCHANGED vars
    BY <1>10 DEF Ended
  <2> QED  BY <2>1 DEF vars, TakenInv, OneInterruptAFrame
<1>11. ~(HandlerFrame \/ HandlerEnds)
  BY DEF HandlerFrame, HandlerEnds
<1> QED  BY <1>2, <1>3, <1>4, <1>5, <1>6, <1>7, <1>8, <1>9, <1>10, <1>11,
            OpsType
         DEF Next, Fetch, HaltTick, Running

(* No request is lost -- a blank that finds interrupts off stays late, a   *)
(* line interrupt that finds them off stays held -- and none is answered   *)
(* twice, however the handlers nest, leave and overrun their frames.       *)
THEOREM NoRequestLostOrDoubled == Spec => []RequestsTakenOnce
<1>1. Init => BudgetInv /\ NestCounts /\ RequestInv
  <2> SUFFICES ASSUME Init PROVE BudgetInv /\ NestCounts /\ RequestInv
    OBVIOUS
  <2>1. BudgetInv /\ NestCounts
    BY LimitAssumption DEF Init, BudgetInv, BudgetIsTheMainThreads, NestCounts
  <2>2. LineInv /\ LateInv /\ TakenInv
    BY DEF Init, LineInv, LineRequestStands, LateInv, LateBlankStands,
       TakenInv, OneInterruptAFrame
  <2> QED  BY <2>1, <2>2 DEF RequestInv
<1>2. TypeOK /\ NestCounts /\ BudgetInv /\ RequestInv /\ [Next]_vars
        => RequestInv'
  BY LineStep, LateStep, TakenStep DEF RequestInv
<1>3. RequestInv => RequestsTakenOnce
  BY DEF RequestInv, LineInv, LateInv, TakenInv, RequestsTakenOnce,
     OneInterruptAFrame
<1> QED  BY <1>1, <1>2, <1>3, TypeCorrect, NestStep, BudgetStep, PTL DEF Spec
=============================================================================
