----------------------------- MODULE Interrupts -----------------------------
(***************************************************************************)
(* The frame clock and the interrupts of the generated machine: boot.go    *)
(* (Frame, mainThreadFrame, runFrame), cycles.go (tick, dueVblank,         *)
(* rearmLine, dueLine, dueIRQ, deliver, runaway) and the stopping rules of *)
(* Interpret in interp.go.                                                 *)
(*                                                                         *)
(* There is one Go thread.  An interrupt is a recursive call made from the *)
(* tick inside an instruction, so the Go call stack is modelled as `stack`,*)
(* one record per deliver that has not returned, and `ctl` says how far    *)
(* the innermost instruction has got.  The cartridge is any program: each  *)
(* instruction is chosen from Ops and costs a number of cycles from Costs. *)
(*                                                                         *)
(* The Z80 stack pointer is kept as `sp`, the number of deliver frames     *)
(* still below it: Len(stack) when every frame is intact, less when the    *)
(* program has popped or abandoned some of them.                           *)
(***************************************************************************)
EXTENDS Integers, Sequences

CONSTANTS
  MainThread,   \* the shape Boot decided: the game loop is INIT itself
  RAMMappers,   \* what hasRAMMapper may answer: TRUE is a disk machine, with the
                \*   BIOS in front of a hook
  F,            \* FrameCycles, the cycles of a frame
  TotalLines,   \* the 262 raster lines of a frame
  Displays,     \* the heights VDP.Lines may have: how many are displayed
  Compares,     \* the values (R19 - R23) & 255 takes
  MaxNest,      \* maxNest
  MaxDebt,      \* maxFrameDebt
  Runaway,      \* FrameRunaway
  Ops,          \* the instructions the program is made of
  Costs,        \* what an instruction may cost
  MaxCyc,       \* bound on the clock
  MaxFrames     \* bound on the calls of Frame

AllOps == {"nop", "ei", "di", "halt", "self", "ret", "unwind", "hijack",
           "readS0", "readS1", "writeR0", "writeR9", "writeR19", "hook"}

ASSUME ShapeAssumption  == MainThread \in BOOLEAN /\ RAMMappers \subseteq BOOLEAN
ASSUME RasterAssumption ==
  /\ TotalLines \in Nat \ {0} /\ Displays \subseteq 1..TotalLines - 1
  /\ F \in Nat /\ F >= TotalLines
  /\ Compares \subseteq Nat
ASSUME LimitAssumption  ==
  MaxNest \in Nat \ {0} /\ MaxDebt \in Nat /\ Runaway \in Nat \ {0}
ASSUME ProgramAssumption ==
  /\ Ops \subseteq AllOps /\ Costs \subseteq Nat \ {0}
  /\ MaxCyc \in Nat /\ MaxFrames \in Nat

VARIABLES
  cyc,          \* Cyc, the clock
  frames,       \* frames, the calls of Frame
  frameOrigin,  \* the cycle this frame began at
  frameDue,     \* when this frame ends on the clock, 0 before the first
  fDue,         \* when the next vertical blank comes due, 0 when unarmed
  lastIRQ,      \* when the clock last took an interrupt
  irqTaken,     \* interrupts taken mid-flight
  frameStart,   \* the runaway guard of the handler shape, 0 when off
  cycLimit,     \* where Interpret stops, 0 for no limit
  fHeld,        \* a vertical blank that found interrupts off
  fhDue,        \* when the line interrupt comes due, 0 when not scheduled
  fhHeld,       \* a line interrupt that found interrupts off
  nest,         \* how deep the machine believes interrupts are stacked
  iff, halted, idle,
  f, fh,        \* the VDP's flags: S#0 bit 7 and S#1 bit 0
  ie1, cmp,     \* register 0 bit 4, and the line (R19 - R23) & 255 names
  lines,        \* VDP.Lines, from register 9
  vframe,       \* VDP.Frame, how often the vertical blank has risen
  hooks,        \* how many interrupt hooks are installed
  ramMapper,    \* hasRAMMapper, settled when the machine is made
  stack,        \* the delivers in progress
  sp,           \* the deliver frames still under the stack pointer
  atSentinel,   \* PC = FFFFh
  epilogue,     \* the thread is a hook that popped its own register frame
  ctl,          \* where the Go code is
  op,           \* the instruction in flight
  skipped,      \* history: Frames skipped in a row to pay an overrun back
  taken,        \* history: vertical-blank interrupts taken this frame, not
                \*   counting one held over from the frame before
  runs,         \* history: vertical-blank interrupts taken in all
  clocked,      \* history: when the clock's own interrupts were taken, in order
  owed,         \* history: a line request nobody has answered or withdrawn
  late          \* history: a vertical blank held, neither taken nor read away

clock  == <<frames, frameOrigin, frameDue, vframe, skipped>>
shape  == <<hooks, ie1, cmp, lines, ramMapper>>
count  == <<taken, runs, clocked>>
thread == <<sp, atSentinel, epilogue, idle, halted>>
calls  == <<stack, nest, cycLimit, iff>>
vars   == <<cyc, clock, fDue, lastIRQ, irqTaken, frameStart, fHeld, fhDue,
            fhHeld, f, fh, shape, thread, calls, ctl, op, count, owed, late>>

(* Where the stack pointer goes when the program loads it afresh: above    *)
(* every frame, and in the handler shape above the mark runFrame ran at.   *)
Floor == IF MainThread THEN 0 ELSE -1

-----------------------------------------------------------------------------
(* Mutants of RearmLine: no check for a line already passed; a line passed *)
(* leaves the old schedule; lines counted from the blank, not the display; *)
(* lines counted back from the blank, which goes below zero.               *)
RearmLineUnchecked(origin, now, enabled, line, shown, was) ==
  IF enabled THEN origin + (line + TotalLines - shown) * (F \div TotalLines)
             ELSE was
RearmLineStale(origin, now, enabled, line, shown, was) ==
  LET due == origin + (line + TotalLines - shown) * (F \div TotalLines)
  IN  IF enabled /\ due > now THEN due ELSE was
RearmLineFromBlank(origin, now, enabled, line, shown, was) ==
  LET due == origin + line * (F \div TotalLines)
  IN  IF ~enabled THEN was ELSE IF due <= now THEN 0 ELSE due
RearmLineBack(origin, now, enabled, line, shown, was) ==
  IF enabled THEN origin + (line - shown) * (F \div TotalLines) ELSE was

(* rearmLine: the cycle the compare will match at, 0 when it has gone by,  *)
(* and whatever was scheduled when the interrupt is not enabled.           *)
RearmLine(origin, now, enabled, line, shown, was) ==
  LET due == origin + (line + TotalLines - shown) * (F \div TotalLines)
  IN  IF ~enabled THEN was ELSE IF due <= now THEN 0 ELSE due

(* Mutant of CanTake: interrupts may stack without limit.                  *)
CanTakeUnlimited == iff

(* Interrupts are on and not stacked as deep as they may be.               *)
CanTake == iff /\ nest < MaxNest

(* deliver, up to the first instruction of the first hook.  `flag` is the  *)
(* vertical-blank flag as it stands; a disk machine's BIOS reads it away   *)
(* on the way to the hook.                                                 *)
Deliver(cont, o, flag) ==
  /\ stack' = Append(stack, [at |-> cont, op |-> o, limit |-> cycLimit,
                             idle |-> idle, pc |-> atSentinel,
                             tail |-> epilogue, left |-> hooks - 1])
  /\ nest' = nest + 1
  /\ iff' = FALSE
  /\ cycLimit' = 0
  /\ f' = (flag /\ ~ramMapper)
  /\ sp' = Len(stack) + 1
  /\ atSentinel' = FALSE /\ epilogue' = FALSE
  /\ idle' = FALSE /\ halted' = FALSE
  /\ ctl' = "step"
  /\ op' = "nop"

-----------------------------------------------------------------------------
(* Mutant of FrameDue: a debt never forgiven.                              *)
FrameDueUncapped == (IF frameDue = 0 THEN cyc ELSE frameDue) + F

(* Frame, for the main-thread shape.  The frame's slice of the clock is    *)
(* granted first, and the debt beyond MaxDebt frames forgiven.             *)
FrameDue ==
  LET due == (IF frameDue = 0 THEN cyc ELSE frameDue) + F
  IN  IF cyc > due + MaxDebt * F THEN cyc - MaxDebt * F ELSE due

(* Mutant of BlankOwed: the frame raises a blank already raised on the     *)
(* clock.                                                                  *)
BlankAlways == TRUE

(* Nobody has reached this boundary yet.                                   *)
BlankOwed == cyc >= fDue

(* An overrun has already spent this frame's time.                         *)
FrameSkipped ==
  /\ MainThread /\ ctl = "host" /\ frames < MaxFrames
  /\ cyc >= FrameDue
  /\ frames' = frames + 1
  /\ frameDue' = FrameDue
  /\ skipped' = skipped + 1
  /\ UNCHANGED <<cyc, frameOrigin, vframe, fDue, lastIRQ, irqTaken,
                 frameStart, fHeld, fhDue, fhHeld, f, fh, shape, thread,
                 calls, ctl, op, count, owed, late>>

FrameStarts ==
  LET flag == f \/ BlankOwed
  IN
  /\ MainThread /\ ctl = "host" /\ frames < MaxFrames
  /\ cyc < FrameDue
  /\ frames' = frames + 1
  /\ frameDue' = FrameDue
  /\ skipped' = 0
  /\ frameOrigin' = cyc
  /\ fDue' = IF BlankOwed THEN cyc + F ELSE fDue
  /\ vframe' = IF BlankOwed THEN vframe + 1 ELSE vframe
  /\ lastIRQ' = cyc + F
  /\ fhDue' = RearmLine(cyc, cyc, ie1, cmp, lines, fhDue)
  /\ \/ /\ hooks > 0 /\ CanTake
        /\ Deliver("frame", "nop", flag)
        /\ taken' = IF fHeld THEN 0 ELSE 1
        /\ runs' = runs + 1
        /\ late' = (late /\ f')
        /\ UNCHANGED fHeld
     \/ /\ ~(hooks > 0 /\ CanTake)
        /\ fHeld' = (fHeld \/ hooks > 0)
        /\ late' = ((late \/ hooks > 0) /\ flag)
        /\ f' = flag
        /\ cycLimit' = cyc + F
        /\ idle' = FALSE /\ halted' = FALSE
        /\ ctl' = "step"
        /\ taken' = 0 /\ UNCHANGED runs
        /\ UNCHANGED <<stack, nest, iff, sp, atSentinel, epilogue, op>>
  /\ UNCHANGED <<cyc, irqTaken, frameStart, fhHeld, fh, shape, clocked, owed>>

(* The main thread has stopped for this frame: its budget is spent, or it  *)
(* has nothing to run.                                                     *)
FrameEnds ==
  /\ MainThread /\ ctl = "step" /\ stack = << >>
  /\ idle \/ cyc >= cycLimit \/ (atSentinel /\ ~halted)
  /\ cycLimit' = 0
  /\ ctl' = "host"
  /\ UNCHANGED <<cyc, clock, fDue, lastIRQ, irqTaken, frameStart, fHeld,
                 fhDue, fhHeld, f, fh, shape, thread, stack, nest, iff, op,
                 count, owed, late>>

-----------------------------------------------------------------------------
(* Mutant of TakenAhead: an interrupt taken mid-flight is not counted.     *)
NeverAhead == FALSE

(* This frame's interrupt was taken inside an overrunning handler.         *)
TakenAhead == irqTaken > 0

(* Frame, for the handler shape: raise the vertical blank and run the      *)
(* handler, unless an overrun already took this frame's interrupt.         *)
HandlerFrame ==
  /\ ~MainThread /\ ctl = "host" /\ frames < MaxFrames
  /\ hooks > 0
  /\ frames' = frames + 1
  /\ vframe' = vframe + 1
  /\ f' = TRUE
  /\ \/ /\ TakenAhead
        /\ irqTaken' = irqTaken - 1
        /\ UNCHANGED <<lastIRQ, frameStart, fhDue, thread, ctl, count>>
     \/ /\ ~TakenAhead
        /\ lastIRQ' = cyc /\ frameStart' = cyc
        /\ fhDue' = RearmLine(frameOrigin, cyc, ie1, cmp, lines, fhDue)
        /\ sp' = 0 /\ atSentinel' = FALSE /\ epilogue' = FALSE
        /\ idle' = FALSE /\ halted' = FALSE
        /\ ctl' = "step"
        /\ runs' = runs + 1 /\ taken' = 1
        /\ UNCHANGED <<irqTaken, clocked>>
  /\ UNCHANGED <<cyc, frameOrigin, frameDue, skipped, fDue, fHeld, fhHeld,
                 fh, shape, calls, op, owed, late>>

(* run has come back, by a ret, a halt, an idle loop, a stack pointer      *)
(* above the mark, or the runaway guard.                                   *)
HandlerEnds ==
  /\ ~MainThread /\ stack = << >>
  /\ \/ ctl = "done"
     \/ ctl = "step" /\ (idle \/ halted \/ atSentinel \/ sp < 0)
  /\ frameStart' = 0
  /\ ctl' = "host"
  /\ UNCHANGED <<cyc, clock, fDue, lastIRQ, irqTaken, fHeld, fhDue, fhHeld,
                 f, fh, shape, thread, calls, op, count, owed, late>>

-----------------------------------------------------------------------------
(* dueLine: the raster has reached the line scheduled.                     *)
Raised(now) == fhDue # 0 /\ now >= fhDue

(* Mutant of LineLive: the request lasts only the moment it is raised.      *)
LineLiveAtOnce(now) == Raised(now) /\ ie1

(* The line interrupt is requested: raised now or held, its flag not read  *)
(* away, and enabled.                                                      *)
LineLive(now) == (fhHeld \/ Raised(now)) /\ (fh \/ Raised(now)) /\ ie1

(* tick, up to dueIRQ: the clock moves, the vertical blank and the line    *)
(* flag rise if they have come due, and the line interrupt is taken if it  *)
(* can be.                                                                 *)
Tick(n, o) ==
  LET now    == cyc + n
      blank  == fDue # 0 /\ now >= fDue
      raised == Raised(now)
      taking == LineLive(now) /\ CanTake /\ hooks > 0
  IN
  /\ now <= MaxCyc
  /\ cyc' = now
  /\ fDue' = IF blank THEN fDue + F ELSE fDue
  /\ vframe' = IF blank THEN vframe + 1 ELSE vframe
  /\ fhDue' = IF raised THEN 0 ELSE fhDue
  /\ fh' = (fh \/ raised)
  /\ owed' = ((owed \/ (raised /\ ie1)) /\ ~taking)
  /\ \/ /\ taking
        /\ fhHeld' = FALSE
        /\ Deliver("irq", o, f \/ blank)
     \/ /\ ~taking
        /\ fhHeld' = LineLive(now)
        /\ f' = (f \/ blank)
        /\ ctl' = "irq" /\ op' = o
        /\ UNCHANGED <<thread, calls>>
  /\ late' = (late /\ f')
  /\ UNCHANGED <<frames, frameOrigin, frameDue, skipped, lastIRQ, irqTaken,
                 frameStart, fHeld, shape, count>>

(* The running context's Interpret has no reason to stop.                  *)
Running ==
  /\ ctl = "step" /\ ~idle /\ ~halted /\ ~atSentinel
  /\ cycLimit # 0 => cyc < cycLimit
  /\ (stack # << >> \/ ~MainThread) => sp >= Len(stack)

Fetch ==
  /\ Running
  /\ \E o \in Ops, n \in Costs : Tick(n, o)

(* The main thread is halted with budget left: time passes.                *)
HaltTick ==
  /\ MainThread /\ ctl = "step" /\ stack = << >>
  /\ halted /\ ~idle /\ cyc < cycLimit
  /\ Tick(1, "wait")

-----------------------------------------------------------------------------
(* dueIRQ.                                                                 *)
(*                                                                         *)
(* Mutants: a guard that is off while interrupts are stacked; a held blank *)
(* taken only when the clock owes one; the unsigned subtraction that       *)
(* underflows while lastIRQ is in the future.                              *)
OverrunUnnested   == frameStart # 0 /\ stack = << >>
                     /\ cyc - frameStart > Runaway * F
HeldLiveOnClock   == fHeld /\ f /\ cyc - lastIRQ >= F
ClockDueUnderflow == cyc < lastIRQ \/ cyc - lastIRQ >= F

Overrun  == frameStart # 0 /\ cyc - frameStart > Runaway * F
HeldLive == fHeld /\ f
ClockDue == cyc - lastIRQ >= F

RunsAway ==
  /\ ctl = "irq" /\ Overrun
  /\ frameStart' = cyc
  /\ ctl' = "done"
  /\ UNCHANGED <<cyc, clock, fDue, lastIRQ, irqTaken, fHeld, fhDue, fhHeld,
                 f, fh, shape, thread, calls, op, count, owed, late>>

NothingDue ==
  /\ ctl = "irq" /\ ~Overrun
  /\ \/ ~CanTake /\ UNCHANGED fHeld
     \/ CanTake /\ hooks > 0 /\ ~HeldLive /\ ~ClockDue /\ fHeld' = FALSE
  /\ ctl' = "op"
  /\ UNCHANGED <<cyc, clock, fDue, lastIRQ, irqTaken, frameStart, fhDue,
                 fhHeld, f, fh, shape, thread, calls, op, count, owed, late>>

(* No hook: the BIOS's own handler reads the flag away.                    *)
BIOSTakes ==
  /\ ctl = "irq" /\ ~Overrun /\ CanTake /\ hooks = 0
  /\ fHeld' = FALSE
  /\ f' = (f /\ ~HeldLive /\ ~ClockDue)
  /\ late' = (late /\ f')
  /\ lastIRQ' = IF ClockDue THEN lastIRQ + F ELSE lastIRQ
  /\ ctl' = "op"
  /\ UNCHANGED <<cyc, clock, fDue, irqTaken, frameStart, fhDue, fhHeld, fh,
                 shape, thread, calls, op, count, owed>>

LateVblank ==
  /\ ctl = "irq" /\ ~Overrun /\ CanTake /\ hooks > 0 /\ HeldLive
  /\ fHeld' = FALSE
  /\ taken' = taken + 1 /\ runs' = runs + 1
  /\ late' = FALSE
  /\ Deliver("op", op, f)
  /\ UNCHANGED <<cyc, clock, fDue, lastIRQ, irqTaken, frameStart, fhDue,
                 fhHeld, fh, shape, clocked, owed>>

(* Mutant of NextIRQ: every interrupt missed is paid back.                 *)
PaidInFull == lastIRQ + F

(* The clock owes the next interrupt a frame on; a disk machine is         *)
(* forgiven the ones that went by meanwhile.                               *)
NextIRQ == IF ramMapper /\ cyc - (lastIRQ + F) >= F THEN cyc ELSE lastIRQ + F

ClockInterrupt ==
  /\ ctl = "irq" /\ ~Overrun /\ CanTake /\ hooks > 0
  /\ ~HeldLive /\ ClockDue
  /\ fHeld' = FALSE
  /\ lastIRQ' = NextIRQ
  /\ irqTaken' = irqTaken + 1
  /\ taken' = taken + 1 /\ runs' = runs + 1
  /\ clocked' = Append(clocked, cyc)
  /\ fhDue' = RearmLine(frameOrigin, cyc, ie1, cmp, lines, fhDue)
  /\ Deliver("op", op, f)
  /\ late' = (late /\ f')
  /\ UNCHANGED <<cyc, clock, fDue, frameStart, fhHeld, fh, shape, owed>>

-----------------------------------------------------------------------------
(* The instruction's own effect, after its tick.  An op without a case     *)
(* touches nothing this module keeps.                                      *)
InHandler == sp = Len(stack) /\ ~epilogue /\ (stack # << >> \/ ~MainThread)

Control ==
  \/ /\ op \in {"nop", "wait"} /\ UNCHANGED <<thread, iff>>
  \/ /\ op \in {"ei", "di"} /\ iff' = (op = "ei") /\ UNCHANGED thread
  \/ /\ op = "halt" /\ halted' = TRUE
     /\ UNCHANGED <<iff, sp, atSentinel, epilogue, idle>>
  \/ /\ op = "self" /\ idle' = TRUE
     /\ UNCHANGED <<iff, sp, atSentinel, epilogue, halted>>
  \/ /\ op = "ret" /\ atSentinel' = (InHandler \/ epilogue)
     /\ UNCHANGED <<iff, sp, epilogue, idle, halted>>
  \/ /\ op = "unwind"
     /\ IF InHandler /\ stack # << >>
        THEN sp' = sp - 1 /\ epilogue' = TRUE
        ELSE UNCHANGED <<sp, epilogue>>
     /\ UNCHANGED <<iff, atSentinel, idle, halted>>
  \/ /\ op = "hijack"
     /\ IF InHandler
        THEN sp' = Floor /\ epilogue' = FALSE
        ELSE UNCHANGED <<sp, epilogue>>
     /\ UNCHANGED <<iff, atSentinel, idle, halted>>

Device ==
  \/ /\ op = "readS0" /\ f' = FALSE
     /\ UNCHANGED <<fh, shape, fhDue, owed>>
  \/ /\ op = "readS1" /\ fh' = FALSE /\ owed' = FALSE
     /\ UNCHANGED <<f, shape, fhDue>>
  \/ /\ op \in {"writeR0", "writeR19"}
     /\ ie1' \in (IF op = "writeR0" THEN BOOLEAN ELSE {ie1})
     /\ cmp' \in (IF op = "writeR0" THEN {cmp} ELSE Compares)
     /\ fhDue' = RearmLine(frameOrigin, cyc, ie1', cmp', lines, fhDue)
     /\ owed' = (owed /\ ie1')
     /\ UNCHANGED <<f, fh, hooks, lines, ramMapper>>
  \/ /\ op = "writeR9" /\ lines' \in Displays
     /\ UNCHANGED <<f, fh, hooks, ie1, cmp, ramMapper, fhDue, owed>>
  \/ /\ op = "hook" /\ hooks' \in 0..2
     /\ UNCHANGED <<f, fh, ie1, cmp, lines, ramMapper, fhDue, owed>>

ControlOps == {"nop", "wait", "ei", "di", "halt", "self", "ret", "unwind",
               "hijack"}

Executes ==
  /\ ctl = "op"
  /\ \/ /\ op \in ControlOps /\ Control
        /\ UNCHANGED <<f, fh, shape, fhDue, owed>>
     \/ /\ op \notin ControlOps /\ Device
        /\ UNCHANGED <<thread, iff>>
  /\ late' = (late /\ f')
  /\ ctl' = "step" /\ op' = "nop"
  /\ UNCHANGED <<cyc, clock, fDue, lastIRQ, irqTaken, frameStart, fHeld,
                 fhHeld, stack, nest, cycLimit, count>>

-----------------------------------------------------------------------------
(* The innermost hook's run has come back to deliver.                      *)
Top == stack[Len(stack)]
Pop == SubSeq(stack, 1, Len(stack) - 1)

(* Mutants: the main thread's budget not put back; the interrupted opcode  *)
(* finished although its thread is gone.                                   *)
NoLimitAfter  == 0
OpcodeFinishes == IF Top.op = "wait" THEN "panic"
                  ELSE IF Top.at = "frame" THEN "step" ELSE Top.at

(* The budget in force once deliver is done: the one it set aside, and in  *)
(* mainThreadFrame the new frame's.                                        *)
LimitAfter == IF Top.at = "frame" THEN frameOrigin + F ELSE Top.limit

(* Whoever called deliver catches the unwind and goes on at an instruction *)
(* boundary -- or, for the halt loop of mainThreadFrame, does not.         *)
Unwound == IF Top.op = "wait" THEN "panic" ELSE "step"

HookStopped ==
  /\ stack # << >>
  /\ \/ ctl = "done"
     \/ ctl = "step" /\ (idle \/ halted \/ atSentinel \/ sp < Len(stack))

NextHook ==
  /\ HookStopped /\ sp >= Len(stack) /\ Top.left > 0
  /\ stack' = [stack EXCEPT ![Len(stack)].left = @ - 1]
  /\ idle' = FALSE /\ halted' = FALSE /\ atSentinel' = FALSE
  /\ ctl' = "step"
  /\ UNCHANGED <<cyc, clock, fDue, lastIRQ, irqTaken, frameStart, fHeld,
                 fhDue, fhHeld, f, fh, shape, sp, epilogue, nest, cycLimit,
                 iff, op, count, owed, late>>

(* deliver puts the interrupted machine back.  Called from the top of the  *)
(* frame, mainThreadFrame goes on to start the main thread's slice.        *)
Returns ==
  LET atTop == Top.at = "frame"
  IN
  /\ HookStopped /\ sp >= Len(stack) /\ Top.left <= 0
  /\ stack' = Pop
  /\ nest' = nest - 1
  /\ iff' = TRUE
  /\ cycLimit' = LimitAfter
  /\ idle' = (Top.idle /\ ~atTop)
  /\ halted' = FALSE
  /\ atSentinel' = Top.pc /\ epilogue' = Top.tail
  /\ sp' = Len(stack) - 1
  /\ ctl' = IF atTop THEN "step" ELSE Top.at
  /\ op' = Top.op
  /\ UNCHANGED <<cyc, clock, fDue, lastIRQ, irqTaken, frameStart, fHeld,
                 fhDue, fhHeld, f, fh, shape, count, owed, late>>

(* The hook did not return: its frame is gone from the stack.  The machine *)
(* is left where the hook went and the interrupted instruction abandoned.  *)
Hijacked ==
  LET atTop == Top.at = "frame"
  IN
  /\ HookStopped /\ sp < Len(stack)
  /\ stack' = Pop
  /\ nest' = nest - 1
  /\ cycLimit' = LimitAfter
  /\ IF atTop THEN idle' = FALSE /\ halted' = FALSE
              ELSE UNCHANGED <<idle, halted>>
  /\ ctl' = Unwound
  /\ op' = "nop"
  /\ UNCHANGED <<cyc, clock, fDue, lastIRQ, irqTaken, frameStart, fHeld,
                 fhDue, fhHeld, f, fh, shape, sp, atSentinel, epilogue, iff,
                 count, owed, late>>

-----------------------------------------------------------------------------
(* The ends of a run: the harness has had its frames, the program is at    *)
(* the bound on the clock, nothing is left to run per frame, or the Go     *)
(* program has died.                                                       *)
Ended ==
  /\ \/ ctl = "host" /\ (frames = MaxFrames \/ (~MainThread /\ hooks = 0))
     \/ ctl = "step" /\ \A n \in Costs : cyc + n > MaxCyc
     \/ ctl = "panic"
  /\ UNCHANGED vars

Init ==
  /\ cyc \in {1, F + 1}
  /\ frames = 0 /\ frameOrigin = 0 /\ frameDue = 0 /\ fDue = 0
  /\ lastIRQ = 0 /\ irqTaken = 0 /\ frameStart = 0 /\ cycLimit = 0
  /\ fHeld = FALSE /\ fhDue = 0 /\ fhHeld = FALSE /\ nest = 0
  /\ iff \in (IF MainThread THEN BOOLEAN ELSE {TRUE})
  /\ halted = FALSE /\ idle = ~MainThread
  /\ f = FALSE /\ fh = FALSE /\ vframe = 0
  /\ ie1 \in BOOLEAN /\ cmp \in Compares /\ lines \in Displays
  /\ hooks \in (IF MainThread THEN 0..2 ELSE 1..2)
  /\ ramMapper \in RAMMappers
  /\ stack = << >> /\ sp = 0 /\ atSentinel = FALSE /\ epilogue = FALSE
  /\ ctl = "host" /\ op = "nop"
  /\ skipped = 0 /\ taken = 0 /\ runs = 0 /\ clocked = << >>
  /\ owed = FALSE /\ late = FALSE

Next ==
  \/ FrameSkipped \/ FrameStarts \/ FrameEnds
  \/ HandlerFrame \/ HandlerEnds
  \/ Fetch \/ HaltTick
  \/ RunsAway \/ NothingDue \/ BIOSTakes \/ LateVblank \/ ClockInterrupt
  \/ Executes
  \/ NextHook \/ Returns \/ Hijacked
  \/ Ended

Spec == Init /\ [][Next]_vars

-----------------------------------------------------------------------------
(* PROPERTIES                                                              *)

Frames == [at : {"frame", "irq", "op"}, op : AllOps \cup {"wait"},
           limit : Nat, idle : BOOLEAN, pc : BOOLEAN, tail : BOOLEAN,
           left : Int]

(* The shape of the state: what every variable ranges over.                *)
TypeOK ==
  /\ cyc \in Nat /\ frames \in Nat /\ frameOrigin \in Nat /\ frameDue \in Nat
  /\ fDue \in Nat /\ lastIRQ \in Nat /\ irqTaken \in Nat
  /\ frameStart \in Nat /\ cycLimit \in Nat /\ fhDue \in Nat
  /\ vframe \in Nat /\ skipped \in Nat /\ taken \in Nat /\ runs \in Nat
  /\ clocked \in Seq(Nat)
  /\ fHeld \in BOOLEAN /\ fhHeld \in BOOLEAN
  /\ owed \in BOOLEAN /\ late \in BOOLEAN
  /\ iff \in BOOLEAN /\ halted \in BOOLEAN /\ idle \in BOOLEAN
  /\ f \in BOOLEAN /\ fh \in BOOLEAN /\ ie1 \in BOOLEAN
  /\ atSentinel \in BOOLEAN /\ epilogue \in BOOLEAN
  /\ cmp \in Compares /\ lines \in Displays /\ hooks \in 0..2
  /\ ramMapper \in BOOLEAN
  /\ nest \in Int /\ sp \in Int /\ stack \in Seq(Frames)
  /\ ctl \in {"host", "step", "irq", "op", "done", "panic"}
  /\ op \in AllOps \cup {"wait"}

(* The nesting deliver counts is the nesting there is, whichever way each  *)
(* handler came back -- returned, unwound, hijacked, abandoned as a        *)
(* runaway -- and never more than maxNest.  A count left too high turns    *)
(* interrupts off for good; one left too low lets the Go stack grow.       *)
NestCounts == nest = Len(stack) /\ nest <= MaxNest

(* The frame's budget is the main thread's alone (mainThreadFrame): no     *)
(* handler runs under a limit, and the main thread, interrupted or not, is *)
(* always under its own frame's.                                           *)
BudgetIsTheMainThreads ==
  IF stack # << >> \/ ctl = "host" THEN cycLimit = 0
  ELSE cycLimit = IF MainThread THEN frameOrigin + F ELSE 0

(* An instruction is finished only on behalf of the thread that began it:  *)
(* once a handler has abandoned the interrupted thread, no opcode of that  *)
(* thread is completed on the new thread's registers (deliver's comment on *)
(* running the old thread's tail).                                         *)
InstructionsHaveAThread == ctl \in {"irq", "op"} => sp >= Len(stack)

(* A vertical blank that found interrupts off is late, not lost: until it  *)
(* is taken or its flag read away it is still requested, and no            *)
(* instruction that could be interrupted runs ahead of it.                 *)
LateBlankStands ==
  late => fHeld /\ f /\ (ctl = "op" => ~(iff /\ nest < MaxNest))

(* A line interrupt that came due while enabled and has been neither taken *)
(* nor withdrawn -- by a read of S#1 or by IE1 -- is still requested,      *)
(* however many handlers and frames have gone by (dueLine).                *)
LineRequestStands == owed => fhHeld /\ fh

(* The line interrupt is never overdue: once the clock has passed the      *)
(* compare the schedule has been cleared.                                  *)
LineNotOverdue == fhDue # 0 => cyc < fhDue

(* While line interrupts are enabled the schedule is for the line the      *)
(* registers name, in this frame (rearmLine).                              *)
ScheduleNamesLine ==
  ie1 /\ fhDue # 0 =>
    fhDue = frameOrigin + (cmp + TotalLines - lines) * (F \div TotalLines)

(* The vertical blank rises no faster than the clock: frame top and tick   *)
(* between them never report the same blank twice (mainThreadFrame).       *)
VblankRate == MainThread => vframe * F <= cyc + F

(* An overrun is paid back in skipped frames, never in more than the cap   *)
(* of maxFrameDebt and the one the boundary itself falls in.               *)
DebtBounded == skipped <= MaxDebt + 1

(* One vertical-blank interrupt a frame, not a burst: a frame takes a      *)
(* further one only when it has itself run on for that many frames' worth  *)
(* of cycles.                                                              *)
OneInterruptAFrame ==
  MainThread /\ taken >= 2 => cyc >= frameOrigin + taken * F

(* On a disk machine a processor that was busy through several vertical    *)
(* blanks has missed them (dueIRQ): the clock never makes up for them with *)
(* interrupts back to back.  Any n of its interrupts span more than n - 2  *)
(* frames, however long interrupts were off, nested, or cut off by the     *)
(* runaway guard, and across the starts of the harness's frames.           *)
NoBurst ==
  ramMapper => \A j, k \in 1..Len(clocked) :
                 j < k => clocked[k] - clocked[j] > (k - j - 1) * F

(* For the handler shape: an interrupt taken inside an overrunning handler *)
(* is one the harness does not deliver again.  Interrupts and frames agree *)
(* but for those taken ahead, and the next handler is not run until every  *)
(* one of those has been paid for with a frame (runFrame).                 *)
InterruptsAreFrames ==
  ~MainThread => /\ runs = frames + irqTaken
                 /\ irqTaken <= (IF runs = 0 THEN 0 ELSE taken - 1)

(* No handler executes past the runaway guard: the clock when an           *)
(* instruction has its effect is inside FrameRunaway frames.               *)
RunawayStops ==
  ctl = "op" /\ frameStart # 0 => cyc - frameStart <= Runaway * F

(* What deliver leaves, whichever way its handler does: the nesting, the   *)
(* budget and the instruction in flight are the interrupted thread's.      *)
HandlersSettle ==
  TypeOK /\ NestCounts /\ BudgetIsTheMainThreads /\ InstructionsHaveAThread

(* An interrupt is neither lost nor raised twice: what was requested       *)
(* stands until it is taken or withdrawn, and a frame takes one.           *)
RequestsTakenOnce == LateBlankStands /\ LineRequestStands /\ OneInterruptAFrame

(* Frames keep pace with the clock: no blank is raised twice, and what an  *)
(* overrun owes is bounded.                                                *)
FramesKeepPace == VblankRate /\ DebtBounded

(* The line schedule is kept: never behind the clock, always for the line  *)
(* the registers name, and made by every frame that starts with line       *)
(* interrupts enabled.                                                     *)
FrameArmsLine == ctl = "host" /\ ctl' = "step" /\ ie1 => fhDue' # 0
LineSchedule == [][LineNotOverdue' /\ ScheduleNamesLine' /\ FrameArmsLine]_vars
=============================================================================
