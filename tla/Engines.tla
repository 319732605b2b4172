------------------------------- MODULE Engines ------------------------------
(* Interpreter and translation, running one another: nolabel.go, the loop  *)
(* and the bridge of interp.go, and the function file.go generates. The Go *)
(* stack is acts, the innermost activation last:                           *)
(*   interp    Interpret, until the stack rises above mark (0: never)      *)
(*   trans     generated code at the label at; was is the runMark it found *)
(*   returned  nobody runs; the machine stands at at                       *)
(* by is who made the call: a frame of the main thread, noLabel, runFrom,  *)
(* bridgeInto. m.pc is where the interpreter is; generated code keeps its  *)
(* place in at and sets m.pc only where the source does.                   *)
EXTENDS Translation, SequencesExt

CONSTANTS Programs, Budgets, FrameBound

VARIABLES program, m, acts, runMark, idle, budget, frame
vars == <<program, m, acts, runMark, idle, budget, frame>>

Sentinel == 65535
Interp(mark, by) == [eng |-> "interp", mark |-> mark, at |-> 0, was |-> 0, by |-> by]
Trans(at, was, by) == [eng |-> "trans", mark |-> 0, at |-> at, was |-> was, by |-> by]
Returned(at) == [eng |-> "returned", mark |-> 0, at |-> at, was |-> 0, by |-> "none"]

Top == Last(acts)
Labels == program.labels
Spent(b) == program.main /\ b = 0
Bridged == \E k \in 1..Len(acts) : acts[k].by = "bridge"   \* bridgeDepth # 0
CanBridge == ~program.stale /\ Labels # {}
(* Every instruction spends the frame's budget; only a main thread has one. *)
OneLess == IF program.main /\ budget > 0 THEN budget - 1 ELSE budget

-----------------------------------------------------------------------------
(* A program is a routine called by runFrom, or a main thread that a frame *)
(* interprets from where it was. level is the mark runFrom is given.       *)

Begun(p) == IF p.main THEN p.machine ELSE Push(p.machine, Sentinel)
Entered(p) ==
  IF p.main THEN <<Interp(0, "frame")>>
  ELSE IF p.stale THEN <<Interp(p.level, "run")>>
  ELSE IF p.machine.pc \in p.labels THEN <<Trans(p.machine.pc, 0, "run")>>
  ELSE <<Trans(p.machine.pc, 0, "run"), Interp(p.level, "noLabel")>>

Init ==
  /\ program \in Programs
  /\ m = Begun(program)
  /\ acts = Entered(program)
  /\ runMark = IF program.main THEN 0 ELSE program.level
  /\ idle \in IF Top.eng = "trans" THEN BOOLEAN ELSE {FALSE}
  /\ budget \in IF program.main THEN Budgets ELSE {0}
  /\ frame = 1

-----------------------------------------------------------------------------
(* The interpreter. *)

StopsAtEnd == idle \/ m.pc = Sentinel \/ Spent(budget)   \* whatever the mark
Stops == \/ idle
         \/ Top.mark # 0 /\ m.sp > Top.mark
         \/ m.pc = Sentinel
         \/ Spent(budget)

(* A call just made, to a label, with budget left to come back in. *)
Bridges(i, n) ==
  /\ i.op = "call" /\ i.end = (m.pc + 3) % 65536
  /\ n.sp = (m.sp + 65534) % 65536
  /\ n.pc >= 16384 /\ ~Spent(OneLess)
  /\ CanBridge /\ n.pc \in Labels

Interpret ==
  /\ Top.eng = "interp" /\ ~Stops
  /\ \E i \in {Decoded(m)} : \E n \in {Performed([m EXCEPT !.pc = i.end], i)} :
       /\ m' = n
       /\ idle' = (SpinsAt(i, m.pc) /\ n.pc = m.pc)
       /\ IF Bridges(i, n)
            THEN acts' = Append(acts, Trans(n.pc, runMark, "bridge")) /\ runMark' = n.sp
            ELSE UNCHANGED <<acts, runMark>>
  /\ budget' = OneLess
  /\ UNCHANGED <<program, frame>>

(* The generated function beneath is left with runFinished, to whoever     *)
(* entered it.                                                             *)
Unwound(n, under, rest) ==
  IF under.by = "bridge" THEN rest ELSE <<Returned(n.pc)>>

InterpretReturns ==
  /\ Top.eng = "interp" /\ Stops /\ Top.by # "frame"
  /\ IF Top.by = "noLabel"
       THEN LET under == Last(Front(acts))
            IN  /\ acts' = Unwound(m, under, Front(Front(acts)))
                /\ runMark' = under.was
       ELSE acts' = <<Returned(m.pc)>> /\ runMark' = 0
  /\ UNCHANGED <<program, m, idle, budget, frame>>

(* The main thread's next frame takes it up again where m.pc says. *)
NextFrame ==
  /\ Top.eng = "interp" /\ Stops /\ Top.by = "frame"
  /\ frame < FrameBound
  /\ frame' = frame + 1 /\ idle' = FALSE /\ budget' \in Budgets
  /\ UNCHANGED <<program, m, acts, runMark>>

-----------------------------------------------------------------------------
(* Generated code: what a statement leaves, and where control goes.        *)

To(n, a) == [m |-> n, go |-> "label", at |-> a]
Out_(n) == [m |-> n, go |-> "out", at |-> n.pc]
Waits(n, a) == [m |-> n, go |-> "idle", at |-> a]
NoLabel(n, a) ==
  [m |-> IF IsBios(n, a) THEN Return(Shim(n, a)) ELSE [n EXCEPT !.pc = a],
   go |-> "interp", at |-> a]
Label(n, a) == IF a \in Labels THEN To(n, a) ELSE NoLabel(n, a)

BailsByMark(n, b) == runMark # 0 /\ n.sp > runMark   \* and not by the budget
RetBail(n, b) == \/ runMark # 0 /\ n.sp > runMark
                 \/ Bridged /\ Spent(b)
Popped_(n, b) == IF n.pc = Sentinel \/ RetBail(n, b) THEN Out_(n) ELSE Label(n, n.pc)
Ret_(n, b) == Popped_(Return(n), b)

(* A jump whose target is known, one whose target is not, and a call. *)
Jump(n, a, b) == IF a < 16384 THEN Ret_(Shim(n, a), b) ELSE Label(n, a)
Dispatch(n, b) ==
  IF n.pc \notin Labels /\ IsBios(n, n.pc) THEN Ret_(Shim(n, n.pc), b) ELSE Label(n, n.pc)
(* Nothing pushed where there is nothing translated to call. *)
CallForgets(n, a, end) ==
  IF a < 16384 THEN Label(Shim(n, a), end)
  ELSE IF a \in Labels THEN To(Push(n, end), a) ELSE NoLabel(n, a)
Call(n, a, end) == IF a < 16384 THEN Label(Shim(n, a), end) ELSE Label(Push(n, end), a)

Statement(i, at, b) ==
  CASE i.op \in {"jp", "jr"} ->
         IF ~Holds(m.f, i.k) THEN Label(m, i.end)
         ELSE IF SpinsAt(i, at) THEN Waits(m, at)
         ELSE IF i.to.kind = "pair" THEN Dispatch([m EXCEPT !.pc = Get16(m, i.to)], b)
         ELSE Jump(m, i.to.n, b)
    [] i.op = "djnz" -> IF m.r["B"] # 1 THEN Jump(LessB(m), i.to.n, b)
                                         ELSE Label(LessB(m), i.end)
    [] i.op = "call" -> IF Holds(m.f, i.k) THEN Call(m, i.to.n, i.end) ELSE Label(m, i.end)
    [] i.op = "ret" -> IF Holds(m.f, i.k) THEN Ret_(m, b) ELSE Label(m, i.end)
    [] OTHER -> Label(Effect(m, i), i.end)

GoesStale(r) ==   \* the flag kept across the hand-over
  CASE r.go = "label" ->
         acts' = [acts EXCEPT ![Len(acts)].at = r.at] /\ UNCHANGED <<runMark, idle>>
    [] r.go = "interp" ->
         acts' = Append(acts, Interp(runMark, "noLabel")) /\ UNCHANGED <<runMark, idle>>
    [] r.go \in {"out", "idle"} ->
         /\ acts' = IF Top.by = "bridge" THEN Front(acts) ELSE <<Returned(r.at)>>
         /\ runMark' = Top.was
         /\ idle' = (idle \/ r.go = "idle")
(* RunAt goes on, hands over to the interpreter, or returns. *)
Goes(r) ==
  CASE r.go = "label" ->
         acts' = [acts EXCEPT ![Len(acts)].at = r.at] /\ UNCHANGED <<runMark, idle>>
    [] r.go = "interp" ->
         acts' = Append(acts, Interp(runMark, "noLabel")) /\ idle' = FALSE /\ UNCHANGED runMark
    [] r.go \in {"out", "idle"} ->
         /\ acts' = IF Top.by = "bridge" THEN Front(acts) ELSE <<Returned(r.at)>>
         /\ runMark' = Top.was
         /\ idle' = (idle \/ r.go = "idle")

RunAt ==
  /\ Top.eng = "trans"
  /\ \E i \in {Translated(m, Top.at)} : \E r \in {Statement(i, Top.at, OneLess)} :
       m' = r.m /\ Goes(r)
  /\ budget' = OneLess
  /\ UNCHANGED <<program, frame>>

(* The last frame, or the routine, is over. *)
Over == \/ Top.eng = "returned"
        \/ Top.by = "frame" /\ Stops /\ frame = FrameBound
Rests == Over /\ UNCHANGED vars

Next == Interpret \/ InterpretReturns \/ NextFrame \/ RunAt \/ Rests
Spec == Init /\ [][Next]_vars
FairSpec == Spec /\ WF_vars(Next)

-----------------------------------------------------------------------------
(* The machine is a record of its parts, and the Go stack is one this code *)
(* can build: a frame or a run at the bottom, and generated code directly  *)
(* under every interpreter that noLabel started (runFrom, bridgeInto).     *)
TypeOK ==
  /\ m.r \in [Registers -> 0..255] /\ m.sp \in 0..65535 /\ m.pc \in 0..65535
  /\ \A a \in DOMAIN m.mem : a \in 0..65535 /\ m.mem[a] \in 0..255
  /\ runMark \in 0..65535 /\ idle \in BOOLEAN /\ frame \in 1..FrameBound
  /\ acts # <<>> /\ acts[1].by \in {"frame", "run", "none"}
  /\ \A k \in 2..Len(acts) :
       /\ acts[k].by = "noLabel" => acts[k].eng = "interp" /\ acts[k - 1].eng = "trans"
       /\ acts[k].by = "bridge" => acts[k].eng = "trans" /\ acts[k - 1].eng = "interp"

(* Whichever engine runs, however the program is cut into translated and   *)
(* untranslated addresses and wherever a frame ends, what the machine goes *)
(* through is the one processor (interp.go:29, nolabel.go:274).            *)
Seen == [m EXCEPT !.pc = IF Top.eng = "interp" THEN m.pc ELSE Top.at]
Z == INSTANCE Z80 WITH cpu <- Seen
ImplementsZ80 == Z!Spec

(* The engines nest only as deep as the program's own calls: each crossing *)
(* from interpreter to translation is made below the level the one before  *)
(* it returns at (bridgeInto's mark, Interpret's stopping rule).           *)
Crossings == {k \in 1..Len(acts) : acts[k].eng = "interp" /\ acts[k].mark # 0}
MarksDescend ==
  /\ \A j, k \in Crossings : j < k => acts[j].mark > acts[k].mark
  /\ Bridged /\ Top.eng = "trans" => \A k \in Crossings : acts[k].mark > runMark

(* runFrom comes back only when the routine has: at its sentinel, above    *)
(* the level it was entered at, or waiting in a jump to itself. Neither an *)
(* idle flag left from before nor a mark taken too late ends it early.     *)
WaitsAt(a) == \E i \in {Decoded([m EXCEPT !.pc = a])} : SpinsAt(i, a)
ComesBackOver ==
  Top.eng = "returned" =>
    WaitsAt(Top.at) \/ Top.at = Sentinel \/ m.sp > program.level

(* So what crosses between the engines comes back where it should.         *)
CallsComeBack == TypeOK /\ MarksDescend /\ ComesBackOver

(* Every routine that ends, ends: no hand-over between the engines loses   *)
(* the way back.                                                           *)
Returns == ~program.main ~> Top.eng = "returned"

(* A frame's budget gone, the frame ends, however deep the engines are in  *)
(* one another: a bridged routine hands back at its next ret (retBail).    *)
FramesEnd == \A k \in 1..FrameBound : (frame = k /\ program.main) ~> (frame > k \/ Over)

(* The two together: nothing is stuck between the engines.                 *)
NobodyStuck == Returns /\ FramesEnd
=============================================================================
