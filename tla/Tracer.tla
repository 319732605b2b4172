------------------------------- MODULE Tracer -------------------------------
(***************************************************************************)
(* The tracer, internal/trace: which bytes of a cartridge are code.  It    *)
(* descends from the entry points under every paging it can work out,      *)
(* carrying constant-or-unknown registers (TracerStep), runs again while   *)
(* that finds dispatchers or bank shadows (Trace), and once more for every *)
(* place the running cartridge went that it had not (discover).            *)
(*                                                                         *)
(* An instruction, and a word of a table, is one cell of the image: two    *)
(* instructions do not overlap.  Reports that nothing reads (references,   *)
(* ports, reasons) are left out.                                           *)
(***************************************************************************)
EXTENDS TracerStep, FiniteSets

CONSTANTS
  Images,           \* the cartridges
  CellAt(_, _),     \* what an image holds at an offset
  Cells, BankCells, \* how long an image is, and a bank
  Pages,            \* Mapper.Pages: the registers, [lo, hi) of each
  Initial,          \* Mapper.Initial
  Selects,          \* Mapper.Switches: the addresses, [lo, hi), of the pages' registers
  RamFrom,          \* 8000h, where RAM may begin
  HookArea,         \* where a hook's address is written
  Entries, Tables,  \* what the header and the config declare
  ForceData,        \* Config.ForceData
  StopAfterCall,    \* Config.StopAfterCall
  MaxStates,        \* maxStates
  Reports,          \* the places the generated program may report
  Rounds, Traces, Discoveries,  \* 8 and 12 rounds, and -rounds
  Junk              \* what the program may hold where the tracer knows nothing

NBanks == Cells \div BankCells
Pagings == [DOMAIN Pages -> 0..NBanks - 1]

ASSUME TracerAssumption ==
  /\ Cells \in Nat /\ BankCells \in Nat \ {0} /\ Cells >= BankCells
  /\ MaxStates \in Nat /\ Rounds \in Nat /\ Traces \in Nat \ {0}
  /\ Discoveries \in Nat

(* The pages are in the processor's space, and some have a register; what  *)
(* is declared, and what the program reports, is an address and a paging   *)
(* the mapper has.                                                         *)
ASSUME MapperAssumption ==
  /\ DOMAIN Pages \subseteq Nat /\ DOMAIN Selects \subseteq DOMAIN Pages
  /\ \A i \in DOMAIN Pages : /\ Pages[i][1] \in Nat /\ Pages[i][2] \in Nat
                            /\ Pages[i][2] <= ByteSize * ByteSize
  /\ RamFrom \in Nat /\ Initial \in Pagings
  /\ Entries \in Seq(Nat) /\ Tables \in Seq([addr : Nat, count : Nat])
  /\ \A site \in Reports : site \in [addr : Nat, banks : Pagings]
  /\ Junk \subseteq Nat
  /\ \A img \in Images, off \in 0..Cells - 1 : WellFormed(CellAt(img, off))

VARIABLES
  image,
  dispatchers,   \* Trace's found
  shadowMap,     \* and its shadows: the page of each RAM byte that is one
  sites,         \* the sites file
  rounds,        \* the traces since the last site, and the decisions of one
  t,             \* Tracer and Result
  here,          \* the state walk is at, or Nowhere
  cpu,           \* what the program would hold there (NeverInvents)
  phase,
  turn           \* flips at every step, for the fairness

vars == <<image, dispatchers, shadowMap, sites, rounds, t, here, cpu, phase, turn>>

Nowhere == [none |-> TRUE]
Mask(b) == b % NBanks
Within(range, a) == range[1] <= a /\ a < range[2]
PageOf(a) == IF \E i \in DOMAIN Pages : Within(Pages[i], a)
             THEN CHOOSE i \in DOMAIN Pages : Within(Pages[i], a) ELSE -1
SwitchPage(a) == IF \E i \in DOMAIN Selects : Within(Selects[i], a)
                 THEN CHOOSE i \in DOMAIN Selects : Within(Selects[i], a) ELSE -1

NoMap == [a \in {} |-> -1]
With(f, a, v) == [x \in DOMAIN f \cup {a} |-> IF x = a THEN v ELSE f[x]]

Offset(banks, a) ==
  LET off == Mask(banks[PageOf(a)]) * BankCells + (a - Pages[PageOf(a)][1])
  IN  IF PageOf(a) = -1 \/ off >= Cells THEN -1 ELSE off
Cell(banks, a) == CellAt(image, Offset(banks, a))
Refused(banks, a) == Offset(banks, a) = -1 \/ a \in ForceData

(* A word cell read as an address; what else is there, and what is outside *)
(* the image, is no address.                                               *)
WordAt(banks, a) ==
  IF Offset(banks, a) # -1 /\ Cell(banks, a).op = "Word" THEN Cell(banks, a).n ELSE -1

-----------------------------------------------------------------------------
(* The queue. *)

Key(w) == [addr |-> w.addr, banks |-> w.banks, shadows |-> w.shadows, acc |-> w.regs.r["A"].v]
Work(a, banks, shadows, regs) ==
  [addr |-> a, banks |-> banks, shadows |-> shadows, regs |-> regs]

(* Mutant of Enqueue: an address outside the image is queued. *)
EnqueueUnmapped(s, w) == IF Key(w) \in s.visit THEN s ELSE [s EXCEPT !.queue = Append(@, w)]

Enqueue(s, w) == IF Refused(w.banks, w.addr) \/ Key(w) \in s.visit
                 THEN s ELSE [s EXCEPT !.queue = Append(@, w)]
EnqueueAll(s, ws) ==
  LET after[i \in 0..Len(ws)] == IF i = 0 THEN s ELSE Enqueue(after[i - 1], ws[i])
  IN  after[Len(ws)]

(* Mutant of Visited: the state is not kept. *)
VisitedUnkept(s, w) == s
Visited(s, w) == [s EXCEPT !.visit = @ \cup {Key(w)}]

Blank == [queue |-> <<>>, visit |-> {}, code |-> {}, pointers |-> {}, logical |-> NoMap,
          calls |-> {}, jumps |-> {}, candidates |-> <<>>, pushed |-> {}, rejected |-> {},
          tables |-> {}, stops |-> {}, unresolved |-> {}, restores |-> {},
          notes |-> NoMap, recent |-> <<>>, shadows |-> NoMap, overflowed |-> FALSE]

FromNothing(a, banks) == Work(a, banks, [x \in DOMAIN shadowMap |-> Unknown], NewRegs)

(* declaredTable: a table the config names, its words queued; what is no  *)
(* address is in no page.                                                  *)
DeclaredTable(s, spec) ==
  LET offsets == {Offset(Initial, spec.addr + i) : i \in 0..spec.count - 1} \ {-1}
      read == [i \in 1..spec.count |-> FromNothing(WordAt(Initial, spec.addr + i - 1), Initial)]
  IN  EnqueueAll([s EXCEPT !.pointers = @ \cup offsets], read)

DeclaredTables(s) ==
  LET after[i \in 0..Len(Tables)] == IF i = 0 THEN s ELSE DeclaredTable(after[i - 1], Tables[i])
  IN  after[Len(Tables)]

(* Run begins: the entries, the sites, the declared tables. *)
Begun(extra) ==
  LET roots == [i \in 1..Len(Entries) |-> FromNothing(Entries[i], Initial)]
      found == [i \in 1..Len(extra) |-> FromNothing(extra[i].addr, extra[i].banks)]
  IN  DeclaredTables(EnqueueAll(EnqueueAll(Blank, roots), found))

-----------------------------------------------------------------------------
(* Bank shadows, banks.go. *)

Note(s, a) == IF a \in DOMAIN s.notes THEN s.notes[a] ELSE [readAs |-> -1, writtenAs |-> -1]

(* confirmShadow: believed once seen from both sides. *)
Confirmed(s, a, page) ==
  IF Note(s, a).readAs = page /\ Note(s, a).writtenAs = page
       /\ a \notin DOMAIN shadowMap /\ a \notin DOMAIN s.shadows
  THEN [s EXCEPT !.shadows = With(@, a, page)] ELSE s

Noted(s, a, n) == [s EXCEPT !.notes = With(@, a, n)]
IfUnset(old, page) == IF old < 0 THEN page ELSE old

NoteSource(s, src, page) ==
  IF src = Nosrc \/ src \in DOMAIN shadowMap \/ PageOf(src) >= 0 \/ src < RamFrom
  THEN s
  ELSE Confirmed(Noted(s, src, [Note(s, src) EXCEPT !.readAs = IfUnset(@, page)]), src, page)

NoteWritten(s, a, page) ==
  Confirmed(Noted(s, a, [Note(s, a) EXCEPT !.writtenAs = IfUnset(@, page)]), a, page)

(* noteStore: a bank register and a RAM byte that were given one value     *)
(* within six stores of each other.                                        *)
Last6(q) == SubSeq(q, Len(q) - Lesser(Len(q), 6) + 1, Len(q))
Paired(s, prev, st, page) ==
  CASE prev.v = st.v /\ page >= 0 /\ prev.page < 0 -> NoteWritten(s, prev.at, page)
    [] prev.v = st.v /\ page < 0 /\ prev.page >= 0 -> NoteWritten(s, st.at, prev.page)
    [] OTHER -> s
AllPaired(s, st, page) ==
  LET after[i \in 0..Len(s.recent)] ==
        IF i = 0 THEN s ELSE Paired(after[i - 1], s.recent[i], st, page)
  IN  after[Len(s.recent)]
NoteStore(s, st, page) ==
  IF st.v = Unknown THEN s
  ELSE [AllPaired(s, st, page) EXCEPT
          !.recent = Last6(Append(@, [at |-> st.at, v |-> st.v, page |-> page]))]

Masked(v) == IF v = Unknown THEN Unknown ELSE Mask(v)
Restores(src, page) == src \in DOMAIN shadowMap /\ shadowMap[src] = page

(* Mutant of Switched: a switch to an unknown bank leaves the old one.     *)
SwitchedOnwards(w, st, page) ==
  IF st.v # Unknown THEN [w EXCEPT !.banks[page] = Mask(st.v)] ELSE w

(* A bank switch; a restore from the page's shadow; a switch of which      *)
(* nothing is known, which ends the walk.                                  *)
Switched(w, st, page) ==
  CASE st.v # Unknown -> [w EXCEPT !.banks[page] = Mask(st.v)]
    [] st.v = Unknown /\ Restores(st.src, page) ->
         [w EXCEPT !.t.restores = @ \cup {w.addr}, !.banks[page] = w.entry[page]]
    [] OTHER -> [w EXCEPT !.t.unresolved = @ \cup {w.addr}, !.stop = TRUE]

(* applyStores, one store.                                                 *)
ApplyStore(w, st) ==
  LET page == SwitchPage(st.at)
      heard == [w EXCEPT !.t = NoteStore(@, st, page)]
  IN  CASE page >= 0 -> Switched([heard EXCEPT !.t = NoteSource(@, st.src, page)], st, page)
        [] page < 0 /\ st.at \in DOMAIN shadowMap ->
             [heard EXCEPT !.shadows[st.at] = Masked(st.v)]
        [] OTHER -> heard

-----------------------------------------------------------------------------
(* What one decoded instruction adds to the search. *)

Mark(s, off, a) ==
  [s EXCEPT !.code = @ \cup {off}, !.pointers = @ \ {off},
            !.logical = IF off \in DOMAIN @ THEN @ ELSE With(@, off, a)]

(* pushedReturn: ld rr,nn before push rr, perhaps a return address.        *)
PushedReturn(s, w, ins) ==
  LET next == w.addr + 1
      pushes == Offset(w.banks, next) # -1 /\ Cell(w.banks, next).op = "Push"
                  /\ Cell(w.banks, next).p = ins.p
  IN  IF ins.op = "LdPN" /\ pushes /\ Offset(w.banks, ins.n) # -1
      THEN [s EXCEPT !.candidates =
              Append(@, [push |-> next, work |-> Work(ins.n, w.banks, w.shadows, w.regs)])]
      ELSE s

(* installedHook: an address written into the interrupt's hooks.           *)
InstalledHook(s, w, ins) ==
  IF ins.op = "StMHL" /\ ins.n \in HookArea /\ PairOf(w.regs, "HL") # Unknown
  THEN Enqueue(s, Work(PairOf(w.regs, "HL"), w.banks, w.shadows, w.regs)) ELSE s

(* inlineTable: how many words from an address on are its table.  It ends  *)
(* at code, at no address of the image, at its own lowest handler, at      *)
(* another page's address.                                                 *)
TableLength(s, banks, at) ==
  LET fits(i) == LET a == at + i IN
        /\ Offset(banks, a) # -1
        /\ i > 0 => Offset(banks, a) \notin s.code
        /\ WordAt(banks, a) # -1 /\ Offset(banks, WordAt(banks, a)) # -1
        /\ PageOf(WordAt(banks, a)) = PageOf(WordAt(banks, at))
        /\ \A j \in 0..i - 1 : LET h == WordAt(banks, at + j) IN h <= at \/ a < h
  IN  CHOOSE n \in 0..ByteSize * ByteSize : ~fits(n) /\ \A i \in 0..n - 1 : fits(i)

(* The n words are queued, and are no code.                                *)
InlineTable(s, w, at, n) ==
  LET words == [i \in 1..n |-> Work(WordAt(w.banks, at + i - 1), w.banks, w.shadows, w.regs)]
      offsets == {Offset(w.banks, at + i) : i \in 0..n - 1}
  IN  IF n = 0 THEN s
      ELSE EnqueueAll([s EXCEPT !.tables = @ \cup {[at |-> at, banks |-> w.banks, count |-> n]},
                                !.pointers = @ \cup offsets, !.code = @ \ offsets],
                      words)

(* The calls and jumps of walk: the target is noted and queued. *)
Targets(s, w, ins) ==
  CASE ins.op = "Call" ->
         [Enqueue(s, Work(ins.n, w.banks, w.shadows, w.regs)) EXCEPT !.calls = @ \cup {ins.n}]
    [] ins.op \in {"Jp", "Djnz"} ->
         [Enqueue(s, Work(ins.n, w.banks, w.shadows, w.regs)) EXCEPT !.jumps = @ \cup {ins.n}]
    [] ins.op = "Rst" -> [s EXCEPT !.calls = @ \cup {ins.n}]
    [] OTHER -> s

Returnless(ins) == ins.op = "Call" /\ ins.n \in StopAfterCall
Dispatches(ins) == ins.op = "Call" /\ ins.n \in dispatchers

(* The walk goes on at an address, or ends. *)
On(x, s, a) == [t |-> s, here |-> [addr |-> a, banks |-> x.banks, shadows |-> x.shadows,
                                   regs |-> x.regs, entry |-> x.entry]]
Over(s) == [t |-> s, here |-> Nowhere]

PastTable(x, s, n) == On(x, InlineTable(s, x, x.addr + 1, n), x.addr + 1 + n)

(* walk, after the instruction's stores: where it goes and what it queues. *)
Left(x, ins) ==
  CASE x.stop -> Over(x.t)
    [] ~x.stop /\ Dispatches(ins) ->
         PastTable(x, Targets(x.t, x, ins), TableLength(Targets(x.t, x, ins), x.banks, x.addr + 1))
    [] ~x.stop /\ ~Dispatches(ins) /\ FallsThrough(ins) /\ ~Returnless(ins) ->
         On(x, Targets(x.t, x, ins), x.addr + 1)
    [] OTHER -> Over(Targets(x.t, x, ins))

Carried(w, s, regs) ==
  [addr |-> w.addr, entry |-> w.entry, banks |-> w.banks, shadows |-> w.shadows,
   regs |-> regs, t |-> s, stop |-> FALSE]
Stored(x, stores) ==
  LET after[i \in 0..Len(stores)] == IF i = 0 THEN x ELSE ApplyStore(after[i - 1], stores[i])
  IN  after[Len(stores)]
Hooked(x, ins) == [x EXCEPT !.t = InstalledHook(@, x, ins)]

(* walk, from the decoded instruction to the end of its turn. *)
Walked(w, ins) ==
  LET read == PushedReturn(Mark(Visited(t, w), Offset(w.banks, w.addr), w.addr), w, ins)
      carried == Carried(w, read, RegsAfter(w.regs, ins, w.shadows))
  IN  Left(Hooked(Stored(carried, StoresOf(w.regs, ins)), ins), ins)

-----------------------------------------------------------------------------
(* The program beside the walk: what it holds at the state the walk takes  *)
(* up. What is unknown is junk, but a shadow the path does not know, and a *)
(* value loaded from one, is the bank in its page as the path begins: so   *)
(* banks.go:23 takes the program to keep its shadows.                      *)
Beside(w, junk) ==
  LET held(x) == CASE x.v # Unknown -> x.v
                   [] x.v = Unknown /\ x.src \in DOMAIN shadowMap -> w.banks[shadowMap[x.src]]
                   [] OTHER -> junk
  IN  [r |-> [k \in RegNames |-> held(w.regs.r[k])],
       stack |-> [i \in DOMAIN w.regs.stk |-> <<held(w.regs.stk[i][1]), held(w.regs.stk[i][2])>>],
       mem |-> [a \in DOMAIN shadowMap |-> held(Value(w.shadows[a], a))],
       banks |-> w.banks, junk |-> junk, keeps |-> TRUE]

(* keeps: the program has been what the tracer takes it to be. What it has *)
(* put in a shadow is a bank that the walk knows; a store at an address    *)
(* the walk does not know has been to no bank register and no shadow; and  *)
(* of the registers loaded by ix and iy, of which step.go:53 forgets A     *)
(* alone, there has been no other.                                         *)
Keeps(stores, writes, ins) ==
  /\ \A i \in DOMAIN stores : stores[i].at \in DOMAIN shadowMap => stores[i].v \in 0..NBanks - 1
  /\ stores = <<>> => \A i \in DOMAIN writes : /\ writes[i].at \notin DOMAIN shadowMap
                                              /\ SwitchPage(writes[i].at) = -1
  /\ ins.op = "LdRIndex" => ins.r = "A"

Paged(banks, write) ==
  IF SwitchPage(write.at) >= 0 THEN [banks EXCEPT ![SwitchPage(write.at)] = Mask(write.v)]
  ELSE banks
Repaged(banks, writes) ==
  LET after[i \in 0..Len(writes)] == IF i = 0 THEN banks ELSE Paged(after[i - 1], writes[i])
  IN  after[Len(writes)]
Ran(c, w, ins) ==
  [Exec(c, ins) EXCEPT !.banks = Repaged(@, Writes(c, ins)),
                       !.keeps = @ /\ Keeps(StoresOf(w.regs, ins), Writes(c, ins), ins)]

-----------------------------------------------------------------------------
Init ==
  /\ image \in Images
  /\ dispatchers = {} /\ shadowMap = NoMap /\ sites = {}
  /\ rounds = [run |-> 0, trace |-> 1, found |-> 1]
  /\ t = Begun(<<>>)
  /\ here = Nowhere /\ cpu = Nowhere /\ phase = "run" /\ turn = FALSE

(* Run takes the last state queued. *)
Take(junk) ==
  /\ phase = "run" /\ here = Nowhere /\ t.queue # <<>>
  /\ LET w == t.queue[Len(t.queue)] IN
       /\ here' = [addr |-> w.addr, banks |-> w.banks, shadows |-> w.shadows,
                   regs |-> w.regs, entry |-> w.banks]
       /\ cpu' = Beside(w, junk)
  /\ t' = [t EXCEPT !.queue = SubSeq(@, 1, Len(@) - 1)]
  /\ turn' = ~turn
  /\ UNCHANGED <<image, dispatchers, shadowMap, sites, rounds, phase>>

Walking == phase = "run" /\ here # Nowhere
Ends(result) ==
  /\ t' = result /\ here' = Nowhere /\ cpu' = Nowhere
  /\ turn' = ~turn
  /\ UNCHANGED <<image, dispatchers, shadowMap, sites, rounds, phase>>

Full == Cardinality(t.visit) > MaxStates
(* Mutant of Known: an address walked under one paging is known under all. *)
KnownUnderAny == Refused(here.banks, here.addr) \/ \E s \in t.visit : s.addr = here.addr
Known == Key(here) \in t.visit \/ Refused(here.banks, here.addr)
Padding == Cell(here.banks, here.addr).op = "Pad"

Overflow == Walking /\ Full /\ Ends([t EXCEPT !.overflowed = TRUE])
Arrive == Walking /\ ~Full /\ Known /\ Ends(t)
StopAtPadding ==
  /\ Walking /\ ~Full /\ ~Known /\ Padding
  /\ Ends([Visited(t, here) EXCEPT !.stops = @ \cup {here.addr}])

Walk ==
  /\ Walking /\ ~Full /\ ~Known /\ ~Padding
  /\ \E result \in {Walked(here, Cell(here.banks, here.addr))} :
       /\ t' = result.t /\ here' = result.here
       /\ cpu' = IF result.here = Nowhere THEN Nowhere
                 ELSE Ran(cpu, here, Cell(here.banks, here.addr))
  /\ turn' = ~turn
  /\ UNCHANGED <<image, dispatchers, shadowMap, sites, rounds, phase>>

EntryPoint(s, a) == a \in s.calls \/ a \in s.jumps

(* decideCandidates: a push nothing jumps or calls to pushed a return      *)
(* address.                                                                *)
Decided(s, c) ==
  IF EntryPoint(s, c.push) THEN [s EXCEPT !.rejected = @ \cup {c.work.addr}]
  ELSE Enqueue([s EXCEPT !.pushed = @ \cup {c.work.addr}], c.work)

AllDecided ==
  LET after[i \in 0..Len(t.candidates)] ==
        IF i = 0 THEN [t EXCEPT !.candidates = <<>>] ELSE Decided(after[i - 1], t.candidates[i])
  IN  after[Len(t.candidates)]

Decide ==
  /\ phase = "run" /\ here = Nowhere /\ t.queue = <<>>
  /\ \E decided \in {AllDecided} :
       LET again == decided.pushed # t.pushed /\ decided.queue # <<>>
       IN  /\ t' = IF rounds.run >= Rounds THEN t ELSE decided
           /\ phase' = IF rounds.run < Rounds /\ again THEN "run" ELSE "traced"
  /\ rounds' = [rounds EXCEPT !.run = @ + 1]
  /\ turn' = ~turn
  /\ UNCHANGED <<image, dispatchers, shadowMap, sites, here, cpu>>

(* LooksLikeInlineDispatcher: pop hl with no push outstanding, on the way  *)
(* from the entry to jp (hl).                                              *)
Look(s, ins) ==
  CASE ins.op = "Push" -> [s EXCEPT !.addr = @ + 1, !.pushes = @ + 1]
    [] ins.op = "Pop" /\ s.pushes = 0 -> [s EXCEPT !.addr = @ + 1, !.popped = @ \/ ins.p = "HL"]
    [] ins.op = "Pop" /\ s.pushes > 0 -> [s EXCEPT !.addr = @ + 1, !.pushes = @ - 1]
    [] ins.op = "JpHL" -> [s EXCEPT !.verdict = IF s.popped /\ s.pushes = 0 THEN "yes" ELSE "no"]
    [] ins.op = "Ret" -> [s EXCEPT !.verdict = "no"]
    [] ins.op = "Jp" /\ ~ins.cond -> [s EXCEPT !.addr = ins.n]
    [] OTHER -> [s EXCEPT !.addr = @ + 1]
Looked(s) ==
  CASE s.verdict # "open" -> s
    [] s.verdict = "open" /\ Offset(Initial, s.addr) = -1 -> [s EXCEPT !.verdict = "no"]
    [] OTHER -> Look(s, Cell(Initial, s.addr))

LooksLikeDispatcher(entry) ==
  LET start == [addr |-> entry, popped |-> FALSE, pushes |-> 0, verdict |-> "open"]
      after[i \in 0..16] == IF i = 0 THEN start ELSE Looked(after[i - 1])
  IN  Offset(Initial, entry) # -1 /\ after[16].verdict = "yes"

(* Trace: again while dispatchers or shadows were found. *)
Settle ==
  /\ phase = "traced"
  /\ dispatchers' = dispatchers \cup {a \in t.calls : LooksLikeDispatcher(a)}
  /\ shadowMap' = [a \in DOMAIN shadowMap \cup DOMAIN t.shadows |->
                    IF a \in DOMAIN shadowMap THEN shadowMap[a] ELSE t.shadows[a]]
  /\ LET grew == dispatchers' # dispatchers \/ shadowMap' # shadowMap
         again == grew /\ rounds.trace < Traces
     IN  /\ phase' = IF again THEN "restart" ELSE "generated"
         /\ rounds' = [rounds EXCEPT !.run = 0, !.trace = IF again THEN @ + 1 ELSE @]
  /\ turn' = ~turn
  /\ UNCHANGED <<image, sites, t, here, cpu>>

(* The sites file is in the order of its addresses. *)
ReadSites ==
  {q \in [1..Cardinality(sites) -> sites] :
     /\ \A site \in sites : \E i \in DOMAIN q : q[i] = site
     /\ \A i, j \in DOMAIN q : i < j => q[i].addr <= q[j].addr}
AddSite(site) == sites' = sites \cup {site}

Restart ==
  /\ phase = "restart"
  /\ \E extra \in ReadSites : t' = Begun(extra)
  /\ phase' = "run"
  /\ turn' = ~turn
  /\ UNCHANGED <<image, dispatchers, shadowMap, sites, rounds, here, cpu>>

(* discover: the generated program ran into an address it has no code for: *)
(* one a run, where the file of a real run may name several.               *)
(* A site the file already has is one the trace refuses; the last round's  *)
(* sites are not traced.                                                   *)
Discover(site) ==
  /\ phase = "generated" /\ PageOf(site.addr) # -1
  /\ Offset(site.banks, site.addr) \notin DOMAIN t.logical
  /\ IF site \in sites THEN phase' = "refused" /\ UNCHANGED <<dispatchers, shadowMap, sites, rounds>>
     ELSE /\ phase' = IF rounds.found < Discoveries THEN "restart" ELSE "gave up"
          /\ AddSite(site) /\ dispatchers' = {} /\ shadowMap' = NoMap
          /\ rounds' = [run |-> 0, trace |-> 1, found |-> rounds.found + 1]
  /\ turn' = ~turn
  /\ UNCHANGED <<image, t, here, cpu>>

(* The program ran without reaching one. *)
Converge ==
  /\ phase = "generated" /\ phase' = "converged"
  /\ turn' = ~turn
  /\ UNCHANGED <<image, dispatchers, shadowMap, sites, rounds, t, here, cpu>>

Ended == phase \in {"converged", "refused", "gave up"}

Next ==
  \/ \E junk \in Junk : Take(junk)
  \/ Overflow \/ Arrive \/ StopAtPadding \/ Walk
  \/ Decide \/ Settle \/ Restart
  \/ \E site \in Reports : Discover(site)
  \/ Converge

(* The tool is one thread that goes on until it has ended: a step is       *)
(* possible until then, and every step is a turn.                          *)
Goes == ~Ended /\ turn' = ~turn
Spec == Init /\ [][Next]_vars /\ WF_turn(Goes)

-----------------------------------------------------------------------------
(* Every state is one of an address of the image, and every walk is at a   *)
(* paging the mapper has (trace.go).                                       *)
TypeOK ==
  /\ phase \in {"run", "traced", "restart", "generated", "refused", "gave up", "converged"}
  /\ \A i \in DOMAIN t.queue : ~Refused(t.queue[i].banks, t.queue[i].addr)
  /\ here # Nowhere => here.banks \in Pagings
  /\ t.code \cap t.pointers = {} /\ t.code \subseteq 0..Cells - 1
  /\ DOMAIN t.logical \subseteq 0..Cells - 1

(* regs.go:11: the tracer under-approximates and never invents a value.    *)
(* On every walk, whatever the registers it knows nothing of hold, a       *)
(* register it gives a value has that value, and the paging it decodes     *)
(* under is the paging the program has made.                               *)
NeverInvents ==
  here # Nowhere /\ cpu.keeps =>
    /\ \A k \in RegNames : here.regs.r[k].v \in {Unknown, cpu.r[k]}
    /\ here.banks = cpu.banks

(* What a walk takes for granted is so.                                    *)
WalksAreSound == TypeOK /\ NeverInvents

(* The pagings after an instruction: a store of two bytes may switch two   *)
(* pages, and nothing but a store switches any.                            *)
Storing == {"StMA", "StMHL", "StHLN", "StHLR", "StPA"}
TwoPages(banks) ==
  {[banks EXCEPT ![i] = b, ![j] = c] :
     i \in DOMAIN Pages, j \in DOMAIN Pages, b \in 0..NBanks - 1, c \in 0..NBanks - 1}
PagingsAfter(banks, ins) == IF ins.op \in Storing THEN TwoPages(banks) ELSE {banks}

(* The search is closed when it is reported: the target of every call and  *)
(* jump it decoded, and what follows every instruction that goes on, was   *)
(* walked under a paging it can be reached with, or is padding, or is      *)
(* outside the image, or follows a reported switch (walk, enqueue).        *)
Answered(a, banks) == \/ Refused(banks, a)
                      \/ \E s \in t.visit : s.addr = a /\ s.banks = banks
Followed(s, ins) ==
  LET next == s.addr + 1
      read == {e \in t.tables : e.at = next /\ e.banks = s.banks}
  IN  IF Dispatches(ins) /\ read # {}
      THEN \E e \in read : /\ Answered(next + e.count, s.banks)
                           /\ \A i \in 0..e.count - 1 : Answered(WordAt(s.banks, next + i), s.banks)
      ELSE \/ Returnless(ins) \/ ~FallsThrough(ins) \/ s.addr \in t.unresolved
           \/ \E bk \in PagingsAfter(s.banks, ins) : Answered(next, bk)
Closed ==
  phase = "traced" /\ ~t.overflowed =>
    /\ \A i \in DOMAIN Entries : Answered(Entries[i], Initial)
    /\ \A site \in sites : Answered(site.addr, site.banks)
    /\ \A s \in t.visit : LET ins == Cell(s.banks, s.addr) IN
         ins.op # "Pad" => /\ ins.op \in {"Call", "Jp", "Djnz"} => Answered(ins.n, s.banks)
                           /\ Followed(s, ins)

(* Every loop of the tool ends: walk at a visited state, Run, Trace and    *)
(* discover when nothing was found or their rounds are over.               *)
Terminates == <>Ended
=============================================================================
