# A TLA+ model of msx2go

msx2go translates MSX cartridges and floppies (Z80 machine code) into Go. The
Go it writes is linked with a runtime, `src/internal/emit/runtime/`, which is the
whole machine the game runs on: the clock and its interrupts, the video chip, the
memory and its mappers, the sound chips, a BIOS and a disk operating system made
of Go functions, and an interpreter for what was not translated. This directory
models that runtime, because it is where the state and the order of things are, and
the part of the translator that has some: the tracer's walk, and the code it emits
beside the interpreter.

## 1. Inventory

| component | state it keeps | operations | hard behaviour |
|---|---|---|---|
| frame clock and interrupts (`cycles.go`, `boot.go`, `interp.go`, `nolabel.go`) | `Cyc`, `frameDue`, `fDue`, `lastIRQ`, `irqTaken`, `frameStart`, `cycLimit`, `fhDue`, the held requests, `nest` | `Frame`, `tick`, `dueVblank`, `dueLine`, `dueIRQ`, `deliver`, `runaway`, `rearmLine` | interrupts are Go calls made from inside an instruction; they nest, their handlers may never return, and two places raise the same blank |
| boot (`boot.go`, `hdboot.go`, `diskboot.go`) | `booting`, `bootStop`, `bootIRQs`, `MainThread` | `Boot`, `BootDisk`, `bootInterrupt` | decides the machine's shape by watching how long INIT runs |
| cartridge paging (`memory.go`, `mapper.go`) | the bank registers, the 64K `Mem` they are copied into, which 8K pages are ROM | `wr`, `setBank`, `page`, `Phys` | banks are *copied*, so the copy can go stale |
| RAM mapper (`rammapper.go`) | four segment registers, sixteen segment stores, the alias table | `setRAMSegment`, `mirror`, `recomputeAliases` | one segment seen in several pages |
| sound cartridge (`sndcart.go`) | `paged`, the RAM `under` it, two bank registers, two register windows | `sndRepage`, `sndCartWrite`, `SoundCartIn` | swaps itself into the same memory the RAM mapper swaps |
| video chip, ports and status (`vdp.go`) | registers, the address and its copy in register 14, the control port's latch, read-ahead, status, palette, register log | `WriteCtrl`, `WriteData`, `ReadData`, `ReadStatus`, `WriteReg`, `WritePalette`, `RegsAt` | a two-byte sequence any other access breaks, shared by the program and its interrupt handler |
| video command engine (`vdpcmd.go`) | the transfer in progress, `busyUntil` | `Execute`, the byte of a transfer by register 44 or 7 | a command in progress while the next one is written |
| renderer (`render.go`) | none, it reads the chip | `Render`, sprites | per-line registers out of the split log |
| sound chips (`psg.go`, `psgsynth.go`, `scc.go`) | registers, phase counters | register writes, sample generation | arithmetic |
| BIOS and input (`bios.go`, `bios_screen.go`, `input.go`) | the work area in `Mem`: screen mode, copies of the chip's registers, cursor, tables; the key matrix | some hundred entries | copies that must follow what they copy; a key seen by two ways of asking |
| disks and DOS (`disk.go`, `diskdir.go`, `disks.go`, `dos.go`) | FAT, directory, open files, the search in progress, which floppy is in which drive | open, read, write, search, swap | a search or a file that outlives the floppy it was on |
| snapshots (`snapshot.go`) | none | `SaveState`, `LoadState` | what is left out must not matter between frames |
| data pruning (`data.go`, `read_check.go`) | which bytes of the image are holes | load, hole checks | a pruned byte that is read |
| processor arithmetic (`machine.go`) | registers and flags | one helper an operation | flags at the edges of a byte |
| interpreter and bridge (`interp.go`, `nolabel.go`) | `interpDepth`, `runMark`, `bridgeDepth` | `Interpret`, `step`, `bridgeInto`, `retBail` | two engines that must stop at the same instruction |
| tracer (`internal/trace`) | the work queue, abstract registers and banks | the walk, the rounds | fixpoint over code and bank states; what it concludes from registers it may not know |
| decoder and emitter (`internal/dis`, `internal/emit`) | none | decode, emit | the statement emitted against the instruction interpreted |
| commands (`cmd/`) | discovery and exploration loops | run, learn sites, repeat | termination |

The components meet in one struct, `M`, and on one Go thread. There are no
goroutines in the runtime; what makes its interleavings hard is re-entrance: `tick`
is called from the middle of every instruction and may run a whole interrupt handler,
instructions and further interrupts included, before it returns.

## 2. The modules

Seven groups: the clock and its interrupts; the memory (RAM mapper, sound cartridge, cartridge
banks, snapshots of it); the floppies; the video chip and what is drawn with it; the BIOS as a
program sees it; the two engines that run Z80 code; and the tracer.

| module | models | built on |
|---|---|---|
| `Interrupts` | `Frame` in both shapes, `tick` and everything it calls, `deliver`, the stopping rules of `Interpret` | |
| `MCInterrupts` | the programs it is checked with | `Interrupts` |
| `InterruptsProof` | its theorems | `Interrupts` |
| `PagedRam` | abstract: segments of RAM and the pages that show them | |
| `RamMapper` | the mapper and the sound cartridge on one flat memory | instances `PagedRam` |
| `RamSnapshot` | saving and loading that memory | `RamMapper` |
| `MCRamMapper`, `MCRamSnapshot` | the programs they are checked with | |
| `RamMapperProof` | its theorems, the refinement of `PagedRam` among them, and what a load of a snapshot brings back | `RamSnapshot` |
| `Banks` | cartridge paging and the sound chip's window | |
| `MCBanks`, `BanksProof` | the Konami-SCC table; theorems for every table | `Banks` |
| `FileStore` | abstract: files by name | |
| `Disk` | the FAT12 image under Save, Delete, WriteSector, Open | instances `FileStore` |
| `MCDisk`, `DiskProof` | the floppies it is checked on; its theorems, the refinement of `FileStore` among them | `Disk` |
| `Floppies` | abstract: files by floppy and name, changed by writes at once | |
| `Dos` | files open by control block, drives, swaps, searches, the player leaving | instances `Floppies` |
| `MCDos`, `DosProof` | the machine it is checked with; its theorems, the refinement of `Floppies` among them | `Dos` |
| `Bits` | bytes as bits | |
| `VideoCommand` | the command engine, as operators on the chip's record | `Bits` |
| `Video` | the chip's ports, registers and raster under a program and its handler | `VideoCommand` |
| `MCVideo`, `VideoProof` | the programs it is checked with; its theorems, what a command leaves of a chip among them | `Video` |
| `Sprites` | sprites, twice: as the chip's status scan reads them and as the renderer does | `VideoCommand` |
| `Canvas` | abstract: pages of dots and the calls that change them | |
| `Picture` | the sub-ROM's drawing entries, the renderer, and status 0 | `Sprites`, instances `Canvas` |
| `MCPicture` | the screens and sprites it is checked with | `Picture` |
| `Terminal` | abstract: a sheet of rows and a cursor | |
| `Screen` | screen modes, copies of registers and palette, console | `VideoCommand`, instances `Terminal` |
| `Keyboard` | the matrix, the joystick port, and the entries that read them | |
| `Bios`, `MCBios`, `BiosProof` | the two together; the programs they are checked with; their theorems | `Screen`, `Keyboard` |
| `Processor` | registers, flags and the arithmetic of `machine.go` | `Bits` |
| `Instructions` | the interpreter's reading of the bytes | `Processor` |
| `Translation` | the translator's reading of the same bytes | `Instructions` |
| `Z80` | abstract: one processor, one instruction after another | `Instructions` |
| `Engines` | interpreter and generated code calling one another | `Translation`, instances `Z80` |
| `MCEngines` | every opcode, and the programs cut up for the two | `Engines` |
| `TracerStep` | the abstract registers and what an instruction does to them | |
| `Tracer` | the walk, its rounds and the discovery rounds | `TracerStep` |
| `MCTracer`, `TracerProof` | the cartridges it is checked on; its theorems | `Tracer` |

A definition whose comment says *mutant* is a plausible bug, kept beside the definition it
would replace; each property is known to fail with one of them in place. A property is often a
conjunction of named parts, each with its own comment; a run names the conjunction.

### Interrupts

The Go call stack is a variable. `stack` holds one record for every `deliver` that has
not returned: where its caller goes on (`at`), the opcode it interrupted (`op`), and what
`deliver` saves (`limit`, `idle`, `pc`, `tail`) with the hooks still to run (`left`). `ctl` says how far
the innermost instruction has got:

    host --Frame--> step --Fetch--> irq --dueIRQ--> op --Executes--> step
                      ^               \               \
                      |                `-- deliver ----`--> step (of the handler)
                      `-- Returns / Hijacked

`Tick` is `tick` up to `dueIRQ`; `RunsAway`, `NothingDue`, `BIOSTakes`, `LateVblank` and `ClockInterrupt`
are the exits of `dueIRQ`; `Executes` is the instruction's own effect. The Z80 stack
pointer is kept as `sp`, the number of `deliver` frames still below it, which is all the
stack marks compare. A Z80 program is any sequence of instructions from `Ops`; an instruction
that touches nothing the module keeps is `nop`.

`late`, `owed`, `taken`, `runs`, `clocked` and `skipped` are history: the code has no such fields and no guard
reads them.

Abstracted: the machine with counting turned off (`CPUScale < 0`), INIT (`booting` is false throughout),
`tickShim`, the step quotas `mainThreadQuota` and `maxInterpSteps`, and translated code, whose
`Tick` is the same function and whose exits are those of the interpreter. A halted
main thread ticks one cycle at a time where the code ticks four.

### The RAM mapper and the sound cartridge

A segment change copies 16K out of and into one flat `Mem`; `RamMapper` keeps `Mem` as `window`,
one byte a page, since every operation works on the same offset in each page. `PagedRam` has
segments instead of copies, and the refinement mapping reads each segment from the page that shows it or,
when none does, from its store. In page two the one offset is a register of the sound
cartridge's chip, so that the cartridge has something to show and something to take.

The code is not a mapper for every program, and `Habits` says what a program must refrain from:
showing a segment in three pages (`twoWindows`), using page two's segment
behind the sound cartridge (`cartAlone`), and taking an interrupt, whose keyboard scan writes past `wr`, while the work
area's segment is shown twice (`workAlone`). The pass runs and the theorems assume all
three. Without `twoWindows` or `workAlone` TLC finds `SameRAM` broken, without
`cartAlone` the refinement.

`RamSnapshot` adds a file with one snapshot in it, and loading it into the machine that made it or
into a fresh one. `early` says whether a snapshot may be taken before the mapper has been used, which the
code does not survive (section 3); the run takes later ones.

### Cartridge paging

`Banks` takes the rows of the mapper table in `mapper.go` as constants. A byte of the image *is* its offset in the image, so
"the memory shows what `Offset` says" is an equation of integers. `Addrs` samples the address space; what happens to
one address does not depend on what is at another.

### The floppy

`Disk` keeps the table as the function `next` reads (`fat`), the directory as records, and contents by sector.
A chain is defined twice: `Walk` is the sequence `next` yields, and `Chain` the set of it, as the least
set closed under `fat`, which is what a proof can use. `Freed`, `Lowest`, `Linked` and `Written` are the loops of `free`, `alloc` and
`Save`. `torn` is history: a replacement has failed on a full disk. Until
then the image refines `FileStore`.

Abstracted: two entries packed in three bytes, the copies of the table (written alike), and the bytes
inside a sector; names that differ only in case are one name. The directory is the root.

### Files and floppies

`Dos` keeps `files`, the map from a control block's address to the file open in it, with the name, contents, floppy and dirty
flag of `dosFile`; `inDrive`, `curDrive` and `disk` as the machine has them; and the four search fields as `search`. A floppy is its
directory in order, unused entries included, each with its contents: `Save`, `ReadAt` and `Files` see no more of it, and `Disk` models what is below.
What a control block *says* (drive, name, record) is memory the program may change between any two calls, so it is an input of each call and not state.

| in the module | in the code |
|---|---|
| `OpenOrRead` | functions 0Fh, 14h, 21h, 23h, 27h: all of them `dosOpen`, whose effect on the files is the same |
| `Write`, `Create`, `Close`, `Delete` | 15h/22h/26h, 16h, 10h, 13h |
| `SearchFirst`, `SearchNext` | 11h, 12h with `dosSearch` |
| `SelectDrive`, `SwapNext` | 0Eh; the player's key, with `Insert`, `flushOpenFiles` and `syncDisk` |
| `Leave` | the harness's exit: `DOSFlushAll` up to its first error, then the image of `m.Disk` to its file |

`flushOpenFiles` and `DOSFlushAll` range over a Go map: `Orders` is every order they may take, and what happens depends on it when a directory fills up.
`found` and `lost` are history: the names the search in progress has found, and whether a file could not be written back. `home` is the
image file beside the save state, which the code keeps on the player's disk. A machine has one drive or two, chosen by `Init`; the second is `Insert` into drive B before the game starts.

Holding a file whole and writing it back later is not invisible to every program, and `Habits` says to which: one that writes a file through one block at a time and reads it through no other
meanwhile (`oneWriter`); opens a block afresh when it has changed what the block names (`reopen`, since `dosWrite` goes by the block's address alone); deletes no open file
(`closedDelete`) and only from the selected drive (`ownDrive`); and makes and deletes no file between the calls of a search (`quietSearch`). No program here asks for the next file after a search
has ended. `Floppies` is what such a program sees: writes, creates and deletes change a file at once, and nothing else changes any.

Abstracted: one record of a file is one value; subdirectories, the console calls, the record arithmetic of `dosSeqPos` and its kin, the absolute sector calls with the
swap flag `diskSwapped`, and an empty drive.

### The video chip

`chip` holds registers, memory, the command engine and the frame's register log; `port` the address, its
copy in register 14, the control port's latch and the byte read ahead. Two users share them: the main program, and
an interrupt handler that `Interrupt` starts between any two of the program's accesses and that, as every MSX
handler, reads the status register before it uses the ports (`polled`). Port accesses, writes through the
BIOS, command starts, transfer bytes and raster lines are actions; `owner`, `due`, `shown`, `job`, `last` and
`colours` are history, what the properties hold the chip to.

| in the module | in the code |
|---|---|
| `WriteCtrl`, `WriteData`, `ReadData`, `ReadStatus`, `WritePalette` | the ports 98h to 9Bh |
| `BiosSetAddr`, `WriteRegister` | `SetAddr`, `SetAddrFull`, `WriteReg` from the BIOS |
| `StartCommand`, `Finish` | the writes of registers 32 to 46 and `Execute`; the end of `busyUntil` |
| `Tick`, `StartFrame`, `StartLine` | the raster, which `Interrupts` times |
| `RegsAt`, `Drawn` | the log undone from its end for one line |

`VideoCommand` is functional: each operator takes the chip and gives the chip the code leaves. Video memory is
the bytes that were written, so a picture at both edges of 256 lines costs a dozen cells. What a command should draw is
stated apart from it, in dots (`Drew`): the code counts bytes, clips at edges, steps in either direction and
interleaves; the property only names the rectangle.

The raster's run lets a program change the picture's height only in the blanking (`HeightInBlanking`), as programs do; every other register is written on any line.

Abstracted: how long a command is busy, the frame's true number of lines, and a log of any registers but two.

### Sprites, pictures and the canvas

There are two readers of the sprite tables: `scanSprites` for status register 0, and the renderer. `Sprites` states both once,
with `by` saying which, wherever they differ in the code. `Picture` looks at a chip through the renderer: `BitmapPixel`,
tiles of Graphic 2 and sprites of both kinds, at sampled columns, rows and dots. The drawing entries of the sub-ROM write blocks and
run `VideoCommand`'s engine; `Canvas` is what they promise, a function from dots to colours in which each call
changes the dots it names: a box's and a move's become what was asked for, an array's or a file's the colours given, in order,
behind the dot register 44 held (section 3), as far as they go. The refinement mapping shows each page and scrolls to each row, so it goes
through the renderer's address arithmetic and not the engine's.

Abstracted: dots between the sampled ones, text and multicolour tiles, the font, and the option that lifts the sprite limit.

### The BIOS

`Screen` has an action for each entry. `chip.reg`, the copies `saved`, and `work` (mode, page, colours, cursor, the tables of
each mode) are the state; a mode switch, the programming of tables, clearing and palette are part of the
entry that makes them, as in the code. `Terminal` is what the console promises; the mapping reads each cell where a glyph
of the mode begins. `Keyboard` has the matrix as the set of keys held, the host's window and its tapes (`play.go.txt`)
which write it, and `CHSNS`, `CHGET`, `GTSTCK`, `GTTRIG`, which read it. The two share no state and `Bios` interleaves them for
a program that asks for keys.

Abstracted: a glyph is its first pixel; a colour of the palette is a number; the console is 2 by 3.

### The two engines

`m` is the processor and memory, a record; `acts` is the Go stack: an activation of `Interpret` with its mark, or of a
generated function at a label with the `runMark` it saved, each with who made it (`by`). `Interpret` and `RunAt` take one
instruction; `InterpretReturns` is the interpreter stopping at its mark, sentinel, budget or label; `NextFrame` starts the next
slice of a main thread. `Instructions` decodes as `interp.go` does, `Translation` as `decode.go` and the emitter do, from the same
bytes and apart from one another. A program is given with the set of addresses that were translated (`labels`), and the run tries
several cuts of each.

`Z80` is one processor that decodes and performs. The refinement mapping puts its program counter where the
innermost activation is, as generated code keeps its place in the function and sets `m.PC` only where it leaves.

Abstracted: memory has no mapper, holes or sound cartridge; cycles are instructions; no interrupts (those are `Interrupts`); what a
discovery build learns; dispatch in banked and chunked output.

### The tracer

`here` is the state the walk is at: address, banks, shadows, abstract registers. `Take` is `Run` taking the last of the
queue, `Walk` one turn of `walk` with everything it records and queues, `Overflow`, `Arrive` and `StopAtPadding` its other ends;
`Decide`, `Settle`, `Restart`, `Discover` and `Converge` are the rounds of `Run`, `Trace` and of discovery. `cpu` is history: a processor
that holds at the start of each walk what the tracer knows of it, and junk for what it does not, and which runs the
same instructions; `NeverInvents` compares the two. `Keeps` says what the tracer takes a program to be, and the comparison ends
(`keeps`) where one is not: what it puts in a bank shadow is a bank the walk knows; a store at an address the walk does not know is to no bank register and no shadow;
and of the registers loaded by IX or IY it loads A alone.

In `TracerStep`, `RegsAfter` and `StoresOf` are the two results of `Step`, and `Exec` what a processor does for the same instruction.

An instruction is one cell, so that instructions do not overlap; bytes are below 8. The instruction set is one
operation for each case of `step.go` and `walk`. Left out: the limit of 257 entries to an inline table.

## 3. The runs

There are a dozen runs, each one composed question; the properties with several parts list them.

| run | instance | checks | why it is enough |
|---|---|---|---|
| `mainthread` | a game loop: `ei`, `di`, polls, line interrupts, five ways out of a handler; frame of 3 cycles, instructions of 1 or 4; 2 nested, no debt | `HandlersSettle` (nesting, budget, the instruction in flight), `RequestsTakenOnce` (late blanks and line requests stand; one interrupt a frame), `FramesKeepPace` (rate of blanks, debt), `LineSchedule` | an instruction of 4 overruns a whole frame, so boundaries are met, missed and skipped within `MaxCyc` = 10 and three frames; nesting reaches its limit, and a handler is interrupted in a handler |
| `handler` | the handler shape, with and without a BIOS in front; frame of 4, guard at 2 frames | `InterruptsAreFrames`, `RunawayStops`, `NoBurst` | 14 cycles are enough for an overrun, the guard firing inside a nested interrupt, the frame after, and three interrupts of the clock where paying back every blank brings them within a frame |
| `careful` | 4 segments, pages 1 to 3 remapped, bytes 0 and 1 | `MemoryIsShared` (`SameRAM`, `CartShown`), `ImplementsPagedRam` | four segments are one more than the pages remapped, so a segment leaves, is written elsewhere and returns, with and without the cartridge in front |
| `load` | the same memory, page 2 remapped, saved once used | `SameRAMLoaded`, `LoadRestores` | loads into the running machine and a new one, after any change |
| `scc` | Konami-SCC, six banks | `BanksInv` (`BytesAreOffset`, `ChipFollowsBank`) | banks 5, 63 and 69 are the last, the chip's, and one that wraps; six is not a power of two |
| `disk` | 3 clusters of 2 sectors, 2 entries, 2 names, an optional subdirectory | `SoundUntilTorn`, `NothingLost` (no cluster lost; what is clean is what was loaded), `ImplementsFileStore` | files of 0, 1/2, 1 and 1 1/2 clusters; the disk fragments, fills, and a replacement fails on it |
| `dos` | two blocks, two names, two floppies with two entries and one, a drive or two, one record | `ContentsAreKept` (reads are current, exit keeps the selected floppy), `OpenOnMounted`, `SearchFindsAll`, `ImplementsFloppies`, `WritesLandWhereNamed` | both floppies hold a file of the same name, so the wrong floppy shows; the second is full, so a save fails on it, alone or second of two; two blocks are what one file and one reuse need. Blocks, and names, are interchangeable |
| `video` | four focuses: ports under a handler (5 steps, both chips, bytes at the end of 16K and of 128K), one command (every kind, at both edges, in SCREEN 5 to 8), a transfer with other writes between its bytes (6), the raster with splits (9), which may also change the picture's height in the blanking | `AddressAgrees`, `PortsInOrder` (reads in order, a handler's pairs, the palette), `TransferPlace`, `LinesAreHonest`, `CommandDraws` | an address or a pair takes two accesses and the handler one on either side; widths of 1 to 5 and one of 513 cross bytes and both edges; nine steps are two frames of four lines and a split |
| `picture` | boxes, moves and copies in SCREEN 5 to 8 on two pages; 7 and 11 sprites on a first and a later chip, scrolled and slid | `SeenAsDrawn` (the window over picture and sprites, the two renderers agree, transfers close), `IsACanvas` (each dot of each page after each call, the late dots of copies included), `StatusAsShown` | two calls meet each other; four and eight sprites on a line are exceeded; columns and rows are at the edges and seams, where the address arithmetic turns over |
| `bios` | six programs: three change screens, tables, registers, palette and pages; two print, on a tile and a bitmap screen; one asks for keys | `ScreenIsKnown` (copies agree, the screen is as asked), `KeysAreRead` (both ways agree, pressed keys are read, once), `RestIsKept`, `IsATerminal`, `Heard` | every mode is switched to from every other in some program; a console of 2 by 3 wraps and scrolls; keys at the ends of each row, and up to three at once |
| `tracer` | some three thousand cartridges of four shapes (paging, a dispatcher, pushed returns, a hook) with two instructions free; junk 3 or 6 where nothing is known | `WalksAreSound` (`NeverInvents`), `Closed`, `Terminates` | two free instructions put anything the step table has before and after each paging, call or jump; three rounds and two discoveries are what one find leading to another takes |
| `engines` | every opcode both engines do, on two machines; eight programs at every cut of `Cuts`; budgets of 5, 12 and 26, two frames | `CallsComeBack` (types of the Go stack, marks descend, no early return), `ArithmeticIsRight`, `ImplementsZ80`, `NobodyStuck` | a cut leaves out none, all, one or a tail of the labels, so each instruction is the one where the engines change over; recursion is three deep |

Bounds: `MaxCyc` and `MaxFrames` cap the clock and the calls of `Frame`; the stuttering step `Ended` is taken
only where one of them has been reached, no hook is left for `Frame` to run, or a panic has left it. `MaxSteps` ends the
programs of `video` and `picture`, `MaxStates`, `Rounds`, `Traces` and `Discoveries` the tracer's (the code has each of them, only larger),
`FrameBound` those of `engines`. `video`, `picture` and `tracer` run with deadlock checking off as their programs end; everywhere else it is on,
and the other modules never stop. Hooks are at most two, as in the code.

Fairness is assumed in three places, and each is one loop of the program that the code really goes on executing:

- `Tracer`: `WF_turn(Goes)`. Tracing is a sequential program with no input; it takes its next step. `Terminates` says it reaches an end
  within the cut-offs, which is about the queue, the visit set and the rounds;
- `Engines`: `WF_vars(Next)`. So does the generated program. `NobodyStuck` says that each hand-over leads back: routines return and
  frames end when their budget is gone;
- `Bios`: `WF_keyVars(Looks)`. `CHGET` does not wait (the code gives 0 back), so a program that wants a key asks again. `Heard` is for
  such a program; a key let go before it is asked for is not promised.

`Interrupts` has no fairness: the program is arbitrary and may loop for ever, which is what the code's
guards are for; where one of them has to act, the property says by which cycle (`RunawayStops`, `DebtBounded`).

Refinements: `RamMapper` implements `PagedRam`, `Disk` implements `FileStore` until a replacement fails on a full disk, `Dos` implements `Floppies` for
a program with the habits above, `Screen` implements `Terminal`, `Picture` implements `Canvas`, `Engines` implements `Z80`. Each is checked as a property of a run; the first
three are proved too.

### Where code and comments disagree

These came up while modelling. The model does what the code does; where a property would fail, the programs or the
property leave the case out, and say so.

Clock and interrupts:

- the halt loop of `mainThreadFrame` ticks outside `Interpret`, so a handler that takes the machine over there panics out of `Frame` (`boot.go:433`, against `cycles.go:749`);
- `frameOrigin` is set in `mainThreadFrame` only: in the handler shape no line interrupt comes after the first frame (`boot.go:475`, against `boot.go:473`);
- a hook that unwinds the BIOS's register frame itself and returns leaves at a stack level `deliver` takes for a takeover (`cycles.go:720`);
- the runaway guard ends the innermost handler only, and the clock pushes the next interrupt on (`cycles.go:979`);
- a main thread that idles ends its frame early, and `frameDue` moves ahead of the clock (`boot.go:343`);
- a line compare below the display comes due after its frame has ended (`cycles.go:370`);
- a write of R9 changes what the line schedule means and does not redo it (`vdp.go:166`); with `writeR9` in the main-thread program `ScheduleNamesLine` fails.

Memory and snapshots:

- a segment in three pages has one alias each, and a write reaches two of the three (`rammapper.go:106`, against the comment at 59); without `twoWindows`, `SameRAM` fails;
- WRSLT to the RAM slot in page two goes to the sound cartridge when that is paged in (`bios.go:126`), and RDSLT likewise reads it;
- changing page two's segment while the sound cartridge is paged in hides the cartridge (`rammapper.go:91`);
- the keyboard scan writes the work area past `wr` (`bios.go:801`), hence `workAlone`;
- a snapshot from before the mapper's first use leaves `ramStore` empty but not nil, and the next segment change indexes it (`snapshot.go:162`, against `snapshot.go:58`); `RamSnapshot` ends there (`early`);
- the alias table of a cartridge machine, which has no mapper, comes out of a load as if four pages shared segment 0 (`snapshot.go:177`);
- a snapshot carries the fourteen bits of the video address and not the whole, and neither the palette, a half-written pair, a transfer nor the line flag (`snapshot.go:126`, against `snapshot.go:61` and 79);
- selecting the chip's bank again clears its window in memory but not the chip (`memory.go:136`).

Floppies:

- a replacement that does not fit frees clusters the old entry goes on naming (`disk.go:268`, against `disk.go:159`); `torn` marks it;
- on exit only the floppy in the selected drive is written back to its file, not one written to and swapped out (`play.go.txt:146`, against `README.md:78` of the repository);
- Delete goes to the selected drive whatever the control block names (`dos.go:128`, against `README.md:94`), hence `ownDrive`, and leaves a file open there to be written back, hence `closedDelete`;
- deleting the file a search has just found moves the rest of the list under its number, and the search skips one (`dos.go:437`), hence `quietSearch`;
- Close forgets a file that could not be written (`dos.go:116`), so the program's retry finds nothing open.

Video chip and pictures:

- a LINE of height 0 becomes one of 1024 in `Execute` (`vdpcmd.go:219`); transparency looks at the whole byte of colour, not at the pixel's bits;
- negative addresses and those past 128K reach the odd bank by way of `phys`;
- `bump` carries into the address and leaves register 14 as it was;
- the sprite flags of status 0 never fall, as reading it clears the blank's bit alone (`vdp.go:368`, against `vdp.go:521`);
- `scanSprites` takes no account of the scroll, the adjust, sprites entering from the top, or interleaving, and `StatusAsShown` is of the frames where none of them plays a part; with 512 dots register 18 moves a sprite twice as far as the picture;
- the later chip's renderer draws every tile mode with Graphic 2's thirds;
- an array's block that gives the wrong size, or a file shorter than its picture, leaves a transfer open that takes the next write of register 44; NVBX adds the active page, the entries for arrays and files do not;
- `lmmcStream` does not write register 44 before the command, so a copied array or file is one pixel late and its first dot is an old colour (`bios_screen.go:434`, against `bios_screen.go:292` and `vdpcmd.go:73`): `Canvas` says so, as the colours it is given begin with the register's. It unpacks by the work area's mode where the chip goes by its own;
- on the later chip the sprite attributes of screens 1 to 3 are read at 1A00h and not where the mode set them (`bios_screen.go:84`, against 98).

BIOS:

- DISSCR, ENASCR and the main CHGCLR write the chip past the saved copy, hence the exceptions in `CopiesAgree`; the main CHGCLR writes both nibbles on a bitmap screen;
- SCREEN 4 is given 212 lines; LINLEN stays 29, so that `chPut` and the screen disagree on the length of a row; mode 4's text goes to a table the chip does not show;
- `chPut` prints on page 0 while CLS clears the active page; `SETRD` and `SETWRT` ignore the page;
- `InstallSystemBytes` says SCREEN 0 and its register 1 says SCREEN 1;
- with keys rolling over, `keyEvent` gives one of them twice; a key let go and pressed again between two reads is not given again;
- CALSLT to a low address of another slot runs the BIOS; the palette's copy is not made anew on a mode switch.

The engines (left out of `Single` and of the programs):

- `in r,(c)` and `ld a,r` translated set no flags, and `ld a,i` loses the interrupt state from P;
- the undocumented duplicates of IM select other modes; those of NEG, and undefined ED codes, panic when translated and do nothing when interpreted; a prefix before a prefix likewise, against `decode.go`;
- DD CB with a register copies its result into the register only when interpreted;
- a prefixed halt is emitted as Go that does not parse, and a prefixed relative jump goes to address 0;
- a restart in translated code pushes a stale `m.PC`, where CALLF reads its operands from; translated halt sets the flag and carries on;
- translated calls below 4000h always run the BIOS, and a return into it runs the entry when translated and the bytes of page zero when interpreted; a translated `call F37Dh` leaves its return address below the stack pointer;
- a routine the interpreter called across the bridge, waiting in a jump to itself, comes back with `m.PC` where the call left it (`emit.go:262`), so that the next frame begins it again, against
  `interp.go:871`, "the two produce identical machines instruction for instruction"; with such a program in `engines`, `ImplementsZ80` fails;
- a bridged routine that loops without a `ret` never hands the budget back.

The tracer:

- `regs.go:11` says it never invents, and it does so only for programs that keep off these: `ld r,(ix+d)` forgets A whatever r is (`step.go:53`); a store through a pointer it does not know is taken to reach neither a bank register nor a shadow (`step.go:149`); `push ix`, `inc sp` and `ld sp,(nn)` leave the abstract stack; a value stored in a shadow is kept masked, so that a larger one comes out of it changed (`banks.go:186`); a callee is queued with its caller's stack and no return address; a page restored takes the bank at the walk's beginning; a pair of stores may come from two walks;
- a routine that leaves the mapping changed is said to stop a walk (`sites.go:15`), but the walk goes on with the old banks;
- a state is known by address, banks and A alone; a target accepted again under another paging is queued and `Run` may stop with it in the queue (`trace.go:442`, against 422);
- the sites of the last discovery round are not traced, and at the cap the result lists dispatchers that were not used.

## 4. The proofs

TLAPS checks the following for every value of the constants the `ASSUME`s allow.

| theorem | says | rests on |
|---|---|---|
| `TypeCorrect` | `Spec => []TypeOK` of `Interrupts` | `TypeOK` is inductive |
| `NestingBounded` | `[]NestCounts` | `TypeOK /\ NestCounts` |
| `OpcodesBelongToTheirThread` | `[]InstructionsHaveAThread` | `ThreadInv`: besides, the main thread's stack pointer is never below its floor |
| `BudgetKept` | `[]BudgetIsTheMainThreads` | `BudgetInv`: each level of the stack holds the limit of the level it interrupted, the outermost the main thread's, every other none; only the outermost can be the one at the top of the frame |
| `HandlersSettled` | `[]HandlersSettle` | the four above |
| `VblankNoFasterThanTheClock` | `[]VblankRate` | `VblankInv`: the next blank is never due before the blanks raised so far account for |
| `SkippedFramesBounded` | `[]DebtBounded` | `DebtInv`: each skipped frame uses up a frame of the debt, which a cap bounds when the first is skipped |
| `PaceKept` | `[]FramesKeepPace` | the two above |
| `RunawaysStopped` | `[]RunawayStops` | `GuardInv`: past the guard the machine is looking at the clock, or at the first instruction of the handler just delivered |
| `NoneTakenTwice` | `[]InterruptsAreFrames` | `AheadInv`: in the handler shape nothing is held back, and a handler running has been counted as taken |
| `MissedAreForgiven` | `[]NoBurst` | `BurstInv`: `lastIRQ` only grows, is never more than what the shape allows ahead of the clock, and is ahead of every interrupt taken by the frames of those after it; so the next, due a frame past `lastIRQ`, is far enough from each |
| `LineScheduleKept` | `[]LineSchedule`, for a main thread that leaves register 9 alone | `ScheduleInv`; `Rearmed`: what `rearmLine` leaves is a schedule for the line asked for |
| `NoRequestLostOrDoubled` | `[]RequestsTakenOnce` | `RequestInv`: besides, a late blank has no instruction waiting below, a frame's first interrupt cannot come before its top, and each further one a frame later |
| `MapperInvariant` | `[]MapperInv` of `RamMapper` | `TypeOK`, stores of the segments not shown, the alias table right for the registers, aliases in pairs, the cartridge alone in page two, shared windows equal, the cartridge's view in front |
| `OneSegmentOneRAM`, `CartridgeReadsTrue`, `MemoryShared` | `[]SameRAM`, `[]CartShown`, `[]MemoryIsShared` | parts of `MapperInv` |
| `RamImplemented` | `RamMapper` refines `PagedRam` | `MapperInv` before and after each step, and the value of each segment across a write and across a move |
| `LoadedSharesRAM`, `LoadsRestore` | `[]SameRAMLoaded`, `LoadRestores` of `RamSnapshot` | `SnapInv`: `MapperInv`, and of the file, a second machine standing still, as much of it as the file has fields for |
| `ReadsAgreeWithDispatch`, `ChipInItsWindow`, `CopiesAreCurrent` | `[]BytesAreOffset`, `[]ChipFollowsBank`, `[]BanksInv` | `BanksInv`, for every table of disjoint windows and so for the four of `mapper.go`, which TLC need not all run |
| `FilesKeepTheirClusters` | `[]SoundUntilTorn` of `Disk` | a local invariant, see below |
| `NothingIsLost` | `[]NothingLost` | inductive; `LinkedHoldsAll`: the clusters `alloc` took are all on the new chain |
| `FilesAreStored` | `Disk` refines `FileStore` | the two above and that no name is in the directory twice; see below |
| `NothingOpenOutside` | `[]OpenOnMounted` of `Dos`, whatever the habits | `DosInv`: besides, the selected drive exists, so the floppy `fcbDisk` falls back to is in a drive |
| `NamesStaySingle` | `[]TypeOK` of `Dos`, whatever the habits: each directory, and the player's copy, holds a name once | `TypeInv` |
| `WhatIsWrittenIsRead` | `[]ContentsAreKept`, for a `Careful` program | `CareInv`: besides, a file written to is open in one block, and one open and not written to is what its floppy holds |
| `FilesAreWritten` | `Dos` refines `Floppies`, for a `Careful` program | `CareInv` before and after each step |
| `WritesGoWhereNamed` | `WritesLandWhereNamed`, for a `Careful` program | the same |
| `SearchesFindAll` | `[]SearchFindsAll`, for a `Quiet` program | `SearchInv`: besides, while a search is on, every open file has its entry, so that writing it back adds none |
| `CommandsKeepTheChip` | whatever its block, kind and mode, a command leaves memory of the same size holding bytes, no register changed but 44 and 46, and the transfer its block says | one lemma per kind; see below |
| `AddressesAgree` | `[]AddressAgrees` of `Video`, for any programs, bytes and starts | `ChipInv`; `LowBits` and `HighBits` are the arithmetic: adding one below 16K, or the bits of register 14 above, keeps the low fourteen |
| `TransfersKeepTheirPlace` | `[]TransferPlace`, for the same | `ChipInv`: chip and port are well formed, and the transfer is at the *i*-th unit of its *j*-th line, which its count *n* = *j nx* + *i* gives |
| `PortsStayInOrder` | `[]PortsInOrder`, for the same | `ChipInv` with `ReadsInv` (the byte ahead is the one a step behind the address), `LatchInv` (whose byte is in the latch) and `PaletteInv` (each entry is three levels of 0 to 7, spread over eight bits) |
| `LinesStayHonest` | `[]LinesAreHonest`, for a program that changes the picture's height only in the blanking (`HeightInBlanking`) | `LineInv`: the last write of each register in the log is what the register holds, and every line of the tallest picture is replayed with the registers it was displayed with, or is about to be, unless the log runs backwards |
| `KeysAreReadAlways` | `[]KeysAreRead` of `Bios`, for any hands | `KeysInv`: a key down in the matrix is one the host holds, but that Z presses space too; the port and the matrix show one stick; the last character given is the one remembered, and its key is down |
| `ScreenIsKnownAlways` | `[]ScreenIsKnown`, for any programs, console, colours, flipped bits and moved tables | `ScreenInv`: besides, registers and work area hold bytes, the tables are those of power on but for their names, and a chip that never was the later one has nothing in register 9 |
| `NeverPromoted` | `[][NotPromoted]_vars`: asking for one of the first four screens leaves the first chip the first | `ScreenInv` |
| `ClosedAlways` | `[]Closed` of `Tracer`: a search reported and not cut off has walked whatever it decoded leads to | `SearchInv`, see below |
| `WalksAreSoundAlways` | `[]WalksAreSound`, whatever the program holds where the tracer knows nothing | `SearchInv` and `WalkInv`, see below |

The mapper theorems and those of the snapshot assume `Habits = AllHabits`, and the refinement `HasMapper` too: they are false without.
`Careful` is the habits `oneWriter`, `reopen` and `closedDelete`, `Quiet` is `quietSearch` and `reopen`; the others of section 2 are not needed for what the
theorems say. `LinesStayHonest` needs `HeightInBlanking`: the run finds a picture made taller in the middle of its display, which moves the raster's end past a line it never displayed (`Lines` and `rasterDisplayLine` read register 9 as it is, `vdp.go:701`, `cycles.go:289`). `NothingLost` and the theorems about types and mounted floppies have no such hypothesis.

`BudgetIsTheMainThreads` says nothing of a machine inside a handler except that there is no limit; what makes it come
out right when the handlers leave is what they have set aside, hence `SetAside`. It survives hijacks
because `LimitBack` needs only that the innermost level is popped, not how its handler went.

`SoundUntilTorn` speaks of whole chains and is not inductive in a form the prover can step through, as a chain is a closure.
`DiskProof` replaces it by facts about single clusters: no cluster follows itself or is named twice, whether by two clusters, by two entries or by one of each; an
allocated cluster is never followed by a free one; and every entry's first cluster is allocated. From these two lemmas derive that chains are allocated
and apart (`ChainInUse`, `ChainsApart`), by taking for the closed set of the definition of `Chain` the
clusters that are not the other's. `Freed` and `Linked` preserve them: the former because a chain is closed, the latter
because it links clusters that were free and so named by nobody.

The refinement of `FileStore` reads contents along `Walk`, a recursive function over the length of a chain. It is handled by its first
counterexample: a set of numbers that has 0 and the number after each of its numbers has them all (`UpTo`), since otherwise there is a least one it lacks (`LeastIn`). Where a recursive
function is defined, `WalkExists` first shows that a function with its equation exists. From that, `WalkOnce`: a walk visits no cluster twice, so
`Place` can name the one place of a sector in a file; `WalkSame`: a chain none of whose clusters changed is walked as before; and a save writes its new
walk sector by sector. The step of `FileStore` follows from what each file reads before and after.

`Dos` writes the open files back in any order a Go map may give, again a recursive function over the order (`After`). `AfterLooks` says by `UpTo`
what each directory holds after the first *n* of them: the contents of the files done, and for everyone else what was there; the order drops out, as long as
no two dirty files share a name and a floppy (`OneWriter`), and that is why the habit is needed. What the search is given is the used entries in the directory's
order, and `ListedIs` says of each that it is there, and once (`Used` and `Nth` are how `Listed` is put together, so that this can be said without a recursive operator).
`SearchOneMore` is then the step from what the first *k* entries hold that matches to what the first *k* + 1 hold.

The proofs about `Video` sort its steps by what they do to the chip (`Effects`): a register written, by the control port, around it or as the last of a
command's block; the first byte of a pair; an address; something quiet; a byte read, written or taken from a transfer; a palette byte. A register write may start a command, so
`ChipInv` needs `CommandsKeepTheChip`: a drawing is a step done so many times, by `Repeat`, and `StepsExist` and `StepsStay` say that
the recursion has a solution, one that stays among the chips redrawn (`Redrawn`: other bytes inside the same size of memory). A line, whose steps carry a position and an error besides, goes the same way.
A command's own transfer then starts where its block says (`TransferBegun`), a write of register 44 moves it one unit on (`StepPlace`), and nothing else moves it.
That the dots drawn, or the counts in the status registers, are right is not part of this.

What a line is replayed with is the registers of the frame's end with the log undone (`Undo`) and then redone as far as that line (`Redo`). `LogStep` says what a step may do to the log: nothing, empty it, or add the writes of a register
on the raster's line. A write on line *l* changes nothing above *l* (`WrittenBelow`): what is undone is what was redone before. From *l* on the whole log is redone, and gives the registers of now whatever order its lines are in (`AllLanded`), since
the last write of each register is what it holds. The raster leaves out no line (`NoLineSkipped`), so a line it comes to is one of those, and a line it has left stays as it was shown (`LineKept`). `LineInv` is about the lines of the tall picture
even while the picture is short, so that a change of height in the blanking keeps it. `SplitAssumption` says that the registers compared are among those the log takes.

The keyboard's theorem is about the order of a scan: `Looked` is where `keyWaiting` looks, in turn, and `LookedTyped` and `TypedLooked` say that it and
`LetterKey`, the two tables of the code, are each other's inverse. What is waiting is then the first key down, by a least element of a set of numbers
(`LeastIn`), and `FrameKeeps`, `TapeKeeps` and `AskKeeps` are the three who change the keys.

For the screens, `ScreenWritten` says of every mode that the registers the entry writes make a chip in that mode, with its lines, its
names and, for the first chip, its sprites, whatever the registers held; `StillAsked` that this survives what leaves the mode's bits, the lines' and two table registers alone
(`Stays`). Each entry is one or the other: a screen entry (`ScreenSet`), a write of a register or of its copy (`Rewritten`, `PastTheCopy`), or bytes in video memory alone (`Quiet`).
A register read back from its copy with one bit flipped is a matter of eight bits (`FlippedBits`); the copy of register 1 need not be the register, but its mode bits are.
`ScreenAssumption` is what a program must leave alone for any of this to be so: it does not flip the bits of the mode, the lines and the tables itself, and a name table is where register 2
can say, at a multiple of 1K in the first 128K. `HandsAssumption` says that a stick has four directions.

`Closed` is about the end of a search, and `SearchInv` says it of the middle: whatever an instruction decoded so far leads to is answered, or queued, or
where the walk is (`SoFar`), and so is whatever the entries, the sites and the tables name. At `Decide` nothing is queued and no walk is under way, so only the first is left. The rest of `SearchInv` is types: what is queued is an
address of the image (`IsSearch`), code and tables are apart, and a shadow is an address that switches no page (`Ground`). One turn of `walk` is taken apart as the code is: `MarkIs`, `PushedReturnIs`, `StoredIs`, `HookIs`, `TargetsIs`,
`InlineTableIs` and `LeftIs` say what each part adds, and that it only adds (`Grown`), so that what was answered or queued stays so (`ReachedStays`). The loops over stores, words, candidates and
tables are recursive functions of bounded length, which `UpTo` handles as it does the chains of the floppy. What an inline table's length is, `TableLengthIs` gets from its least address that does not fit.

`WalksAreSound` compares two machines, and equal registers are not enough: a register the walk does not know may be put in a bank register, and the walk then goes on with the bank the path began with if the value came from that page's shadow. So `WalkInv` says
of each register, each entry of the stack and each shadow that the walk knows it right or not at all, and that one it does not know, loaded from a shadow, is the bank
that page had as the path began (`Agree`). `RegsMatch`, `StackMatches` and `StoresMatch` go through the instructions one by one; the tracer's stack is the top of the program's (`StackAgrees`), as the oldest entries are dropped. `Keeps` is a hypothesis of
`NeverInvents` itself and not of the theorem: it holds as long as the program has done what the tracer takes it to do. Assumed are what the header and the mapper tables of the code give: `StepAssumption` and `TracerAssumption` (sizes and bounds), and
`MapperAssumption` (pages inside the processor's space, every register that of a page, entries and sites that name pages the mapper has, well-formed instructions).

Only model-checked: of `Screen` `RestIsKept`, but for `NotPromoted`, and `IsATerminal`, which need to know where the bytes a program looks at lie; of `Video` `CommandDraws`, which compares a drawn picture with what it should be dot by dot; the pictures and the engines, whose models compute with folds and recursive functions over
programs and bytes. Out of the prover's reach altogether: liveness (`Terminates`, `Heard`, `NobodyStuck`), `ENABLED`, and what recursion computes for every
input where that is the theorem itself and not, as above, a bounded walk in the middle of a proof.

## 5. Not modelled

`PROJECT.json` lists every component with what is in it and what is not. Left out whole:

- `Boot` and disk boot: heuristics over one program's instructions and an interpreter for the text of one BASIC program; neither meets a second actor;
- the sound chips: phase counters and floating-point mixing without a state machine; the SCC's window in memory is in `Banks`;
- data pruning: which bytes were read is recorded by running, and the rest is a file format.

Left out in part: dispatch in banked and chunked output, and the discovery build's learning; the text and multicolour tiles, the
sprite-limit option and the font; the snapshot of clock, video chip and disks, and a truncated file; the absolute sector calls of the DOS and subdirectories;
sound and slot entries of the BIOS; the command lines.

## 6. Plan

In this order:

1. What is left of the floppies: the absolute sector calls and the swap flag in `Dos`, a snapshot loaded under open files (with `RamSnapshot`).
2. Snapshots of the clock and the video chip, composed from `Interrupts` and `Video`: what the file lacks must not change what the next frame does, or the list in section 3 grows.
3. `Boot`: the shape decided, and `Interrupts` started from its outcome; an interrupt delivered under `bridgeInto`, composing `Interrupts` with `Engines`.
4. Banked dispatch: `Banks` under `Translation`, so that a label is an address and a bank.

Theorems worth proving next: of `Screen`, `RestIsKept`; of `Video`, `CommandDraws`; of `Engines`, `CallsComeBack`. Runs stay at a dozen: a new question joins the run of its module.
