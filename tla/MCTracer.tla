------------------------------ MODULE MCTracer ------------------------------
(* Small cartridges for Tracer: a fixed page of eight cells, a page behind *)
(* a register, four ways a program uses them, with two instructions free.  *)
EXTENDS Tracer, TLC

CONSTANT Kinds, Free, Fewer   \* the cartridges, what is tried in each place

R(op) == [op |-> op]
LdAN(n) == [op |-> "LdRN", r |-> "A", n |-> n]
LdPN(p, n) == [op |-> "LdPN", p |-> p, n |-> n]
M(op, n) == [op |-> op, n |-> n]
P(op, p) == [op |-> op, p |-> p]
Jump(op, n, c) == [op |-> op, n |-> n, cond |-> c]
Ret == [op |-> "Ret", cond |-> FALSE]

Register == 16
Shadow == 40
Variable == 41
Hook == 48

AllFree ==
  {LdAN(2), [op |-> "LdRN", r |-> "B", n |-> 1], [op |-> "LdRR", r |-> "A", q |-> "B"],
   [op |-> "LdRR", r |-> "L", q |-> "A"], LdPN("HL", 13), LdPN("HL", 40), LdPN("DE", 16),
   M("LdAM", Shadow), M("LdAM", Variable), M("LdHLM", Shadow), M("StMA", Shadow),
   M("StMA", Variable), M("StMA", Register), M("StMHL", Hook), M("StMHL", Shadow),
   M("StMHL", Register), M("StHLN", 2), [op |-> "StHLR", r |-> "B"], P("StPA", "DE"),
   [op |-> "IncR", r |-> "A", n |-> 1], [op |-> "IncR", r |-> "B", n |-> 7],
   [op |-> "IncP", p |-> "HL", n |-> 63], M("AddAN", 7), R("Alu"), [op |-> "LdRIndex", r |-> "L"], [op |-> "LdRIndex", r |-> "A"],
   P("AddHL", "DE"),
   R("ExDEHL"), R("Exx"), P("Push", "HL"), P("Push", "AF"), P("Pop", "HL"), P("Pop", "AF"),
   R("ExSPHL"), R("LdSP"), M("Djnz", 0), M("Call", 8), M("Call", 5), M("Call", 40), M("Rst", 30),
   Jump("Jp", 4, TRUE), Jump("Jp", 7, FALSE), Jump("Jp", 9, TRUE), R("JpHL"), Ret,
   [Ret EXCEPT !.cond = TRUE], R("Pad")}
SomeFree ==
  {LdAN(2), [op |-> "LdRR", r |-> "A", q |-> "B"], LdPN("HL", 13), M("LdAM", Shadow),
   M("LdAM", Variable), M("StMA", Shadow), M("StMA", Register), M("StMHL", Hook),
   [op |-> "IncR", r |-> "A", n |-> 1], R("Alu"), [op |-> "LdRIndex", r |-> "L"], R("ExDEHL"),
   P("Push", "HL"), P("Pop", "HL"),
   P("Pop", "AF"), M("Djnz", 0), M("Call", 8), Jump("Jp", 7, FALSE), R("JpHL"), R("Pad")}

Pad == R("Pad")

(* A routine pages a bank in, calls it and puts the page back from RAM. *)
Paging(a, b) ==
  << <<LdAN(1), M("StMA", Shadow), a, M("StMA", Register), M("Call", 8), M("LdAM", Shadow),
       b, M("StMA", Register)>>,
     <<LdAN(3), M("StMA", Register), Ret, Pad, Pad, Pad, Pad, Pad>>,
     <<M("LdAM", Shadow), M("StMA", Register), Jump("Jp", 0, FALSE), Pad, Pad, Pad, Pad, Pad>>,
     <<Pad, Pad, Ret, Pad, Pad, Pad, Pad, Pad>> >>

(* A routine reached with a table behind the call. *)
Dispatch(a, b) ==
  << <<LdAN(2), a, M("Call", 7), M("Word", 6), M("Word", 5), b, Ret, P("Pop", "HL")>>,
     <<R("Alu"), R("JpHL"), Pad, Pad, Pad, Pad, Pad, Pad>> >>

(* A return address pushed, and a pointer saved. *)
Pushing(a, b) ==
  << <<LdPN("HL", 4), P("Push", "HL"), a, Ret, M("Call", 8), LdAN(2), M("StMA", Register),
       Jump("Jp", 0, FALSE)>>,
     <<LdPN("DE", 14), P("Push", "DE"), b, P("Pop", "DE"), Jump("Jp", 9, TRUE), Ret, Ret, Pad>>,
     <<a, b, Ret, Pad, Pad, Pad, Pad, Pad>> >>

(* The main loop waits; the program is in the handler it installs, and a  *)
(* table of one word is declared.                                          *)
Hooking(a, b) ==
  << <<LdPN("HL", 5), M("StMHL", Hook), a, Jump("Jp", 3, FALSE), Pad, P("Push", "AF"), b,
       P("Pop", "AF")>>,
     <<M("AddAN", 1), M("StMA", Register), Ret, Pad, M("Word", 6), Pad, Pad, Pad>>,
     <<Ret, Pad, Pad, Pad, Pad, Pad, Pad, Pad>> >>

MCImages == Kinds \X Free \X Fewer
MCCellAt(img, off) ==
  LET banks == CASE img[1] = "paging" -> Paging(img[2], img[3])
                 [] img[1] = "dispatch" -> Dispatch(img[2], img[3])
                 [] img[1] = "pushing" -> Pushing(img[2], img[3])
                 [] img[1] = "hooking" -> Hooking(img[2], img[3])
      bank == (off \div 8) + 1
  IN  IF bank > Len(banks) THEN Pad ELSE banks[bank][(off % 8) + 1]

MCPages == [i \in 0..1 |-> <<8 * i, 8 * i + 8>>]
MCInitial == [i \in 0..1 |-> i]
MCSelects == (1 :> <<Register, Register + 2>>)
MCEntries == <<0>>
MCTables == <<[addr |-> 12, count |-> 1]>>
MCReports == {[addr |-> a, banks |-> [i \in 0..1 |-> IF i = 0 THEN 0 ELSE 2]] : a \in {5, 10}}
MCHookArea == {Hook}
=============================================================================
