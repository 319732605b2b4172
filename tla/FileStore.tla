----------------------------- MODULE FileStore -----------------------------
(***************************************************************************)
(* What a floppy promises a program that uses files: a name holds the      *)
(* contents last saved under it, until it is deleted, and nothing done to  *)
(* one file shows in another.  Disk implements this with a directory and a *)
(* file allocation table.                                                  *)
(***************************************************************************)
EXTENDS Integers, Sequences

CONSTANTS
  Names,     \* the names a program uses
  Contents,  \* what it saves: sequences of sectors
  Values     \* what a sector can hold

(* The name is not on the disk: no sector holds this.                      *)
Missing == <<-1>>

VARIABLE files  \* what each name holds

Init == files = [n \in Names |-> Missing]

Save(n, d) == files' = [files EXCEPT ![n] = d]

Delete(n) == files[n] # Missing /\ files' = [files EXCEPT ![n] = Missing]

(* A program that writes a sector by its number may change one file there. *)
Overwrite(n, i, v) ==
  /\ files[n] # Missing /\ i \in 1..Len(files[n])
  /\ files' = [files EXCEPT ![n][i] = v]

Next == \E n \in Names :
          \/ \E d \in Contents : Save(n, d)
          \/ Delete(n)
          \/ \E i \in 1..Len(files[n]), v \in Values : Overwrite(n, i, v)

Spec == Init /\ [][Next]_files
=============================================================================
