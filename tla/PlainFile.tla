------------------------------ MODULE PlainFile ------------------------------
(***************************************************************************)
(* What the record store code expects of its files: a file is a sequence   *)
(* of bytes, an open file has a position, nobody opens a file twice, and   *)
(* whatever was written is what is read.  There is no cache here.          *)
(* FileCache is shown to implement this module.                            *)
(***************************************************************************)
EXTENDS Integers, Sequences, FiniteSetsExt

CONSTANTS
  Files,      \* record store files, one for each suite
  Handles,    \* handles the operating system gives out
  Data,       \* what may be written: non-empty sequences of bytes
  ReadSizes,  \* how much may be read at once
  Positions,  \* positions in a file
  None

VARIABLES
  content,    \* the bytes of every file
  opened,     \* the file a handle stands for, or None
  pos,        \* the position of every handle
  out         \* the last call and what it returned

vars == <<content, opened, pos, out>>

Result(call, val) == [call |-> call, val |-> val]
Done == Result("done", None)

IsOpen(f) == \E h \in Handles : opened[h] = f

(* The sequence s with data written over it, starting after position at. *)
Overwritten(s, at, data) ==
  [i \in 1 .. Max({Len(s), at + Len(data)}) |->
     IF i \in at + 1 .. at + Len(data) THEN data[i - at] ELSE s[i]]

Init ==
  /\ content = [f \in Files |-> << >>]
  /\ opened = [h \in Handles |-> None]
  /\ pos = [h \in Handles |-> 0]
  /\ out = Done

Open(f, h) ==
  /\ ~ IsOpen(f) /\ opened[h] = None
  /\ opened' = [opened EXCEPT ![h] = f]
  /\ pos' = [pos EXCEPT ![h] = 0]
  /\ out' = Done
  /\ UNCHANGED content

(* A file that is open can be neither opened again nor deleted. *)
Locked(f) ==
  /\ IsOpen(f)
  /\ out' = Result("locked", f)
  /\ UNCHANGED <<opened, pos, content>>

Close(h) ==
  /\ opened[h] # None
  /\ opened' = [opened EXCEPT ![h] = None]
  /\ pos' = [pos EXCEPT ![h] = 0]
  /\ out' = Done
  /\ UNCHANGED content

Seek(h, p) ==
  /\ opened[h] # None
  /\ pos' = [pos EXCEPT ![h] = p]
  /\ out' = Done
  /\ p <= Len(content[opened[h]])
  /\ UNCHANGED <<opened, content>>

Write(h, data) ==
  /\ opened[h] # None
  /\ pos' = [pos EXCEPT ![h] = @ + Len(data)]
  /\ out' = Done
  /\ pos[h] <= Len(content[opened[h]])
  /\ content' = [content EXCEPT ![opened[h]] = Overwritten(@, pos[h], data)]
  /\ UNCHANGED opened

(* The position after a read that met the end of the file is not promised. *)
Read(h, n) ==
  /\ opened[h] # None
  /\ LET s == content[opened[h]]
         got == SubSeq(s, pos[h] + 1, Min({pos[h] + n, Len(s)}))
     IN  /\ out' = Result("read", got)
         /\ \E skipped \in {n, Len(got)} : pos' = [pos EXCEPT ![h] = @ + skipped]
  /\ UNCHANGED <<opened, content>>

Truncate(h, n) ==
  /\ opened[h] # None
  /\ out' = Done
  /\ UNCHANGED <<opened, pos>>
  /\ n <= Len(content[opened[h]])
  /\ content' = [content EXCEPT ![opened[h]] = SubSeq(@, 1, n)]

(* Forcing the writes to the medium, or asking how much room it has, changes nothing; *)
(* how much room there is is not for this module to say.                              *)
Sync ==
  /\ out' = Done
  /\ UNCHANGED <<opened, pos, content>>

SizeOf(f) ==
  /\ ~ IsOpen(f)
  /\ out' = Result("size", Len(content[f]))
  /\ UNCHANGED <<opened, pos, content>>

Delete(f) ==
  /\ ~ IsOpen(f)
  /\ out' = Done
  /\ UNCHANGED <<opened, pos>>
  /\ content' = [content EXCEPT ![f] = << >>]

Next ==
  \/ Sync
  \/ \E h \in Handles :
       \/ \E f \in Files : Open(f, h)
       \/ Close(h)
       \/ \E p \in Positions : Seek(h, p) \/ Truncate(h, p)
       \/ \E data \in Data : Write(h, data)
       \/ \E n \in ReadSizes : Read(h, n)
  \/ \E f \in Files : Locked(f) \/ SizeOf(f) \/ Delete(f)

Spec == Init /\ [][Next]_vars
=============================================================================
