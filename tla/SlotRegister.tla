----------------------------- MODULE SlotRegister -----------------------------
(***************************************************************************)
(* SlotRegister (register.rs): hands out the indices 0 .. size - 1 of a    *)
(* table the kernel keeps: direct files, fixed buffers or buffer groups.   *)
(* A register is a record of the stack of returned indices and the number  *)
(* of indices handed out at least once.                                    *)
(***************************************************************************)
EXTENDS Integers, Sequences

(* SlotRegister::new *)
NewRegister == [vacant |-> <<>>, len |-> 0]

(* Mutant: no limit. *)
HasSlotAlways(g, size) == TRUE

(* get returns a slot: one was returned, or one was never handed out. *)
HasSlot(g, size) == g.vacant # <<>> \/ g.len # size

(* The slot get returns: the last one that came back, else the next new one. *)
SlotOf(g) == IF g.vacant # <<>> THEN g.vacant[Len(g.vacant)] ELSE g.len

(* Mutant: the returned slot is read and not popped. *)
AfterGetPeek(g) == IF g.vacant # <<>> THEN g ELSE [g EXCEPT !.len = @ + 1]

(* get, when there is a slot. *)
AfterGet(g) ==
  IF g.vacant # <<>>
  THEN [g EXCEPT !.vacant = SubSeq(@, 1, Len(@) - 1)]
  ELSE [g EXCEPT !.len = @ + 1]

(* Mutant: slot 0 is taken for an invalid one. *)
AfterRemovePositive(g, s, size) ==
  IF 0 < s /\ s < size THEN [g EXCEPT !.vacant = Append(@, s)] ELSE g

(* remove: an index past the end belongs to the kernel's own range. *)
AfterRemove(g, s, size) ==
  IF s < size THEN [g EXCEPT !.vacant = Append(@, s)] ELSE g

(* is_full: every slot that was handed out has come back. *)
IsFull(g) == g.len = Len(g.vacant)

===============================================================================
