------------------------------ MODULE KernelList ------------------------------
(***************************************************************************)
(* The intrusive lists of include/linux/list.h as the wait queues use      *)
(* them.  A list is the sequence of its entries from head->next to         *)
(* head->prev; an entry is named by the task whose stack it lives on, so   *)
(* an entry is on a list at most once.                                     *)
(***************************************************************************)
EXTENDS Naturals, Sequences

(* The entries of a list. *)
Entries(l) == {l[i] : i \in 1 .. Len(l)}

list_empty(l) == Len(l) = 0

list_add(e, l) == <<e>> \o l

list_add_tail(e, l) == Append(l, e)

(* The entry list_first_entry(), or list_entry(head->next, ...), yields. *)
list_first_entry(l) == Head(l)

(* Where entry e is on the list. *)
Position(l, e) == CHOOSE i \in 1 .. Len(l) : l[i] = e

(* Unlink entry e, wherever it is on the list. *)
list_del(l, e) ==
  [j \in 1 .. (Len(l) - 1) |-> IF j < Position(l, e) THEN l[j] ELSE l[j + 1]]

(* No entry is linked twice: linking a linked entry again corrupts a list. *)
NoDuplicates(l) == \A i, j \in 1 .. Len(l) : l[i] = l[j] => i = j

===============================================================================
