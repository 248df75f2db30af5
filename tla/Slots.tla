--------------------------------- MODULE Slots ---------------------------------
(***************************************************************************)
(* The renderer's handle tables (meshes_, texMeshes_, textures_): a vector *)
(* whose dead entries are used again, the lowest first, so that handles    *)
(* stay small. A handle counts from 1 here, from 0 in the code.            *)
(***************************************************************************)
EXTENDS Integers, Sequences

CONSTANT Dead   \* an entry that is not valid

Free(s)    == {i \in 1 .. Len(s) + 1 : i = Len(s) + 1 \/ s[i] = Dead}
SlotFor(s) == CHOOSE i \in Free(s) : \A j \in Free(s) : i <= j

Taken(s) == {i \in DOMAIN s : s[i] # Dead}

(* The end of a creation: the lowest dead slot, or a new one.               *)
Stored(s, x) ==
  LET slot == SlotFor(s)
  IN  [i \in 1 .. (IF slot > Len(s) THEN slot ELSE Len(s)) |->
         IF i = slot THEN x ELSE s[i]]

(* A destruction, of each handle of a set; one that is dead stays so.       *)
Without(s, handles) == [i \in 1 .. Len(s) |-> IF i \in handles THEN Dead ELSE s[i]]
=============================================================================
