---------------------------- MODULE IpListValue -----------------------------
(***************************************************************************)
(* What the repository of IP lists promises about the entries of one list, *)
(* as a reader sees them: a bulk write, a clearing, a deletion or a        *)
(* restore shows as a whole or not at all.                                 *)
(***************************************************************************)
EXTENDS Naturals

CONSTANTS Values, Parts, NoList
VARIABLE list

Whole(v) == {v} \X (1 .. Parts)
Entries == Values \X (1 .. Parts)

Init == list \in {Whole(v) : v \in Values}

Put == \E v \in Values : list # NoList /\ list' = Whole(v)
Restore == \E v \in Values : list' = Whole(v)
Clear == list # NoList /\ list' = {}
Append == \E e \in Entries : list # NoList /\ list' = list \cup {e}
Drop == \E e \in Entries : list # NoList /\ list' = list \ {e}
Vanish == list # NoList /\ list' = NoList

Next == Put \/ Restore \/ Clear \/ Append \/ Drop \/ Vanish

Spec == Init /\ [][Next]_list
=============================================================================
