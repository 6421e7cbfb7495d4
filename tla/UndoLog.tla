------------------------------- MODULE UndoLog -------------------------------
(***************************************************************************)
(* What the undo history of the active dataset promises, without files,    *)
(* budgets or cursors: the versions that can be undone to, the version on  *)
(* screen, and the versions that can be redone.                            *)
(***************************************************************************)
EXTENDS Naturals, Sequences

CONSTANTS
    Versions,       \* what a dataset can hold
    Capacity        \* the revisions kept at most, the one on screen included

VARIABLES past, present, future

log == <<past, present, future>>

Recent(versions) ==
    {SubSeq(versions, i, Len(versions)) : i \in 1 .. Len(versions) + 1}

Occurs(v, versions) == \E i \in DOMAIN versions : versions[i] = v

Init ==
    /\ past = <<>>
    /\ present \in Versions
    /\ future = <<>>

(* A change shows a new version.  It ends the redo branch, and the oldest  *)
(* versions may be forgotten, never one in the middle.                     *)
Apply ==
    /\ \E v \in Versions :
         /\ v # present /\ ~Occurs(v, past) /\ ~Occurs(v, future)
         /\ present' = v
    /\ past' \in {kept \in Recent(Append(past, present)) : Len(kept) < Capacity}
    /\ future' = <<>>

Undo ==
    /\ past # <<>>
    /\ past' = SubSeq(past, 1, Len(past) - 1)
    /\ present' = past[Len(past)]
    /\ future' = <<present>> \o future

Redo ==
    /\ future # <<>>
    /\ past' = Append(past, present)
    /\ present' = Head(future)
    /\ future' = Tail(future)

Next == Apply \/ Undo \/ Redo

Spec == Init /\ [][Next]_log
=============================================================================
