----------------------------- MODULE CallMirror ------------------------------
(***************************************************************************)
(* What the call manager promises about the lists of calls cellular_call   *)
(* sends: the lists are followed in the order they came, one call at a     *)
(* time, a shown call only ever changes to what the oldest unfinished list *)
(* says of it, and a list is finished only when every call in it is shown  *)
(* as listed and every other call of the slot is gone.  A ringing call may *)
(* be screened instead: it is then not shown at all.                       *)
(***************************************************************************)
EXTENDS Naturals, Sequences

CONSTANTS
    Slots, Indexes,  \* where a call can be
    Shown,           \* what a call may look like while it is shown
    Ringing,         \* the looks of a ringing call, a subset of Shown
    Absent           \* the look of no call

VARIABLES
    shown,     \* per slot and index, the call's look
    inbox,     \* the lists not finished yet, oldest first
    screened   \* places whose ringing call is not shown

mirrorVars == <<shown, inbox, screened>>

Lists == [slot: Slots, calls: [Indexes -> Shown \cup {Absent}]]

MirrorInit ==
    /\ shown = [s \in Slots |-> [i \in Indexes |-> Absent]]
    /\ inbox = <<>>
    /\ screened = {}

\* Another list arrives.
Post == /\ Len(inbox') = Len(inbox) + 1
        /\ inbox'[Len(inbox) + 1] \in Lists
        /\ inbox = SubSeq(inbox', 1, Len(inbox))
        /\ UNCHANGED <<shown, screened>>

\* One call is brought to what the oldest list says.
Follow ==
    /\ inbox # <<>>
    /\ LET l == Head(inbox)
       IN \E i \in Indexes :
            /\ shown[l.slot][i] # l.calls[i]
            /\ shown' = [shown EXCEPT ![l.slot][i] = l.calls[i]]
            /\ screened' = screened \ {<<l.slot, i>>}
    /\ UNCHANGED inbox

\* A ringing call the policies refuse is left out.
Screen ==
    /\ inbox # <<>>
    /\ LET l == Head(inbox)
       IN \E i \in Indexes :
            /\ shown[l.slot][i] = Absent /\ l.calls[i] \in Ringing
            /\ screened' = screened \cup {<<l.slot, i>>}
    /\ UNCHANGED <<shown, inbox>>

Finish ==
    /\ inbox # <<>>
    /\ LET l == Head(inbox)
       IN /\ \A i \in Indexes :
               \/ shown[l.slot][i] = l.calls[i]
               \/ shown[l.slot][i] = Absent /\ <<l.slot, i>> \in screened
          /\ screened' = screened \ {<<l.slot, i>> : i \in {j \in Indexes : l.calls[j] = Absent}}
    /\ inbox' = Tail(inbox)
    /\ UNCHANGED shown

MirrorNext == Post \/ Follow \/ Screen \/ Finish
MirrorSpec == MirrorInit /\ [][MirrorNext]_mirrorVars
=============================================================================
