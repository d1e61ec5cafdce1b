--------------------------- MODULE BorrowedSetting ---------------------------
(***************************************************************************)
(* What a lease on system settings promises, whatever the steps by which   *)
(* it is kept: the service may take a place over and has then borrowed it; *)
(* a borrowed place is written by the service again only to give it back,  *)
(* with the value remembered when it was taken.  Anybody else may change a *)
(* place at any time, which ends the borrowing.                            *)
(***************************************************************************)
EXTENDS Naturals

CONSTANTS Place, Value

VARIABLES
  setting,     \* the value of each place
  held,        \* places that the service has borrowed
  before,      \* what it remembers of them
  others       \* changes made by others

borrowVars == <<setting, held, before, others>>

BorrowInit ==
  /\ setting \in [Place -> Value] /\ held = [p \in Place |-> FALSE]
  /\ before \in [Place -> Value] /\ others = 0

\* The remembered value was read before, and may be older than the current.
Take(p, v, o) ==
  /\ ~held[p]
  /\ setting' = [setting EXCEPT ![p] = v]
  /\ before' = [before EXCEPT ![p] = o]
  /\ held' = [held EXCEPT ![p] = o # v]
  /\ UNCHANGED others

GiveBack(p) ==
  /\ held[p]
  /\ setting' = [setting EXCEPT ![p] = before[p]]
  /\ held' = [held EXCEPT ![p] = FALSE]
  /\ UNCHANGED <<before, others>>

\* A write that comes too late: somebody else has changed the place since
\* the service last looked at it.
WriteLate(p, v) ==
  /\ ~held[p]
  /\ setting' = [setting EXCEPT ![p] = v]
  /\ UNCHANGED <<held, before, others>>

OtherChange(p, v) ==
  /\ others' = others + 1
  /\ setting' = [setting EXCEPT ![p] = v]
  /\ held' = [held EXCEPT ![p] = FALSE]
  /\ UNCHANGED before

OtherEvent == others' = others + 1 /\ UNCHANGED <<setting, held, before>>

BorrowNext ==
  \/ \E p \in Place : GiveBack(p)
  \/ \E p \in Place, v \in Value : WriteLate(p, v) \/ OtherChange(p, v)
  \/ \E p \in Place, v, o \in Value : Take(p, v, o)
  \/ OtherEvent

Borrowing == BorrowInit /\ [][BorrowNext]_borrowVars
=============================================================================
