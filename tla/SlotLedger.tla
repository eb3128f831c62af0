----------------------------- MODULE SlotLedger -----------------------------
(***************************************************************************)
(* What the scheduler of kvqc2d promises about the slots it runs, without  *)
(* files, scans or queues.  A slot is a configuration file together with   *)
(* the minute at which it is to run.  The ledger holds the slots that were *)
(* taken up and must not be taken up again; slots are taken up one at a    *)
(* time, in the order of their minutes and, within a minute, of the sorted *)
(* file names.  The ledger forgets slots only when time itself is taken    *)
(* back: at a restart of the daemon, or when the system clock was set back.*)
(***************************************************************************)
EXTENDS Integers

CONSTANTS
    Files,      \* configuration files, numbered in the order of their names
    NoSlot      \* the value of "current" when no algorithm is running

VARIABLES
    settled,    \* slots taken up and not to be taken up again
    current     \* the slot whose algorithm is running, or NoSlot

ledgerVars == <<settled, current>>

Slots == [slot : Int, file : Files]

Before(a, b) == \/ a.slot < b.slot
                \/ a.slot = b.slot /\ a.file < b.file

LedgerInit == settled = {} /\ current = NoSlot

\* Take up slot e: it follows every slot in the ledger, so it is not one of them.
TakeUp(e) ==
    /\ current = NoSlot
    /\ \A x \in settled : Before(x, e)
    /\ settled' = settled \union {e}

\* A slot of a file without a usable algorithm is taken up and is over at once.
PassOver == /\ \E e \in settled' : TakeUp(e)
            /\ UNCHANGED current

Execute == \E e \in settled' : TakeUp(e) /\ current' = e

Complete == /\ current # NoSlot
            /\ current' = NoSlot
            /\ UNCHANGED settled

\* Time was taken back: the slots after some minute may come again.
Rewind == /\ settled' \subseteq settled
          /\ \A x \in settled', y \in settled \ settled' : x.slot < y.slot
          /\ current' \in {current, NoSlot}

LedgerNext == PassOver \/ Execute \/ Complete \/ Rewind

LedgerSpec == LedgerInit /\ [][LedgerNext]_ledgerVars
=============================================================================
