---------------------------- MODULE FaultCounter ----------------------------
(***************************************************************************)
(* The counter of requested failures (consumeFault of the two stores): how *)
(* many attempts have been refused under each nonce, and when the nonce    *)
(* was first seen.  A row is pruned by age, by whichever call comes next;  *)
(* reset leaves the rows alone, and those of the Durable Object survive a  *)
(* restart.  The two stores differ in how a row is kept, not in what it    *)
(* answers: times is at least 1 (src/fault.ts).                            *)
(***************************************************************************)
EXTENDS Integers, Sequences, FiniteSets, Functions

CONSTANTS
    Nonces,   \* what callers name their runs
    Times,    \* how many refusals a caller may ask for: 1 to FAULT_TIMES_MAX
    TTL,      \* FAULT_TTL_MS, in ticks
    Horizon   \* bound: the clock stops here

ASSUME CounterAssumption ==
    /\ Times \subseteq Nat \ {0}
    /\ TTL \in Nat
    /\ Horizon \in Nat

VARIABLES
    now,      \* Date.now()
    faults    \* for each nonce that has a row, the row

NoFaults == [nonce \in {} |-> 0]

\* Mutants: a row is forgotten a tick early; or never.
RememberedBriefly(row) == now - row.firstSeen < TTL
RememberedForever(row) == TRUE

Remembered(row) == now - row.firstSeen <= TTL

\* Mutant: a call prunes every row but its own.
OthersPruned == Restrict(faults, {})

\* The rows left by the DELETE a call begins with.
Pruned == Restrict(faults, {nonce \in DOMAIN faults : Remembered(faults[nonce])})

\* Mutant: one refusal too many.
RefusesOnceMore(nonce, times) == nonce \in DOMAIN Pruned => Pruned[nonce].refused <= times

Refuses(nonce, times) == nonce \in DOMAIN Pruned => Pruned[nonce].refused < times

\* Mutant: a new row is dated with the cutoff of the pruning.
CountedFromCutoff(nonce) ==
    IF nonce \in DOMAIN Pruned
      THEN [Pruned[nonce] EXCEPT !.refused = @ + 1]
      ELSE [refused |-> 1, firstSeen |-> now - TTL]

\* The row of nonce with this attempt counted.
Counted(nonce) ==
    IF nonce \in DOMAIN Pruned
      THEN [Pruned[nonce] EXCEPT !.refused = @ + 1]
      ELSE [refused |-> 1, firstSeen |-> now]

\* One attempt under nonce, the first times of which are to be refused.
ConsumeFault(nonce, times) ==
    \/ /\ Refuses(nonce, times)
       /\ faults' = [n \in DOMAIN Pruned \cup {nonce} |->
                        IF n = nonce THEN Counted(nonce) ELSE Pruned[n]]
    \/ /\ ~Refuses(nonce, times)
       /\ faults' = Pruned

\* Mutant: reset empties every table.
FaultsAfterResetNone == NoFaults

\* reset empties the four tables of the catalogue, and no other.
FaultsAfterReset == faults
=============================================================================
