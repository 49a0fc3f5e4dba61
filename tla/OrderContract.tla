--------------------------- MODULE OrderContract ---------------------------
(***************************************************************************)
(* What the order layer promises the rest of the trading floor, with no    *)
(* clock, latency, race or loop in it.  An order is absent, then working,  *)
(* lost (its true state is unknowable) or done; a working order can only   *)
(* gain fills, never more than it asked for; a done order never changes;   *)
(* nothing but a resolution moves a lost one.  PaperExecution implements   *)
(* this specification under the refinement mapping stated there.           *)
(***************************************************************************)
EXTENDS Naturals

CONSTANTS Orders,   \* order identifiers
          Qty       \* the quantity every order asks for, in lots

VARIABLES phase,    \* Orders -> Phases
          traded    \* Orders -> lots filled

contractVars == <<phase, traded>>

Phases == {"absent", "working", "lost", "done"}

ContractTypeOK ==
    /\ phase \in [Orders -> Phases]
    /\ traded \in [Orders -> 0..Qty]

ContractInit ==
    /\ phase = [o \in Orders |-> "absent"]
    /\ traded = [o \in Orders |-> 0]

\* An order is accepted and worked, or refused outright.
Accept(o) ==
    /\ phase[o] = "absent"
    /\ phase' \in {[phase EXCEPT ![o] = p] : p \in {"working", "done"}}
    /\ UNCHANGED traded

\* A working order may trade and may finish; one that has traded in full is
\* finished.
Work(o) ==
    /\ phase[o] = "working"
    /\ \E lots \in traded[o]..Qty, p \in {"working", "done"} :
          /\ lots = Qty => p = "done"
          /\ traded' = [traded EXCEPT ![o] = lots]
          /\ phase' = [phase EXCEPT ![o] = p]

\* The venue stops answering: nothing is assumed about the order.
Lose(o) ==
    /\ phase[o] = "working"
    /\ phase' = [phase EXCEPT ![o] = "lost"]
    /\ UNCHANGED traded

\* Truth is learned about a lost order.
Resolve(o) ==
    /\ phase[o] = "lost"
    /\ phase' \in {[phase EXCEPT ![o] = p] : p \in {"working", "done"}}
    /\ UNCHANGED traded

ContractNext == \E o \in Orders : Accept(o) \/ Work(o) \/ Lose(o) \/ Resolve(o)

ContractSpec == ContractInit /\ [][ContractNext]_contractVars
=============================================================================
