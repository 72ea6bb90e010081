---------------------------- MODULE ConverterSpec ----------------------------
(***************************************************************************)
(* What a chain of AudioConverter stages promises the stage after it       *)
(* (spec 4.2, "Propagation", and 8, "Link acceptance"): the samples of the *)
(* source's activation arrive, each stage of the chain having converted    *)
(* every one of them to its output format, exactly once and in order.      *)
(*                                                                         *)
(* A sample is [smp, fmt]: its position in the source's activation and the *)
(* format it is held in.  A stage is [kind, in, out].                      *)
(***************************************************************************)
EXTENDS Naturals, Sequences

CONSTANTS
  Chains,       \* the chains of stages a source may be linked through
  SampleCounts  \* samples per source activation

VARIABLES
  chain,    \* the chain this activation goes through
  done,     \* stages that have processed the activation
  samples   \* the activation as the next stage would read it

vars == <<chain, done, samples>>

\* A stage converts every sample to its output format and keeps the order.
Converted(st, s) == [i \in DOMAIN s |-> [smp |-> s[i].smp, fmt |-> st.out]]

Init ==
  /\ chain \in Chains
  /\ done = 0
  /\ \E n \in SampleCounts :
       samples = [i \in 1..n |-> [smp |-> i, fmt |-> chain[1].in]]

\* The next stage processes the activation.
Stage ==
  /\ done < Len(chain)
  /\ done' = done + 1
  /\ samples' = Converted(chain[done + 1], samples)
  /\ UNCHANGED chain

\* Every activation is carried through the whole chain.
Spec == Init /\ [][Stage]_vars /\ WF_vars(Stage)

=============================================================================
