-------------------------------- MODULE Pipe ---------------------------------
(***************************************************************************)
(* What the packet layer promises to the channels above it: in either      *)
(* direction a first-in first-out line that loses nothing and delivers in  *)
(* the end.  Packets are numbered in the order they are handed over.       *)
(***************************************************************************)
EXTENDS Naturals, Sequences

CONSTANT
    Senders

VARIABLES
    queue,      \* packets of each sender on their way
    handed,     \* number of packets each sender has handed over
    taken       \* number of packets of each sender that were delivered

pipeVars == <<queue, handed, taken>>

PipeInit ==
    /\ queue = [e \in Senders |-> <<>>]
    /\ handed = [e \in Senders |-> 0] /\ taken = [e \in Senders |-> 0]

HandOver(e) ==
    /\ handed' = [handed EXCEPT ![e] = @ + 1]
    /\ queue' = [queue EXCEPT ![e] = Append(@, handed[e] + 1)]
    /\ UNCHANGED taken

Deliver(e) ==
    /\ queue[e] # <<>> /\ Head(queue[e]) = taken[e] + 1
    /\ taken' = [taken EXCEPT ![e] = @ + 1]
    /\ queue' = [queue EXCEPT ![e] = Tail(@)]
    /\ UNCHANGED handed

PipeNext == \E e \in Senders : HandOver(e) \/ Deliver(e)

\* Nothing is lost, repeated or overtaken.
PipeSafe == PipeInit /\ [][PipeNext]_pipeVars

PipeSpec == PipeSafe /\ \A e \in Senders : WF_pipeVars(Deliver(e))

=============================================================================
