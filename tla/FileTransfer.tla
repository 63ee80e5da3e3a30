---------------------------- MODULE FileTransfer ----------------------------
(***************************************************************************)
(* What a file transfer promises, whatever protocol carries it: the files  *)
(* of a batch are stored and reported one after the other, a file under    *)
(* way holds an initial piece of what was sent, and a file reported sent   *)
(* is stored completely and stays so.                                      *)
(***************************************************************************)
EXTENDS Integers, Sequences

CONSTANTS NFiles, Size

VARIABLES
  store,    \* store[f]: the bytes stored for file f
  report    \* report[f]: "todo", "sent" or "declined"

ftVars == <<store, report>>

Piece(f, n) == [i \in 1..n |-> <<f, i - 1>>]

FTInit == /\ store = [f \in 1..NFiles |-> <<>>]
          /\ report = [f \in 1..NFiles |-> "todo"]

Current(f) == /\ report[f] = "todo"
              /\ \A g \in 1..(f-1) : report[g] # "todo"

Extend(f) == /\ Current(f)
             /\ \E n \in Len(store[f])..Size[f] : store' = [store EXCEPT ![f] = Piece(f, n)]
             /\ UNCHANGED report

Discard(f) == /\ Current(f)
              /\ store' = [store EXCEPT ![f] = <<>>]
              /\ UNCHANGED report

Confirm(f) == /\ Current(f) /\ store[f] = Piece(f, Size[f])
              /\ report' = [report EXCEPT ![f] = "sent"]
              /\ UNCHANGED store

Decline(f) == /\ Current(f)
              /\ report' = [report EXCEPT ![f] = "declined"]
              /\ UNCHANGED store

FTNext == \E f \in 1..NFiles : Extend(f) \/ Discard(f) \/ Confirm(f) \/ Decline(f)
FTSpec == FTInit /\ [][FTNext]_ftVars
=============================================================================
