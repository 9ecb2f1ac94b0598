----------------------------- MODULE SharedConn -----------------------------
(***************************************************************************)
(* The outgoing TCP connection that all goroutines of a service share:     *)
(* `kw` of cmd/dedup, a variable under a mutex (`pconn` of cmd/keyword is  *)
(* another of the same shape, which the program never comes to dial).      *)
(* It is dialled when it is nil, in one critical section, and used in      *)
(* another; a goroutine whose write fails sets it to nil.  Connections are *)
(* numbered as they are dialled, 0 is nil.                                 *)
(***************************************************************************)
EXTENDS Integers, Sequences

CONSTANTS Frames,     \* what is sent
          MaxConns    \* bound: connections dialled

VARIABLES out,        \* the connection in the variable
          dialed,     \* how many have been dialled
          cut,        \* those whose other end is gone
          wire        \* the frames each has yet to deliver

vars == <<out, dialed, cut, wire>>

Conns == 1 .. MaxConns

TypeOK ==
  /\ dialed \in 0 .. MaxConns
  /\ out \in 0 .. dialed
  /\ cut \subseteq 1 .. dialed
  /\ wire \in [Conns -> Seq(Frames)]

Init == out = 0 /\ dialed = 0 /\ cut = {} /\ wire = [n \in Conns |-> << >>]

Dial ==
  \/ out # 0 /\ UNCHANGED vars
  \/ /\ out = 0 /\ dialed < MaxConns
     /\ out' = dialed + 1 /\ dialed' = dialed + 1
     /\ UNCHANGED <<cut, wire>>

\* A connection that is cut takes a frame or two before its writes fail.
Write(f) ==
  /\ out # 0
  /\ wire' = IF out \in cut THEN wire
             ELSE [wire EXCEPT ![out] = Append(@, f)]
  /\ UNCHANGED <<out, dialed, cut>>

WriteFails == out \in cut /\ out' = 0 /\ UNCHANGED <<dialed, cut, wire>>

Read(n) ==
  /\ wire[n] # << >>
  /\ wire' = [wire EXCEPT ![n] = Tail(@)]
  /\ UNCHANGED <<out, dialed, cut>>

\* The service dies: what its kernel has taken still arrives.
OwnerDies == out' = 0 /\ UNCHANGED <<dialed, cut, wire>>

\* The service at the other end dies: what was under way is lost.
PeerDies ==
  /\ cut' = 1 .. dialed
  /\ wire' = [n \in Conns |-> << >>]
  /\ UNCHANGED <<out, dialed>>
=============================================================================
