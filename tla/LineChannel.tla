---------------------------- MODULE LineChannel -----------------------------
(***************************************************************************)
(* What get_line() and put_line() of net.c promise the two ends of a       *)
(* connection, without sockets or bytes: the lines that come out are the   *)
(* lines that were put in, whole and in their order.  Nothing is promised  *)
(* about how many of them come out.                                        *)
(***************************************************************************)
EXTENDS Naturals, Sequences

CONSTANT Texts   \* the lines that can be put in

VARIABLES
  put,   \* the lines given to put_line, in order
  got    \* the lines get_line has returned, in order

Init == put = <<>> /\ got = <<>>

Put == /\ \E t \in Texts : put' = Append(put, t)
       /\ UNCHANGED got

Get == /\ Len(got) < Len(put)
       /\ got' = Append(got, put[Len(got) + 1])
       /\ UNCHANGED put

Spec == Init /\ [][Put \/ Get]_<<put, got>>

=============================================================================
